---------------------------- MODULE ClientFigures ----------------------------
(***************************************************************************)
(* The figures a report hands to a client: how long a target was           *)
(* available, and behind which public address.  Both are read from what a  *)
(* probe sent, and neither feeds the other: a behaviour is about the one   *)
(* or the other.                                                           *)
(***************************************************************************)
EXTENDS AddressHistory, Availability

VARIABLE about   (* "address" or "availability" *)

figuresVars == <<addressVars, measures, about>>

FiguresInit ==
  /\ AddressInit /\ AvailabilityInit
  /\ \/ about = "address"
     \/ /\ about = "availability" /\ \A l, k \in Lan : exit[l] = exit[k]
        /\ setting = CHOOSE s \in Setting : TRUE

FiguresNext ==
  /\ \/ about = "address" /\ AddressNext /\ UNCHANGED measures
     \/ about = "availability" /\ AvailabilityNext /\ UNCHANGED addressVars
  /\ UNCHANGED about

FiguresSpec == FiguresInit /\ [][FiguresNext]_figuresVars
=============================================================================

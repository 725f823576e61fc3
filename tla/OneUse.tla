------------------------------- MODULE OneUse -------------------------------
(***************************************************************************)
(* What a short code promises, whoever it is for: read on a screen, it     *)
(* lives for some minutes and lets in one bearer at most, once.            *)
(***************************************************************************)
CONSTANTS Code, Bearer

VARIABLES
  open,    (* the codes that can still be presented                        *)
  used,    (* the codes presented while they could be                      *)
  gained   (* the pairs of a code and of the bearer it let in              *)

Init == open = {} /\ used = {} /\ gained = {}

Issue(c) ==
  /\ c \notin open \cup used
  /\ open' = open \cup {c} /\ UNCHANGED <<used, gained>>

Lapse(c) ==
  /\ c \in open /\ open' = open \ {c} /\ UNCHANGED <<used, gained>>

\* Presented: nobody else can.
Present(c) ==
  /\ c \in open /\ open' = open \ {c} /\ used' = used \cup {c}
  /\ UNCHANGED gained

\* And its bearer is let in, or is not: the code is spent all the same.
Gain(c, b) ==
  /\ c \in used /\ ~\E x \in Bearer : <<c, x>> \in gained
  /\ gained' = gained \cup {<<c, b>>} /\ UNCHANGED <<open, used>>

Next ==
  \E c \in Code : Issue(c) \/ Lapse(c) \/ Present(c) \/ \E b \in Bearer : Gain(c, b)

Spec == Init /\ [][Next]_<<open, used, gained>>

=============================================================================

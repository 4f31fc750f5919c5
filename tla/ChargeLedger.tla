---------------------------- MODULE ChargeLedger ----------------------------
(* What the PENDING-first rule of lib/billing/subscription.ts promises of one *)
(* member's payments, whoever makes them: an attempt is written down before   *)
(* the gateway may take it, at most one is open, an open attempt is closed    *)
(* once, as what really happened, and a closed one is never taken.            *)
CONSTANT Order

VARIABLES att, taken       \* att: the row of each order; taken: money moved

ledgerVars == <<att, taken>>

Opened == {o \in Order : att[o] = "PENDING"}

LedgerInit == att = [o \in Order |-> "NOROW"] /\ taken = {}

(* The attempt is recorded; no other may be open.                            *)
Open(o) ==
  /\ att[o] = "NOROW" /\ Opened = {}
  /\ att' = [att EXCEPT ![o] = "PENDING"] /\ UNCHANGED taken

(* Recorded as failed at once: the gateway will not be called.               *)
Refuse(o) ==
  /\ att[o] = "NOROW"
  /\ att' = [att EXCEPT ![o] = "FAILED"] /\ UNCHANGED taken

(* The gateway takes the money.                                              *)
Take(o) ==
  /\ att[o] = "PENDING" /\ o \notin taken
  /\ taken' = taken \cup {o} /\ UNCHANGED att

Close(o) ==
  /\ att[o] = "PENDING"
  /\ att' = [att EXCEPT ![o] = IF o \in taken THEN "PAID" ELSE "FAILED"]
  /\ UNCHANGED taken

LedgerNext == \E o \in Order : Open(o) \/ Refuse(o) \/ Take(o) \/ Close(o)

LedgerSpec == LedgerInit /\ [][LedgerNext]_ledgerVars
=============================================================================

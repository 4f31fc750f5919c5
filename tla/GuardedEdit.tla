------------------------------ MODULE GuardedEdit ------------------------------
(* What a review of proposed design texts promises: a proposal is written over *)
(* the text it was derived from or not at all.  A text that somebody edited    *)
(* in the meantime makes the proposal outdated, and no proposal is decided     *)
(* twice.                                                                      *)
EXTENDS Naturals

CONSTANTS
  Subject,   \* texts under review
  Wording,   \* values of a text
  Proposal   \* proposals that may be made, each about one subject

VARIABLES
  wording,   \* the text of every subject
  proposal   \* per proposal: its subject, basis, new text and verdict

guardedVars == <<wording, proposal>>

Unmade == "NONE"

GuardedInit ==
  /\ wording \in [Subject -> Wording]
  /\ \A p \in Proposal : proposal[p].verdict = Unmade

Edit(s) ==
  /\ \E w \in Wording : wording' = [wording EXCEPT ![s] = w]
  /\ UNCHANGED proposal

(* The proposals of one analysis are made together.                            *)
Propose ==
  /\ \A p \in Proposal :
       \/ proposal'[p] = proposal[p]
       \/ proposal[p].verdict = Unmade /\ proposal'[p].verdict = "OPEN"
  /\ UNCHANGED wording

Verdict(p, v) ==
  /\ proposal[p].verdict = "OPEN"
  /\ proposal' = [proposal EXCEPT ![p].verdict = v]

Apply(p) ==
  /\ wording[proposal[p].about] = proposal[p].basis
  /\ wording' = [wording EXCEPT ![proposal[p].about] = proposal[p].text]
  /\ Verdict(p, "APPLIED")

Outdate(p) ==
  /\ wording[proposal[p].about] # proposal[p].basis
  /\ Verdict(p, "OUTDATED") /\ UNCHANGED wording

Decline(p) == Verdict(p, "DECLINED") /\ UNCHANGED wording

GuardedNext ==
  \/ \E s \in Subject : Edit(s)
  \/ Propose
  \/ \E p \in Proposal : Apply(p) \/ Outdate(p) \/ Decline(p)

GuardedSpec == GuardedInit /\ [][GuardedNext]_guardedVars
===============================================================================

------------------------------ MODULE ContentEdit ------------------------------
(* Saving a requirement: PUT of requirements/[reqId], its one-field siblings,  *)
(* the policy of specContentPolicyCore and the versions of its history.        *)
EXTENDS Naturals, FiniteSets, Sequences

CONSTANTS Saver,         \* requests that write the requirement
          Creator,       \* who registered it: may save for 30 minutes
          Manager,       \* members whose grant needs no window; an assignee's full save
                         \* differs in fields that are not modelled
          Scope,         \* values of scope_sttus_code, written by a save that does not send it too
          MaxHistory,    \* bound: history rows kept at a time
          MaxVersion     \* bound: major and minor version numbers

ASSUME EditAssumption == {MaxHistory, MaxVersion} \subseteq Nat /\ MaxVersion > 0
                         /\ "KEEP" \notin Scope
                         /\ "NONE" \notin {Creator} \cup Manager

VARIABLES req,      \* scope, scopeBy (who set it last), modifier (mdfcn_mber_id),
                    \* open (the creator's 30 minutes), blurred (see Rename)
          history,  \* version numbers, oldest first
          rowHeld,  \* FOR UPDATE, or the update of a transaction not committed
          saver
editVars == <<req, history, rowHeld, saver>>

Writer == {Creator} \cup Manager
Version == (1 .. MaxVersion) \X (0 .. MaxVersion)
IdleSaver == [at |-> "idle", by |-> Creator, grant |-> "MANAGER", scope |-> "KEEP",
              sent |-> FALSE, plan |-> <<>>]

(* One type invariant: requests, the row and its history.                      *)
EditTypeOK ==
  /\ req \in [scope: Scope, scopeBy: Writer, modifier: Writer \cup {"NONE"},
              open: BOOLEAN, blurred: BOOLEAN]
  /\ history \in Seq(Version) /\ Len(history) <= MaxHistory
  /\ rowHeld \in SUBSET Saver
  /\ saver \in [Saver -> [at: {"idle", "read", "write", "plan", "insert", "rename"}, by: Writer,
                          grant: {"MANAGER", "CREATOR_WINDOW"},
                          scope: Scope \cup {"KEEP"}, sent: BOOLEAN,
                          plan: {<<>>} \cup {<<v>> : v \in Version}
                                \cup {<<<<1, 0>>, v>> : v \in Version}]]

(* ------------------------------ The policy ------------------------------- *)
InWindow == req.open /\ req.modifier \in {"NONE", Creator}
Grants(m) == IF m \in Manager THEN {"MANAGER"}
             ELSE IF InWindow THEN {"CREATOR_WINDOW"} ELSE {}

EditInit ==
  /\ \E c \in Scope : req = [scope |-> c, scopeBy |-> Creator, modifier |-> "NONE",
                             open |-> TRUE, blurred |-> FALSE]
  /\ history = <<>> /\ rowHeld = {} /\ saver = [s \in Saver |-> IdleSaver]

(* requireSpecContentWrite, at the start of a full save or of a rename.        *)
CheckPolicy(s, m) ==
  /\ saver[s].at = "idle"
  /\ \E g \in Grants(m), at \in {"read", "rename"} :
       saver' = [saver EXCEPT ![s] = [IdleSaver EXCEPT !.at = at, !.by = m, !.grant = g]]
  /\ UNCHANGED <<req, history, rowHeld>>

(* The row as it is before the transaction: what is not sent is written back.  *)
ReadExisting(s, c) ==
  /\ saver[s].at = "read"
  /\ saver' = [saver EXCEPT ![s].at = "write", ![s].sent = (c # "KEEP"),
                            ![s].scope = IF c = "KEEP" THEN req.scope ELSE c]
  /\ UNCHANGED <<req, history, rowHeld>>

(* The transaction: the creator's window again under the row's lock, then the  *)
(* update, which holds the row until the commit.                               *)
WriteRowSlip(s) ==
  /\ saver[s].at = "write" /\ rowHeld = {}
  /\ saver' = [saver EXCEPT ![s].at = "plan"] /\ rowHeld' = {s}
  /\ UNCHANGED <<req, history>>
WriteRowUnheld(s) ==
  /\ saver[s].at = "write"
  /\ saver' = [saver EXCEPT ![s].at = "plan"] /\ rowHeld' = rowHeld \cup {s}
  /\ UNCHANGED <<req, history>>
WriteRow(s) ==
  /\ saver[s].at = "write" /\ rowHeld = {}
  /\ IF saver[s].grant = "CREATOR_WINDOW" /\ ~InWindow
       THEN saver' = [saver EXCEPT ![s] = IdleSaver] /\ UNCHANGED rowHeld
       ELSE saver' = [saver EXCEPT ![s].at = "plan"] /\ rowHeld' = {s}
  /\ UNCHANGED <<req, history>>

Written(s) == [req EXCEPT !.scope = saver[s].scope, !.modifier = saver[s].by,
                          !.scopeBy = IF saver[s].sent THEN saver[s].by ELSE @]
Committed(s, rows) ==
  /\ req' = Written(s) /\ history' = history \o rows
  /\ rowHeld' = rowHeld \ {s} /\ saver' = [saver EXCEPT ![s] = IdleSaver]

(* buildRequirementHistoryVersionPlan: V1.0 first, then a minor or a major.    *)
Last == history[Len(history)]
NextVersions ==
  {v \in Version : IF history = <<>> THEN v \in {<<1, 1>>, <<2, 0>>}
                   ELSE v \in {<<Last[1], Last[2] + 1>>, <<Last[1] + 1, 0>>}}
PlanVersion(s) ==
  /\ saver[s].at = "plan"
  /\ \E v \in NextVersions :
       saver' = [saver EXCEPT ![s].at = "insert",
                              ![s].plan = IF history = <<>> THEN <<<<1, 0>>, v>> ELSE <<v>>]
  /\ UNCHANGED <<req, history, rowHeld>>
InsertHistory(s) ==
  /\ saver[s].at = "insert" /\ Len(history) + Len(saver[s].plan) <= MaxHistory
  /\ Committed(s, saver[s].plan)
SaveWithoutHistory(s) == saver[s].at = "plan" /\ Committed(s, <<>>)

(* ----------------------- Writes without the check ------------------------ *)
(* PUT .../name writes one column and the modifier, whoever wrote in between:  *)
(* blurred says that the creator has so become the last modifier again.        *)
Rename(s) ==
  /\ saver[s].at = "rename" /\ rowHeld = {}
  /\ req' = [req EXCEPT !.modifier = saver[s].by,
                        !.blurred = @ \/ /\ saver[s].grant = "CREATOR_WINDOW"
                                         /\ req.modifier \notin {"NONE", Creator}]
  /\ saver' = [saver EXCEPT ![s] = IdleSaver]
  /\ UNCHANGED <<history, rowHeld>>
(* PATCH .../inline sets the scope, sort and bulk-import other columns.        *)
EditInline(m, c) ==
  /\ m \in Manager /\ rowHeld = {}
  /\ req' = [req EXCEPT !.scope = c, !.modifier = m,
                        !.scopeBy = IF c = req.scope THEN @ ELSE m]
  /\ UNCHANGED <<history, rowHeld, saver>>
DeleteHistory(i) ==
  /\ i \in DOMAIN history
  /\ history' = SubSeq(history, 1, i - 1) \o SubSeq(history, i + 1, Len(history))
  /\ UNCHANGED <<req, rowHeld, saver>>
WindowCloses == req.open /\ req' = [req EXCEPT !.open = FALSE] /\ UNCHANGED <<history, rowHeld, saver>>

EditNext ==
  \/ \E s \in Saver, m \in Writer : CheckPolicy(s, m)
  \/ \E s \in Saver, c \in Scope \cup {"KEEP"} : ReadExisting(s, c)
  \/ \E s \in Saver : \/ WriteRow(s) \/ PlanVersion(s) \/ InsertHistory(s)
                      \/ SaveWithoutHistory(s) \/ Rename(s)
  \/ \E m \in Manager, c \in Scope : EditInline(m, c)
  \/ \E i \in 1 .. MaxHistory : DeleteHistory(i)
  \/ WindowCloses

EditSpec == EditInit /\ [][EditNext]_editVars

(* ------------------------------ Properties ------------------------------- *)
(* Two saves at once never give two history rows of a requirement the same     *)
(* version: the number is planned after the update that holds the row          *)
(* (requirements/[reqId]/route.ts:222 and 262).                                *)
VersionsDistinct == \A i, j \in DOMAIN history : history[i] = history[j] => i = j

(* A save under the creator's grant never puts back a scope another member has *)
(* changed since it read the row: the window is checked again under the row's  *)
(* lock (specContentWriteConcurrency.ts:52).  Only a rename that landed after  *)
(* another member's edit can reopen the window (blurred).                      *)
CreatorUndoesNoOther ==
  [][\A s \in Saver :
       /\ saver[s].at \in {"plan", "insert"} /\ saver'[s].at = "idle"
       /\ saver[s].grant = "CREATOR_WINDOW" /\ ~saver[s].sent /\ ~req.blurred
       => req'.scope = req.scope \/ req.scopeBy = Creator]_editVars
===============================================================================

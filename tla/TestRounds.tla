------------------------------ MODULE TestRounds -------------------------------
(* A test specification: its cases, its rounds and the result of each case in  *)
(* each round (test-specs/[specId] and below, lib/qa).  The transactions are   *)
(* SERIALIZABLE, one step each or a 409; what a handler reads before its       *)
(* transaction is a step of its own.                                           *)
EXTENDS Naturals, FiniteSets

CONSTANTS TestCase,   \* bound: cases a specification ever holds at a time
          Wording,    \* what a case asks for
          MaxRound,   \* bound: round numbers
          Tester      \* requests on rounds

ASSUME RoundsAssumption == MaxRound \in Nat

VARIABLES spec,      \* sttus_code of the specification
          testCase,  \* NoCase, or its applicable_yn and its wording
          round,     \* status by round number, unique per specification
          result,    \* of each round and case
          tester,    \* a request between its read and its transaction
          reopened,  \* rounds reopened, and no case saved since
          undone     \* rounds closed again by a save that read them DONE
roundVars == <<spec, testCase, round, result, tester, reopened, undone>>

Round == 1 .. MaxRound
NoCase == [applicable |-> "NONE", wording |-> CHOOSE w \in Wording : TRUE]
SomeCase == [applicable: {"Y", "N"}, wording: Wording]
Verdict == {"PASS", "FAIL", "NA", "PENDING"}  \* BLOCKED counts as FAIL; an NA with its test_dt is a judgement, as PASS
IdleTester == [at |-> "idle", round |-> 0, seen |-> "NONE"]

(* One type invariant; results exist only of a round and a case.               *)
RoundsTypeOK ==
  /\ spec \in {"NONE", "DRAFT", "IN_PROGRESS", "PASSED", "FAILED"}
  /\ testCase \in [TestCase -> SomeCase \cup {NoCase}]
  /\ round \in [Round -> {"NONE", "IN_PROGRESS", "DONE"}]
  /\ result \in [Round -> [TestCase -> Verdict \cup {"NONE"}]]
  /\ tester \in [Tester -> [at: {"idle", "save", "open"}, round: 0 .. MaxRound,
                            seen: {"NONE", "DRAFT", "IN_PROGRESS", "DONE", "PASSED", "FAILED"}]]
  /\ reopened \in SUBSET Round /\ undone \in SUBSET Round

Cases == {c \in TestCase : testCase[c] # NoCase}
Used(c) == \E n \in Round : result[n][c] # "NONE"
NoResults == [c \in TestCase |-> "NONE"]

RoundsInit ==
  /\ spec = "NONE" /\ testCase = [c \in TestCase |-> NoCase]
  /\ round = [n \in Round |-> "NONE"] /\ result = [n \in Round |-> NoResults]
  /\ tester = [t \in Tester |-> IdleTester] /\ reopened = {} /\ undone = {}

(* ------------------------------- Cases ----------------------------------- *)
(* A case not judged yet, or not applicable.                                   *)
Fresh(case) == IF case.applicable = "N" THEN "NA" ELSE "PENDING"

(* syncInProgressRoundResults: each case gets a result in each open round.     *)
SyncedNever(cases) ==
  [n \in Round |-> [c \in TestCase |-> IF cases[c] = NoCase THEN "NONE" ELSE result[n][c]]]
Synced(cases) ==
  [n \in Round |-> [c \in TestCase |->
     IF cases[c] = NoCase THEN "NONE"
     ELSE IF round[n] = "IN_PROGRESS" /\ result[n][c] = "NONE" THEN Fresh(cases[c])
     ELSE result[n][c]]]

(* guardCaseWrites: a case with a result keeps every column and is not deleted.*)
GuardCaseWrites(cases) == \A c \in TestCase : Used(c) => cases[c] = testCase[c]

WriteCases(cases) ==
  /\ spec # "NONE" /\ GuardCaseWrites(cases)
  /\ testCase' = cases /\ result' = Synced(cases) /\ reopened' = {}
(* PUT of the specification: the whole list, and a status chosen by hand.      *)
SaveSpec(cases, status) ==
  /\ WriteCases(cases) /\ spec' = status
  /\ UNCHANGED <<round, tester, undone>>
(* POST cases and import-checks: what is sent is added or changed.             *)
AddCases(cases) ==
  /\ \A c \in Cases : cases[c] # NoCase
  /\ WriteCases(cases)
  /\ UNCHANGED <<spec, round, tester, undone>>

(* ------------------------------- Rounds ---------------------------------- *)
(* The number of the new round and the status are read before the transaction. *)
ReadForRound(t) ==
  /\ tester[t].at = "idle" /\ spec # "NONE"
  /\ LET taken == {k \in Round : round[k] # "NONE"} IN
       \E n \in Round : /\ \A k \in taken : k < n
                        /\ n - 1 \in taken \cup {0}
                        /\ tester' = [tester EXCEPT ![t] = [at |-> "open", round |-> n, seen |-> spec]]
  /\ UNCHANGED <<spec, testCase, round, result, reopened, undone>>
(* A number taken in between breaks the unique index: nothing is written.      *)
OpenRound(t) ==
  /\ tester[t].at = "open"
  /\ tester' = [tester EXCEPT ![t] = IdleTester]
  /\ LET n == tester[t].round IN
       IF round[n] = "NONE"
       THEN /\ round' = [round EXCEPT ![n] = "IN_PROGRESS"]
            /\ result' = [result EXCEPT ![n] = [c \in TestCase |->
                 IF testCase[c] = NoCase THEN "NONE" ELSE Fresh(testCase[c])]]
            /\ spec' = IF tester[t].seen = "DRAFT" THEN "IN_PROGRESS" ELSE spec
       ELSE UNCHANGED <<round, result, spec>>
  /\ UNCHANGED <<testCase, reopened, undone>>

ReadRound(t, n) ==
  /\ tester[t].at = "idle" /\ round[n] # "NONE"
  /\ tester' = [tester EXCEPT ![t] = [at |-> "save", round |-> n, seen |-> round[n]]]
  /\ UNCHANGED <<spec, testCase, round, result, reopened, undone>>

(* effectiveResultCode: an NA without a date is not a judgement of a case that *)
(* applies.                                                                    *)
Unjudged(results) ==
  {c \in Cases : results[c] = "PENDING" \/ (results[c] = "NA" /\ testCase[c].applicable = "Y")}
MayCloseSlip(results) == \E c \in TestCase : results[c] # "NONE"
MayClose(results) == (\E c \in TestCase : results[c] # "NONE") /\ Unjudged(results) = {}

MayWriteSlip(n, status, verdicts) == round[n] # "DONE" \/ status # "DONE"
MayWrite(n, status, verdicts) ==
  round[n] # "DONE" \/ (status = "IN_PROGRESS" /\ verdicts = result[n])

(* The status sent, or else the one that was read before the transaction.      *)
StaysSlip(t, status) == status
Stays(t, status) == IF status = "KEEP" THEN tester[t].seen ELSE status

(* PUT of a round, its transaction: the verdicts sent replace the results.     *)
SaveRound(t, status, verdicts) ==
  LET n == tester[t].round
      stays == Stays(t, status)
  IN /\ tester[t].at = "save" /\ MayWrite(n, status, verdicts)
     /\ \A c \in TestCase : (verdicts[c] = "NONE") <=> (result[n][c] = "NONE")
     /\ status = "DONE" => MayClose(verdicts)
     /\ tester' = [tester EXCEPT ![t] = IdleTester]
     /\ round' = [round EXCEPT ![n] = stays]
     /\ result' = [result EXCEPT ![n] = verdicts]
     /\ spec' = IF status = "DONE"
                  THEN IF \E c \in TestCase : verdicts[c] = "FAIL" THEN "FAILED" ELSE "PASSED"
                ELSE IF status = "IN_PROGRESS" THEN "IN_PROGRESS" ELSE spec
     /\ reopened' = IF round[n] = "DONE" /\ stays = "IN_PROGRESS" THEN reopened \cup {n} ELSE reopened
     /\ undone' = IF round[n] = "IN_PROGRESS" /\ stays = "DONE" /\ status = "KEEP"
                    THEN undone \cup {n} ELSE undone \ {n}
     /\ UNCHANGED testCase
(* 404 or 409: the transaction writes nothing.                                 *)
Refused(t) ==
  /\ tester[t].at # "idle" /\ tester' = [tester EXCEPT ![t] = IdleTester]
  /\ UNCHANGED <<spec, testCase, round, result, reopened, undone>>

(* The rows of a round go with it; a request on it will find none.             *)
Forget(gone) ==
  /\ round' = [n \in Round |-> IF n \in gone THEN "NONE" ELSE round[n]]
  /\ result' = [n \in Round |-> IF n \in gone THEN NoResults ELSE result[n]]
  /\ tester' = [t \in Tester |-> IF tester[t].at = "save" /\ tester[t].round \in gone
                                   THEN IdleTester ELSE tester[t]]
  /\ reopened' = reopened \ gone /\ undone' = undone \ gone
DeleteRound(n) == round[n] # "NONE" /\ Forget({n}) /\ UNCHANGED <<spec, testCase>>

CreateSpec ==
  /\ spec = "NONE" /\ spec' = "DRAFT"
  /\ UNCHANGED <<testCase, round, result, tester, reopened, undone>>
DeleteSpec ==
  /\ spec # "NONE" /\ spec' = "NONE" /\ testCase' = [c \in TestCase |-> NoCase]
  /\ round' = [n \in Round |-> "NONE"] /\ result' = [n \in Round |-> NoResults]
  /\ tester' = [t \in Tester |-> IdleTester] /\ reopened' = {} /\ undone' = {}

RoundsNext ==
  \/ CreateSpec \/ DeleteSpec
  \/ \E cases \in [TestCase -> SomeCase \cup {NoCase}] :
       AddCases(cases) \/ \E status \in {spec, "DRAFT", "PASSED"} : SaveSpec(cases, status)
  \/ \E t \in Tester : ReadForRound(t) \/ OpenRound(t) \/ Refused(t)
  \/ \E t \in Tester, n \in Round : ReadRound(t, n)
  \/ \E t \in Tester, status \in {"KEEP", "IN_PROGRESS", "DONE"},
        verdicts \in [TestCase -> Verdict \cup {"NONE"}] : SaveRound(t, status, verdicts)
  \/ \E n \in Round : DeleteRound(n)

RoundsSpec == RoundsInit /\ [][RoundsNext]_roundVars

(* ------------------------------ Properties ------------------------------- *)
(* A case added while a round is open can be judged in it                      *)
(* (roundResultSync.ts:4-18); a round that was reopened waits for the next     *)
(* save of the cases, since reopening fills in nothing.                        *)
OpenRoundsCover ==
  \A n \in Round \ reopened, c \in Cases : round[n] = "IN_PROGRESS" => result[n][c] # "NONE"

(* A closed round has a verdict for each of its cases                          *)
(* (rounds/[roundId]/route.ts:232), unless a save without a status put back    *)
(* the DONE it had read before the round was reopened.                         *)
ClosedIsJudged == \A n \in Round \ undone : round[n] = "DONE" => Unjudged(result[n]) = {}

(* The record of a round that stays closed does not change: neither its        *)
(* results nor the cases they judge (caseWrite.ts:47, roundResultSync.ts:16).  *)
ClosedIsRecord ==
  [][\A n \in Round : round[n] = "DONE" /\ round'[n] = "DONE" =>
       /\ result'[n] = result[n]
       /\ \A c \in TestCase : result[n][c] # "NONE" => testCase'[c] = testCase[c]]_roundVars
===============================================================================

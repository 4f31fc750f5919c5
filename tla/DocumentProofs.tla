---------------------------- MODULE DocumentProofs ----------------------------
(* What is proved of the documents several actors write at once: what a round  *)
(* of a test specification says of its cases, what the saves of a requirement  *)
(* leave of each other and of its history, what the queue of AI tasks shows of *)
(* the results that workers report, and how a review of analysed texts closes. *)
EXTENDS TestRounds, ContentEdit, AiTasks, SpecSync, SequenceTheorems, TLAPS

(* A save is about a round that exists: deleting a round drops its saves.      *)
SavesExisting ==
  \A t \in Tester : tester[t].at = "save" =>
    /\ tester[t].round \in Round /\ round[tester[t].round] # "NONE"
    /\ tester[t].seen \in {"IN_PROGRESS", "DONE"}

(* A round that is opened has a number of its own.                             *)
OpensNumbered == \A t \in Tester : tester[t].at = "open" => tester[t].round \in Round

(* A result is of a case that is there, in a round that is there.              *)
ResultsOfCases ==
  \A n \in Round, c \in TestCase : result[n][c] # "NONE" => testCase[c] # NoCase /\ round[n] # "NONE"

RoundsInv ==
  /\ RoundsTypeOK /\ SavesExisting /\ OpensNumbered
  /\ ResultsOfCases /\ OpenRoundsCover /\ ClosedIsJudged

LEMMA RoundsInitInv == RoundsInit => RoundsInv
<1> SUFFICES ASSUME RoundsInit PROVE RoundsInv
  OBVIOUS
<1> USE DEF RoundsInit
<1>1. RoundsTypeOK
  BY RoundsAssumption DEF RoundsTypeOK, IdleTester, NoResults, Round, SomeCase
<1>2. SavesExisting /\ OpensNumbered
  BY DEF SavesExisting, OpensNumbered, IdleTester
<1>3. ResultsOfCases /\ OpenRoundsCover /\ ClosedIsJudged
  BY DEF ResultsOfCases, OpenRoundsCover, ClosedIsJudged, Cases, NoResults
<1> QED BY <1>1, <1>2, <1>3 DEF RoundsInv

(* ------------------------------- The cases ------------------------------- *)
(* syncInProgressRoundResults after guardCaseWrites: what a save of the cases  *)
(* leaves of the results, and what it adds.                                    *)
LEMMA SyncKeeps ==
  ASSUME RoundsInv, NEW cases \in [TestCase -> SomeCase \cup {NoCase}], GuardCaseWrites(cases),
         NEW n \in Round, NEW c \in TestCase
  PROVE  /\ Synced(cases)[n][c] \in Verdict \cup {"NONE"}
         /\ result[n][c] # "NONE" => Synced(cases)[n][c] = result[n][c] /\ cases[c] = testCase[c]
         /\ round[n] # "IN_PROGRESS" => Synced(cases)[n][c] = result[n][c]
         /\ Synced(cases)[n][c] # "NONE" => cases[c] # NoCase /\ round[n] # "NONE"
         /\ round[n] = "IN_PROGRESS" /\ cases[c] # NoCase => Synced(cases)[n][c] # "NONE"
<1> USE DEF RoundsInv
<1>1. Synced(cases)[n][c] =
        IF cases[c] = NoCase THEN "NONE"
        ELSE IF round[n] = "IN_PROGRESS" /\ result[n][c] = "NONE" THEN Fresh(cases[c])
        ELSE result[n][c]
  BY DEF Synced
<1>2. Fresh(cases[c]) \in {"NA", "PENDING"}
  BY DEF Fresh
<1>3. result[n][c] \in Verdict \cup {"NONE"}
  BY DEF RoundsTypeOK
<1>4. result[n][c] # "NONE" => cases[c] = testCase[c] /\ testCase[c] # NoCase /\ round[n] # "NONE"
  BY DEF GuardCaseWrites, Used, ResultsOfCases
<1> QED BY <1>1, <1>2, <1>3, <1>4 DEF Verdict

LEMMA CaseSteps ==
  ASSUME RoundsInv, NEW cases \in [TestCase -> SomeCase \cup {NoCase}], WriteCases(cases),
         UNCHANGED <<round, tester, undone>>, spec' \in {spec, "DRAFT", "PASSED"}
  PROVE  RoundsInv'
<1> USE DEF RoundsInv, WriteCases
<1> DEFINE new == Synced(cases)
<1>1. \A n \in Round, c \in TestCase :
        /\ new[n][c] \in Verdict \cup {"NONE"}
        /\ result[n][c] # "NONE" => new[n][c] = result[n][c] /\ cases[c] = testCase[c]
        /\ round[n] # "IN_PROGRESS" => new[n][c] = result[n][c]
        /\ new[n][c] # "NONE" => cases[c] # NoCase /\ round[n] # "NONE"
        /\ round[n] = "IN_PROGRESS" /\ cases[c] # NoCase => new[n][c] # "NONE"
  BY SyncKeeps
<1>2. new \in [Round -> [TestCase -> Verdict \cup {"NONE"}]]
  <2>1. \A n \in Round : new[n] \in [TestCase -> Verdict \cup {"NONE"}]
    BY <1>1 DEF Synced
  <2> QED BY <2>1 DEF Synced
<1>3. testCase' = cases /\ result' = new /\ reopened' = {}
  OBVIOUS
<1> HIDE DEF new
<1>4. RoundsTypeOK'
  BY <1>2, <1>3 DEF RoundsTypeOK
<1>5. SavesExisting' /\ OpensNumbered'
  BY DEF SavesExisting, OpensNumbered
<1>6. ResultsOfCases' /\ OpenRoundsCover'
  BY <1>1, <1>3 DEF ResultsOfCases, OpenRoundsCover, Cases
<1>7. ClosedIsJudged'
  <2> SUFFICES ASSUME NEW n \in Round \ undone, round[n] = "DONE", NEW c \in TestCase,
                      cases[c] # NoCase,
                      new[n][c] = "PENDING" \/ (new[n][c] = "NA" /\ cases[c].applicable = "Y")
               PROVE FALSE
    BY <1>3 DEF ClosedIsJudged, Unjudged, Cases
  <2>1. new[n][c] = result[n][c] /\ result[n][c] # "NONE"
    BY <1>1
  <2>2. cases[c] = testCase[c]
    BY <1>1, <2>1
  <2> QED BY <2>1, <2>2 DEF ClosedIsJudged, Unjudged, Cases
<1> QED BY <1>4, <1>5, <1>6, <1>7

(* ------------------------------- The rounds ------------------------------ *)
LEMMA ReadSteps ==
  ASSUME RoundsInv, NEW t \in Tester, ReadForRound(t) \/ \E n \in Round : ReadRound(t, n)
  PROVE  RoundsInv'
<1> USE DEF RoundsInv
<1>1. UNCHANGED <<spec, testCase, round, result, reopened, undone>>
  BY DEF ReadForRound, ReadRound
<1>2. ResultsOfCases' /\ OpenRoundsCover' /\ ClosedIsJudged'
  BY <1>1 DEF ResultsOfCases, OpenRoundsCover, ClosedIsJudged, Cases, Unjudged
<1>3. CASE ReadForRound(t)
  <2>1. PICK n \in Round : tester' = [tester EXCEPT ![t] = [at |-> "open", round |-> n, seen |-> spec]]
    BY <1>3 DEF ReadForRound
  <2>2. n \in 0 .. MaxRound
    BY RoundsAssumption DEF Round
  <2>3. RoundsTypeOK'
    BY <1>1, <1>3, <2>1, <2>2 DEF RoundsTypeOK, ReadForRound
  <2>4. SavesExisting' /\ OpensNumbered'
    BY <1>1, <2>1 DEF SavesExisting, OpensNumbered, RoundsTypeOK
  <2> QED BY <1>2, <2>3, <2>4
<1>4. ASSUME NEW n \in Round, ReadRound(t, n) PROVE RoundsInv'
  <2>1. tester' = [tester EXCEPT ![t] = [at |-> "save", round |-> n, seen |-> round[n]]] /\ round[n] # "NONE"
    BY <1>4 DEF ReadRound
  <2>2. n \in 0 .. MaxRound /\ round[n] \in {"IN_PROGRESS", "DONE"}
    BY <2>1, RoundsAssumption DEF Round, RoundsTypeOK
  <2>3. RoundsTypeOK'
    BY <1>1, <2>1, <2>2 DEF RoundsTypeOK
  <2>4. SavesExisting' /\ OpensNumbered'
    BY <1>1, <2>1, <2>2 DEF SavesExisting, OpensNumbered, RoundsTypeOK
  <2> QED BY <1>2, <2>3, <2>4
<1> QED BY <1>3, <1>4

(* A request that ends, with nothing else, disturbs no part of the invariant.  *)
LEMMA IdleKeeps ==
  ASSUME RoundsInv, NEW t \in Tester, tester' = [tester EXCEPT ![t] = IdleTester],
         \A n \in Round : round[n] # "NONE" => round'[n] # "NONE"
  PROVE  /\ SavesExisting' /\ OpensNumbered'
         /\ tester' \in [Tester -> [at: {"idle", "save", "open"}, round: 0 .. MaxRound,
              seen: {"NONE", "DRAFT", "IN_PROGRESS", "DONE", "PASSED", "FAILED"}]]
<1> USE DEF RoundsInv
<1>1. IdleTester \in [at: {"idle", "save", "open"}, round: 0 .. MaxRound,
              seen: {"NONE", "DRAFT", "IN_PROGRESS", "DONE", "PASSED", "FAILED"}]
  BY RoundsAssumption DEF IdleTester
<1>2. SavesExisting' /\ OpensNumbered'
  BY DEF SavesExisting, OpensNumbered, IdleTester, RoundsTypeOK
<1> QED BY <1>1, <1>2 DEF RoundsTypeOK

LEMMA OpenStep ==
  ASSUME RoundsInv, NEW t \in Tester, OpenRound(t)
  PROVE  RoundsInv'
<1> USE DEF RoundsInv
<1> DEFINE n == tester[t].round
           fresh == [c \in TestCase |-> IF testCase[c] = NoCase THEN "NONE" ELSE Fresh(testCase[c])]
<1>1. n \in Round /\ tester' = [tester EXCEPT ![t] = IdleTester]
      /\ UNCHANGED <<testCase, reopened, undone>>
  BY DEF OpenRound, OpensNumbered
<1>2. CASE round[n] # "NONE"
  <2>1. UNCHANGED <<round, result, spec>>
    BY <1>2 DEF OpenRound
  <2>2. ResultsOfCases' /\ OpenRoundsCover' /\ ClosedIsJudged'
    BY <1>1, <2>1 DEF ResultsOfCases, OpenRoundsCover, ClosedIsJudged, Cases, Unjudged
  <2> QED BY <1>1, <2>1, <2>2, IdleKeeps DEF RoundsTypeOK
<1>3. CASE round[n] = "NONE"
  <2>1. /\ round' = [round EXCEPT ![n] = "IN_PROGRESS"] /\ result' = [result EXCEPT ![n] = fresh]
        /\ spec' = IF tester[t].seen = "DRAFT" THEN "IN_PROGRESS" ELSE spec
    BY <1>3 DEF OpenRound
  <2>2. \A c \in TestCase : /\ fresh[c] \in Verdict \cup {"NONE"}
                            /\ (fresh[c] = "NONE") <=> (testCase[c] = NoCase)
    BY DEF Fresh, Verdict
  <2>3. fresh \in [TestCase -> Verdict \cup {"NONE"}]
    BY <2>2
  <2> HIDE DEF fresh, n
  <2>4. RoundsTypeOK'
    BY <1>1, <2>1, <2>3, IdleKeeps DEF RoundsTypeOK
  <2>5. SavesExisting' /\ OpensNumbered'
    BY <1>1, <2>1, IdleKeeps DEF RoundsTypeOK
  <2>6. /\ round'[n] = "IN_PROGRESS" /\ result'[n] = fresh
        /\ \A k \in Round \ {n} : round'[k] = round[k] /\ result'[k] = result[k]
    BY <1>1, <2>1 DEF RoundsTypeOK
  <2>7. ResultsOfCases' /\ OpenRoundsCover'
    BY <1>1, <2>2, <2>6 DEF ResultsOfCases, OpenRoundsCover, Cases
  <2>8. ClosedIsJudged'
    BY <1>1, <2>6 DEF ClosedIsJudged, Unjudged, Cases
  <2> QED BY <2>4, <2>5, <2>7, <2>8
<1> QED BY <1>2, <1>3

(* PUT of a round: whatever was read before the transaction, only a save that  *)
(* judges every case closes the round, or one that says so in undone.          *)
LEMMA SaveStep ==
  ASSUME RoundsInv, NEW t \in Tester, NEW status \in {"KEEP", "IN_PROGRESS", "DONE"},
         NEW verdicts \in [TestCase -> Verdict \cup {"NONE"}], SaveRound(t, status, verdicts)
  PROVE  RoundsInv'
<1> USE DEF RoundsInv
<1> DEFINE n == tester[t].round
           stays == Stays(t, status)
<1>1. /\ n \in Round /\ round[n] \in {"IN_PROGRESS", "DONE"}
      /\ tester[t].seen \in {"IN_PROGRESS", "DONE"}
  BY DEF SaveRound, SavesExisting, RoundsTypeOK
<1>2. stays \in {"IN_PROGRESS", "DONE"}
  BY <1>1 DEF Stays
<1>3. /\ tester' = [tester EXCEPT ![t] = IdleTester] /\ UNCHANGED testCase
      /\ round' = [round EXCEPT ![n] = stays] /\ result' = [result EXCEPT ![n] = verdicts]
      /\ reopened' = IF round[n] = "DONE" /\ stays = "IN_PROGRESS" THEN reopened \cup {n} ELSE reopened
      /\ undone' = IF round[n] = "IN_PROGRESS" /\ stays = "DONE" /\ status = "KEEP"
                     THEN undone \cup {n} ELSE undone \ {n}
      /\ \A c \in TestCase : (verdicts[c] = "NONE") <=> (result[n][c] = "NONE")
      /\ spec' = IF status = "DONE"
                   THEN IF \E c \in TestCase : verdicts[c] = "FAIL" THEN "FAILED" ELSE "PASSED"
                 ELSE IF status = "IN_PROGRESS" THEN "IN_PROGRESS" ELSE spec
  BY DEF SaveRound
<1>4. /\ MayWrite(n, status, verdicts)
      /\ status = "DONE" => Unjudged(verdicts) = {}
      /\ stays = IF status = "KEEP" THEN tester[t].seen ELSE status
  BY DEF SaveRound, MayClose, Stays
<1> HIDE DEF n, stays
<1>5. /\ round'[n] = stays /\ result'[n] = verdicts
      /\ \A k \in Round \ {n} : round'[k] = round[k] /\ result'[k] = result[k]
  BY <1>1, <1>3 DEF RoundsTypeOK
<1>6. SavesExisting' /\ OpensNumbered' /\
      tester' \in [Tester -> [at: {"idle", "save", "open"}, round: 0 .. MaxRound,
              seen: {"NONE", "DRAFT", "IN_PROGRESS", "DONE", "PASSED", "FAILED"}]]
  BY <1>2, <1>3, <1>5, IdleKeeps
<1>7. RoundsTypeOK'
  BY <1>1, <1>2, <1>3, <1>6 DEF RoundsTypeOK
<1>8. ResultsOfCases'
  BY <1>1, <1>2, <1>3, <1>5 DEF ResultsOfCases
<1>9. OpenRoundsCover'
  <2> SUFFICES ASSUME NEW k \in Round \ reopened', NEW c \in TestCase, testCase[c] # NoCase,
                      round'[k] = "IN_PROGRESS"
               PROVE  result'[k][c] # "NONE"
    BY <1>3 DEF OpenRoundsCover, Cases
  <2>1. k \notin reopened
    BY <1>3
  <2>2. CASE k # n
    BY <1>5, <2>1, <2>2 DEF OpenRoundsCover, Cases
  <2>3. CASE k = n
    <3>1. round[n] = "IN_PROGRESS"
      BY <1>1, <1>3, <1>5, <2>3
    <3> QED BY <1>3, <1>5, <2>1, <2>3, <3>1 DEF OpenRoundsCover, Cases
  <2> QED BY <2>2, <2>3
<1>10. ClosedIsJudged'
  <2> SUFFICES ASSUME NEW k \in Round \ undone', round'[k] = "DONE"
               PROVE  Unjudged(result'[k]) = {}
    BY <1>3 DEF ClosedIsJudged, Unjudged, Cases
  <2>1. CASE k # n
    BY <1>3, <1>5, <2>1 DEF ClosedIsJudged
  <2>2. CASE k = n
    <3>1. stays = "DONE"
      BY <1>5, <2>2
    <3>2. round[n] = "IN_PROGRESS"
      BY <1>1, <1>4, <3>1 DEF MayWrite
    <3>3. status = "DONE"
      BY <1>3, <2>2, <3>1, <3>2, <1>4
    <3> QED BY <1>4, <1>5, <2>2, <3>3
  <2> QED BY <2>1, <2>2
<1> QED BY <1>6, <1>7, <1>8, <1>9, <1>10

LEMMA RefusedStep ==
  ASSUME RoundsInv, NEW t \in Tester, Refused(t)
  PROVE  RoundsInv'
<1> USE DEF RoundsInv
<1>1. /\ tester' = [tester EXCEPT ![t] = IdleTester]
      /\ UNCHANGED <<spec, testCase, round, result, reopened, undone>>
  BY DEF Refused
<1>2. ResultsOfCases' /\ OpenRoundsCover' /\ ClosedIsJudged'
  BY <1>1 DEF ResultsOfCases, OpenRoundsCover, ClosedIsJudged, Cases, Unjudged
<1> QED BY <1>1, <1>2, IdleKeeps DEF RoundsTypeOK

LEMMA DeleteRoundStep ==
  ASSUME RoundsInv, NEW n \in Round, DeleteRound(n)
  PROVE  RoundsInv'
<1> USE DEF RoundsInv
<1>1. UNCHANGED <<spec, testCase>> /\ reopened' = reopened \ {n} /\ undone' = undone \ {n}
  BY DEF DeleteRound, Forget
<1>2. /\ round'[n] = "NONE" /\ result'[n] = NoResults
      /\ \A k \in Round \ {n} : round'[k] = round[k] /\ result'[k] = result[k]
  BY DEF DeleteRound, Forget
<1>3. \A t \in Tester :
        \/ tester'[t] = IdleTester
        \/ tester'[t] = tester[t] /\ ~(tester[t].at = "save" /\ tester[t].round = n)
  BY DEF DeleteRound, Forget
<1>4. IdleTester \in [at: {"idle", "save", "open"}, round: 0 .. MaxRound,
              seen: {"NONE", "DRAFT", "IN_PROGRESS", "DONE", "PASSED", "FAILED"}]
      /\ IdleTester.at = "idle"
  BY RoundsAssumption DEF IdleTester
<1>5. RoundsTypeOK'
  <2>1. tester' \in [Tester -> [at: {"idle", "save", "open"}, round: 0 .. MaxRound,
              seen: {"NONE", "DRAFT", "IN_PROGRESS", "DONE", "PASSED", "FAILED"}]]
    BY <1>3, <1>4 DEF DeleteRound, Forget, RoundsTypeOK
  <2>2. round' \in [Round -> {"NONE", "IN_PROGRESS", "DONE"}]
    BY DEF DeleteRound, Forget, RoundsTypeOK
  <2>3. result' \in [Round -> [TestCase -> Verdict \cup {"NONE"}]]
    BY DEF DeleteRound, Forget, RoundsTypeOK, NoResults
  <2> QED BY <1>1, <2>1, <2>2, <2>3 DEF RoundsTypeOK
<1>6. SavesExisting' /\ OpensNumbered'
  BY <1>2, <1>3, <1>4 DEF SavesExisting, OpensNumbered
<1>7. ResultsOfCases' /\ OpenRoundsCover'
  BY <1>1, <1>2 DEF ResultsOfCases, OpenRoundsCover, Cases, NoResults
<1>8. ClosedIsJudged'
  BY <1>1, <1>2 DEF ClosedIsJudged, Unjudged, Cases
<1> QED BY <1>5, <1>6, <1>7, <1>8

LEMMA SpecSteps ==
  ASSUME RoundsInv, CreateSpec \/ DeleteSpec
  PROVE  RoundsInv'
<1> USE DEF RoundsInv
<1>1. CASE CreateSpec
  BY <1>1 DEF CreateSpec, RoundsTypeOK, SavesExisting, OpensNumbered, ResultsOfCases,
              OpenRoundsCover, ClosedIsJudged, Cases, Unjudged
<1>2. CASE DeleteSpec
  <2> USE <1>2 DEF DeleteSpec
  <2>1. RoundsTypeOK'
    BY RoundsAssumption DEF RoundsTypeOK, IdleTester, NoResults, Round, SomeCase
  <2>2. SavesExisting' /\ OpensNumbered'
    BY DEF SavesExisting, OpensNumbered, IdleTester
  <2>3. ResultsOfCases' /\ OpenRoundsCover' /\ ClosedIsJudged'
    BY DEF ResultsOfCases, OpenRoundsCover, ClosedIsJudged, Cases, NoResults
  <2> QED BY <2>1, <2>2, <2>3
<1> QED BY <1>1, <1>2

LEMMA RoundsStep == RoundsInv /\ [RoundsNext]_roundVars => RoundsInv'
<1> SUFFICES ASSUME RoundsInv, [RoundsNext]_roundVars PROVE RoundsInv'
  OBVIOUS
<1>1. CASE UNCHANGED roundVars
  BY <1>1 DEF roundVars, RoundsInv, RoundsTypeOK, SavesExisting, OpensNumbered, ResultsOfCases,
              OpenRoundsCover, ClosedIsJudged, Cases, Unjudged
<1>2. ASSUME NEW cases \in [TestCase -> SomeCase \cup {NoCase}],
             AddCases(cases) \/ \E status \in {spec, "DRAFT", "PASSED"} : SaveSpec(cases, status)
      PROVE  RoundsInv'
  BY <1>2, CaseSteps DEF AddCases, SaveSpec
<1>3. ASSUME NEW t \in Tester, ReadForRound(t) \/ OpenRound(t) \/ Refused(t) \/ \E n \in Round : ReadRound(t, n)
      PROVE  RoundsInv'
  BY <1>3, ReadSteps, OpenStep, RefusedStep
<1>4. ASSUME NEW t \in Tester, NEW status \in {"KEEP", "IN_PROGRESS", "DONE"},
             NEW verdicts \in [TestCase -> Verdict \cup {"NONE"}], SaveRound(t, status, verdicts)
      PROVE  RoundsInv'
  BY <1>4, SaveStep
<1>5. ASSUME NEW n \in Round, DeleteRound(n) PROVE RoundsInv'
  BY <1>5, DeleteRoundStep
<1> QED BY <1>1, <1>2, <1>3, <1>4, <1>5, SpecSteps DEF RoundsNext

(* syncInProgressRoundResults and the opening of a round: for any number of    *)
(* cases and testers, an open round that was not reopened can judge every case.*)
THEOREM RoundsCover == RoundsSpec => []OpenRoundsCover
<1>1. RoundsInv => OpenRoundsCover
  BY DEF RoundsInv
<1> QED BY <1>1, RoundsInitInv, RoundsStep, PTL DEF RoundsSpec

(* PUT of a round: however saves, deletions and edits of cases interleave, a   *)
(* closed round has judged its cases, unless a save put back a DONE it had     *)
(* read before the round was reopened.                                         *)
THEOREM ClosedJudged == RoundsSpec => []ClosedIsJudged
<1>1. RoundsInv => ClosedIsJudged
  BY DEF RoundsInv
<1> QED BY <1>1, RoundsInitInv, RoundsStep, PTL DEF RoundsSpec

(* What a step leaves of a round that is closed before and after it.           *)
LEMMA RecordStep ==
  ASSUME RoundsInv, [RoundsNext]_roundVars, NEW n \in Round, round[n] = "DONE", round'[n] = "DONE"
  PROVE  /\ result'[n] = result[n]
         /\ \A c \in TestCase : result[n][c] # "NONE" => testCase'[c] = testCase[c]
<1> USE DEF RoundsInv
<1>1. CASE UNCHANGED roundVars
  BY <1>1 DEF roundVars
<1>2. ASSUME NEW cases \in [TestCase -> SomeCase \cup {NoCase}], WriteCases(cases)
      PROVE  /\ result'[n] = result[n]
             /\ \A c \in TestCase : result[n][c] # "NONE" => testCase'[c] = testCase[c]
  <2>1. \A c \in TestCase :
          /\ Synced(cases)[n][c] = result[n][c]
          /\ result[n][c] # "NONE" => cases[c] = testCase[c]
    BY <1>2, SyncKeeps DEF WriteCases
  <2>2. Synced(cases)[n] = result[n]
    <3>1. /\ Synced(cases)[n] = [c \in TestCase |-> Synced(cases)[n][c]]
          /\ result[n] = [c \in TestCase |-> result[n][c]]
      BY DEF Synced, RoundsTypeOK
    <3> QED BY <2>1, <3>1
  <2> QED BY <1>2, <2>1, <2>2 DEF WriteCases
<1>3. ASSUME NEW t \in Tester,
             ReadForRound(t) \/ OpenRound(t) \/ Refused(t) \/ \E k \in Round : ReadRound(t, k)
      PROVE  UNCHANGED testCase /\ result'[n] = result[n]
  <2>1. CASE ReadForRound(t) \/ Refused(t) \/ \E k \in Round : ReadRound(t, k)
    BY <2>1 DEF ReadForRound, Refused, ReadRound
  <2>2. CASE OpenRound(t)
    BY <2>2 DEF OpenRound, OpensNumbered, RoundsTypeOK
  <2> QED BY <1>3, <2>1, <2>2
<1>4. ASSUME NEW t \in Tester, NEW status \in {"KEEP", "IN_PROGRESS", "DONE"},
             NEW verdicts \in [TestCase -> Verdict \cup {"NONE"}], SaveRound(t, status, verdicts)
      PROVE  UNCHANGED testCase /\ result'[n] = result[n]
  <2>1. tester[t].round \in Round /\ UNCHANGED testCase
        /\ round' = [round EXCEPT ![tester[t].round] = Stays(t, status)]
        /\ result' = [result EXCEPT ![tester[t].round] = verdicts]
        /\ MayWrite(tester[t].round, status, verdicts)
    BY <1>4 DEF SaveRound, SavesExisting
  <2>2. tester[t].round # n
    BY <2>1 DEF MayWrite, Stays, RoundsTypeOK
  <2> QED BY <2>1, <2>2 DEF RoundsTypeOK
<1>5. ASSUME NEW k \in Round, DeleteRound(k)
      PROVE  UNCHANGED testCase /\ result'[n] = result[n]
  BY <1>5 DEF DeleteRound, Forget
<1>6. CASE CreateSpec \/ DeleteSpec
  BY <1>6 DEF CreateSpec, DeleteSpec
<1> QED BY <1>1, <1>2, <1>3, <1>4, <1>5, <1>6 DEF RoundsNext, AddCases, SaveSpec

(* guardCaseWrites and the round's PUT: for any number of cases, rounds and    *)
(* testers, a round that stays closed keeps its results and the cases they     *)
(* judge.                                                                      *)
THEOREM ClosedKept == RoundsSpec => ClosedIsRecord
<1>1. RoundsInv /\ [RoundsNext]_roundVars =>
        [\A n \in Round : round[n] = "DONE" /\ round'[n] = "DONE" =>
           /\ result'[n] = result[n]
           /\ \A c \in TestCase : result[n][c] # "NONE" => testCase'[c] = testCase[c]]_roundVars
  BY RecordStep
<1> QED BY <1>1, RoundsInitInv, RoundsStep, PTL DEF RoundsSpec, ClosedIsRecord

(* ------------------------- Saving a requirement --------------------------- *)
Planned == {<<>>} \cup {<<v>> : v \in Version} \cup {<<<<1, 0>>, v>> : v \in Version}
SaverRow == [at: {"idle", "read", "write", "plan", "insert", "rename"}, by: Writer,
             grant: {"MANAGER", "CREATOR_WINDOW"}, scope: Scope \cup {"KEEP"}, sent: BOOLEAN,
             plan: Planned]
ReqRow == [scope: Scope, scopeBy: Writer, modifier: Writer \cup {"NONE"}, open: BOOLEAN, blurred: BOOLEAN]

Before(v, w) == v[1] < w[1] \/ (v[1] = w[1] /\ v[2] < w[2])
Increasing(rows) == \A i, j \in 1 .. Len(rows) : i < j => Before(rows[i], rows[j])

(* From its update to its commit a save holds the row.                         *)
HoldsRow(row) == row.at \in {"plan", "insert"}
OneHolds == \A s \in Saver : HoldsRow(saver[s]) <=> rowHeld = {s}

(* The planned versions follow every version there is.                         *)
PlansFollow ==
  \A s \in Saver : saver[s].at = "insert" => Increasing(history \o saver[s].plan)

(* Who saves with the creator's grant is the creator, and nothing else.        *)
GrantFits(row) ==
  /\ row.grant = "CREATOR_WINDOW" /\ row.at # "idle" => row.by = Creator /\ Creator \notin Manager
  /\ row.grant = "MANAGER" /\ row.at # "idle" => row.by \in Manager
  /\ row.at \in {"write", "plan", "insert"} => row.scope # "KEEP"

(* Nobody but the creator has touched the row, so the scope is the creator's.  *)
Untouched(r) == r.modifier \in {"NONE", Creator}
ScopeFits(r) == Creator \notin Manager /\ ~r.blurred /\ Untouched(r) => r.scopeBy = Creator
WindowFits == \A s \in Saver : HoldsRow(saver[s]) /\ saver[s].grant = "CREATOR_WINDOW" => Untouched(req)

EditInv ==
  /\ EditTypeOK
  /\ rowHeld = {} \/ (\E s \in Saver : rowHeld = {s})
  /\ OneHolds /\ Increasing(history) /\ PlansFollow
  /\ \A s \in Saver : GrantFits(saver[s])
  /\ ScopeFits(req) /\ WindowFits

LEMMA PlanTyped == \A q \in Planned : q \in Seq(Version) /\ Len(q) \in Nat
<1>1. <<1, 0>> \in Version
  BY EditAssumption DEF Version
<1>2. ASSUME NEW v \in Version PROVE <<v>> \in Seq(Version) /\ <<<<1, 0>>, v>> \in Seq(Version)
  BY <1>1
<1> SUFFICES ASSUME NEW q \in Planned PROVE q \in Seq(Version)
  OBVIOUS
<1>3. q = <<>> \/ (\E v \in Version : q = <<v>>) \/ (\E v \in Version : q = <<<<1, 0>>, v>>)
  BY DEF Planned
<1>4. <<>> \in Seq(Version)
  OBVIOUS
<1>5. CASE q = <<>>
  BY <1>4, <1>5
<1>6. CASE \E v \in Version : q = <<v>> \/ q = <<<<1, 0>>, v>>
  BY <1>2, <1>6
<1> QED BY <1>3, <1>5, <1>6

LEMMA VersionTyped == \A v \in Version : v[1] \in Nat /\ v[2] \in Nat /\ v = <<v[1], v[2]>>
BY EditAssumption DEF Version

(* A row taken out leaves the others in their order.                           *)
Shorter(h, i) == SubSeq(h, 1, i - 1) \o SubSeq(h, i + 1, Len(h))

LEMMA ShorterRows ==
  ASSUME NEW h \in Seq(Version), NEW i \in 1 .. Len(h)
  PROVE  /\ Shorter(h, i) \in Seq(Version) /\ Len(Shorter(h, i)) = Len(h) - 1
         /\ \A k \in 1 .. Len(h) - 1 : Shorter(h, i)[k] = IF k < i THEN h[k] ELSE h[k + 1]
<1> DEFINE a == SubSeq(h, 1, i - 1)
           b == SubSeq(h, i + 1, Len(h))
<1>1. a \in Seq(Version) /\ Len(a) = i - 1 /\ \A k \in 1 .. i - 1 : a[k] = h[k]
  OBVIOUS
<1>2. b \in Seq(Version) /\ Len(b) = Len(h) - i /\ \A k \in 1 .. Len(h) - i : b[k] = h[i + k]
  <2>1. i + 1 \in Int /\ Len(h) \in Int /\ \A k \in i + 1 .. Len(h) : h[k] \in Version
    OBVIOUS
  <2>2. /\ b \in Seq(Version) /\ Len(b) = IF i + 1 <= Len(h) THEN Len(h) - (i + 1) + 1 ELSE 0
        /\ \A k \in 1 .. Len(h) - (i + 1) + 1 : b[k] = h[(i + 1) + k - 1]
    BY <2>1, SubSeqProperties
  <2> HIDE DEF b
  <2> QED BY <2>1, <2>2
<1> HIDE DEF a, b
<1>0. Len(h) \in Nat /\ i \in Nat /\ i >= 1 /\ i <= Len(h)
  OBVIOUS
<1>3. a \o b \in Seq(Version) /\ Len(a \o b) = Len(h) - 1
  <2>1. a \o b \in Seq(Version) /\ Len(a \o b) = Len(a) + Len(b)
    BY <1>1, <1>2, ConcatProperties
  <2> QED BY <1>0, <1>1, <1>2, <2>1
<1>4. ASSUME NEW k \in 1 .. Len(h) - 1 PROVE (a \o b)[k] = IF k < i THEN h[k] ELSE h[k + 1]
  <2>1. CASE k < i
    BY <1>1, <1>2, <2>1
  <2>2. CASE ~(k < i)
    <3>1. (a \o b)[k] = b[k - (i - 1)]
      BY <1>1, <1>2, <2>2
    <3>2. k - (i - 1) \in 1 .. Len(h) - i
      BY <2>2
    <3> QED BY <1>2, <2>2, <3>1, <3>2
  <2> QED BY <1>0, <2>1, <2>2
<1> QED BY <1>3, <1>4 DEF Shorter, a, b

(* An element of the second of two sequences joined.                           *)
LEMMA SecondPart ==
  ASSUME NEW S, NEW u \in Seq(S), NEW v \in Seq(S), NEW k \in Len(u) + 1 .. Len(u) + Len(v)
  PROVE  (u \o v)[k] = v[k - Len(u)]
OBVIOUS

LEMMA ShorterIncreases ==
  ASSUME NEW h \in Seq(Version), NEW i \in 1 .. Len(h), NEW q \in Planned, Increasing(h \o q)
  PROVE  Increasing(Shorter(h, i) \o q)
<1> DEFINE d == Shorter(h, i)
           r == d \o q
<1>1. q \in Seq(Version) /\ d \in Seq(Version) /\ Len(d) = Len(h) - 1
  BY PlanTyped, ShorterRows
<1>2. \A k \in 1 .. Len(d) : d[k] = IF k < i THEN h[k] ELSE h[k + 1]
  BY <1>1, ShorterRows
<1> HIDE DEF d
<1>3. Len(h \o q) = Len(h) + Len(q) /\ Len(r) = Len(h) + Len(q) - 1
  BY <1>1
<1>4. ASSUME NEW k \in 1 .. Len(r) PROVE r[k] = (h \o q)[IF k < i THEN k ELSE k + 1]
  <2>1. CASE k <= Len(d)
    BY <1>1, <1>2, <1>3, <2>1
  <2>2. CASE ~(k <= Len(d))
    <3>0. /\ k \in Len(d) + 1 .. Len(d) + Len(q) /\ k + 1 \in Len(h) + 1 .. Len(h) + Len(q)
          /\ k - Len(d) = (k + 1) - Len(h) /\ ~(k < i)
      BY <1>1, <1>3, <2>2
    <3>1. r[k] = q[k - Len(d)]
      BY <1>1, <3>0, SecondPart
    <3>2. (h \o q)[k + 1] = q[(k + 1) - Len(h)]
      BY <1>1, <3>0, SecondPart
    <3> QED BY <3>0, <3>1, <3>2
  <2> QED BY <2>1, <2>2
<1> HIDE DEF r
<1>5. SUFFICES ASSUME NEW j \in 1 .. Len(r), NEW k \in 1 .. Len(r), j < k PROVE Before(r[j], r[k])
  BY DEF Increasing, r, d
<1> DEFINE j2 == IF j < i THEN j ELSE j + 1
           k2 == IF k < i THEN k ELSE k + 1
<1>6. j2 \in 1 .. Len(h \o q) /\ k2 \in 1 .. Len(h \o q) /\ j2 < k2
  BY <1>1, <1>3, <1>5
<1>7. r[j] = (h \o q)[j2] /\ r[k] = (h \o q)[k2]
  BY <1>4
<1> HIDE DEF j2, k2
<1> QED BY <1>6, <1>7 DEF Increasing

LEMMA FrontIncreases ==
  ASSUME NEW h \in Seq(Version), NEW q \in Planned, Increasing(h \o q) PROVE Increasing(h)
<1>1. q \in Seq(Version)
  BY PlanTyped
<1>2. Len(h \o q) = Len(h) + Len(q) /\ Len(q) \in Nat /\ \A k \in 1 .. Len(h) : (h \o q)[k] = h[k]
  BY <1>1
<1> QED BY <1>2 DEF Increasing

(* The order of the versions is transitive: a version before another comes before what follows it. *)
LEMMA BeforeBoth ==
  ASSUME NEW u \in Version, NEW v \in Version, NEW w \in Version, Before(u, v), Before(v, w)
  PROVE  Before(u, w)
<1>1. /\ u[1] \in Nat /\ u[2] \in Nat /\ v[1] \in Nat /\ v[2] \in Nat
      /\ w[1] \in Nat /\ w[2] \in Nat
  BY VersionTyped
<1> QED BY <1>1 DEF Before

LEMMA NextIncreases ==
  ASSUME NEW h \in Seq(Version), Increasing(h), h # <<>>, NEW v \in Version,
         Before(h[Len(h)], v)
  PROVE  Increasing(h \o <<v>>)
<1> DEFINE r == h \o <<v>>
<1>1. r \in Seq(Version) /\ Len(r) = Len(h) + 1 /\ r[Len(h) + 1] = v /\ \A k \in 1 .. Len(h) : r[k] = h[k]
  OBVIOUS
<1>2. Len(h) \in Nat \ {0}
  OBVIOUS
<1> HIDE DEF r
<1>3. SUFFICES ASSUME NEW j \in 1 .. Len(r), NEW k \in 1 .. Len(r), j < k PROVE Before(r[j], r[k])
  BY DEF Increasing, r
<1>4. CASE k <= Len(h)
  BY <1>1, <1>2, <1>3, <1>4 DEF Increasing
<1>5. CASE k > Len(h)
  <2>1. r[k] = v /\ r[j] = h[j] /\ j \in 1 .. Len(h)
    BY <1>1, <1>2, <1>3, <1>5
  <2>2. j = Len(h) \/ Before(h[j], h[Len(h)])
    BY <1>2, <2>1 DEF Increasing
  <2>3. h[j] \in Version /\ h[Len(h)] \in Version
    BY <1>2, <2>1
  <2>4. CASE j = Len(h)
    BY <2>1, <2>4
  <2>5. CASE j # Len(h)
    BY <2>1, <2>2, <2>3, <2>5, BeforeBoth
  <2> QED BY <2>4, <2>5
<1> QED BY <1>1, <1>2, <1>4, <1>5

LEMMA FirstIncreases ==
  ASSUME NEW v \in {<<1, 1>>, <<2, 0>>} PROVE Increasing(<<>> \o <<<<1, 0>>, v>>)
<1>1. <<>> \o <<<<1, 0>>, v>> = <<<<1, 0>>, v>>
  OBVIOUS
<1>2. Increasing(<<<<1, 0>>, v>>)
  BY DEF Increasing, Before
<1> QED BY <1>1, <1>2

(* Rows in strictly increasing order have different versions.                  *)
LEMMA IncreasingDiffer ==
  ASSUME NEW h \in Seq(Version), Increasing(h)
  PROVE  \A i, j \in DOMAIN h : h[i] = h[j] => i = j
<1>1. DOMAIN h = 1 .. Len(h)
  OBVIOUS
<1>2. ASSUME NEW i \in 1 .. Len(h), NEW j \in 1 .. Len(h), i < j PROVE h[i] # h[j]
  <2>1. h[i] \in Version /\ Before(h[i], h[j])
    BY <1>2 DEF Increasing
  <2>2. h[i][1] \in Nat /\ h[i][2] \in Nat
    BY <2>1, VersionTyped
  <2>3. ~Before(h[i], h[i])
    BY <2>2 DEF Before
  <2> QED BY <2>1, <2>3
<1> QED BY <1>1, <1>2

LEMMA EditTyped ==
  EditTypeOK <=> /\ req \in ReqRow /\ history \in Seq(Version) /\ Len(history) <= MaxHistory
                 /\ rowHeld \in SUBSET Saver /\ saver \in [Saver -> SaverRow]
BY DEF EditTypeOK, ReqRow, SaverRow, Planned

LEMMA EditInitInv == EditInit => EditInv
<1> SUFFICES ASSUME EditInit PROVE EditInv
  OBVIOUS
<1>1. IdleSaver \in SaverRow /\ IdleSaver.at = "idle"
  BY DEF IdleSaver, SaverRow, Writer, Planned
<1>2. req \in ReqRow /\ req.scopeBy = Creator /\ Len(history) <= MaxHistory /\ history \in Seq(Version)
  BY EditAssumption DEF EditInit, ReqRow, Writer
<1>3. EditTypeOK
  BY <1>1, <1>2, EditTyped DEF EditInit
<1> QED BY <1>1, <1>2, <1>3 DEF EditInit, EditInv, OneHolds, Increasing, PlansFollow, GrantFits, ScopeFits,
                                 WindowFits, HoldsRow

(* A request that does not hold the row goes on without it.                    *)
LEMMA RowMoves ==
  ASSUME EditInv, NEW s \in Saver, NEW row \in SaverRow, saver' = [saver EXCEPT ![s] = row],
         UNCHANGED <<req, history, rowHeld>>, ~HoldsRow(saver[s]), ~HoldsRow(row), GrantFits(row)
  PROVE  EditInv'
<1>1. saver \in [Saver -> SaverRow]
  BY EditTyped DEF EditInv
<1>2. EditTypeOK'
  BY <1>1, EditTyped DEF EditInv, EditTypeOK, SaverRow, Planned
<1>3. \A t \in Saver : saver'[t] = IF t = s THEN row ELSE saver[t]
  BY <1>1
<1>4. row.at # "insert"
  BY DEF HoldsRow
<1>5. OneHolds' /\ PlansFollow' /\ WindowFits'
  BY <1>3, <1>4 DEF EditInv, OneHolds, PlansFollow, WindowFits
<1> QED BY <1>2, <1>3, <1>5 DEF EditInv, Increasing, ScopeFits

LEMMA PolicyStep == ASSUME EditInv, NEW s \in Saver, NEW m \in Writer, CheckPolicy(s, m) PROVE EditInv'
<1>1. PICK g \in Grants(m), at \in {"read", "rename"} :
        saver' = [saver EXCEPT ![s] = [IdleSaver EXCEPT !.at = at, !.by = m, !.grant = g]]
  BY DEF CheckPolicy
<1> DEFINE row == [IdleSaver EXCEPT !.at = at, !.by = m, !.grant = g]
<1>2. g \in {"MANAGER", "CREATOR_WINDOW"} /\ (g = "MANAGER" => m \in Manager)
      /\ (g = "CREATOR_WINDOW" => m = Creator /\ Creator \notin Manager)
  BY DEF Grants, Writer
<1>3. row \in SaverRow /\ row.at = at /\ row.by = m /\ row.grant = g
  BY <1>2 DEF IdleSaver, SaverRow, Planned
<1>4. saver' = [saver EXCEPT ![s] = row] /\ UNCHANGED <<req, history, rowHeld>> /\ saver[s].at = "idle"
  BY <1>1 DEF CheckPolicy
<1> HIDE DEF row
<1>5. GrantFits(row) /\ ~HoldsRow(row) /\ ~HoldsRow(saver[s])
  BY <1>2, <1>3, <1>4 DEF GrantFits, HoldsRow
<1> QED BY <1>3, <1>4, <1>5, RowMoves

LEMMA ReadStep ==
  ASSUME EditInv, NEW s \in Saver, NEW c \in Scope \cup {"KEEP"}, ReadExisting(s, c) PROVE EditInv'
<1> DEFINE scope == IF c = "KEEP" THEN req.scope ELSE c
           row == [saver[s] EXCEPT !.at = "write", !.sent = (c # "KEEP"), !.scope = scope]
<1>1. saver[s] \in SaverRow /\ saver \in [Saver -> SaverRow] /\ scope \in Scope /\ scope # "KEEP"
  BY EditTyped, EditAssumption DEF EditInv, ReqRow
<1>2. saver[s].at = "read" /\ GrantFits(saver[s]) /\ UNCHANGED <<req, history, rowHeld>>
  BY DEF ReadExisting, EditInv
<1>3. saver' = [saver EXCEPT ![s] = row]
  BY <1>1 DEF ReadExisting
<1>4. (c # "KEEP") \in BOOLEAN
  OBVIOUS
<1> HIDE DEF scope
<1>5. row \in SaverRow /\ row.at = "write" /\ row.by = saver[s].by /\ row.grant = saver[s].grant
      /\ row.scope = scope
  BY <1>1, <1>4 DEF SaverRow
<1> HIDE DEF row
<1>6. GrantFits(row) /\ ~HoldsRow(row) /\ ~HoldsRow(saver[s])
  BY <1>1, <1>2, <1>5 DEF GrantFits, HoldsRow
<1> QED BY <1>2, <1>3, <1>5, <1>6, RowMoves

LEMMA WriteStep == ASSUME EditInv, NEW s \in Saver, WriteRow(s) PROVE EditInv'
<1>1. saver[s] \in SaverRow /\ saver \in [Saver -> SaverRow]
  BY EditTyped DEF EditInv
<1>2. saver[s].at = "write" /\ ~HoldsRow(saver[s]) /\ GrantFits(saver[s]) /\ rowHeld = {}
      /\ UNCHANGED <<req, history>>
  BY DEF WriteRow, HoldsRow, EditInv
<1>3. IdleSaver \in SaverRow /\ ~HoldsRow(IdleSaver) /\ GrantFits(IdleSaver)
  BY DEF IdleSaver, SaverRow, Writer, Planned, HoldsRow, GrantFits
<1>4. CASE saver' = [saver EXCEPT ![s] = IdleSaver] /\ UNCHANGED rowHeld
  BY <1>2, <1>3, <1>4, RowMoves
<1>5. CASE /\ ~(saver[s].grant = "CREATOR_WINDOW" /\ ~InWindow)
           /\ saver' = [saver EXCEPT ![s].at = "plan"] /\ rowHeld' = {s}
  <2> DEFINE row == [saver[s] EXCEPT !.at = "plan"]
  <2>1. row \in SaverRow /\ row.at = "plan" /\ row.grant = saver[s].grant /\ GrantFits(row)
    BY <1>1, <1>2 DEF SaverRow, GrantFits
  <2>2. saver' = [saver EXCEPT ![s] = row]
    BY <1>5
  <2> HIDE DEF row
  <2>3. saver' \in [Saver -> SaverRow] /\ \A t \in Saver : saver'[t] = IF t = s THEN row ELSE saver[t]
    BY <1>1, <2>1, <2>2
  <2>4. EditTypeOK'
    BY <1>2, <1>5, <2>3, EditTyped DEF EditInv, EditTypeOK, SaverRow, Planned
  <2>5. \A t \in Saver : ~HoldsRow(saver[t])
    BY <1>2 DEF EditInv, OneHolds
  <2>6. OneHolds' /\ PlansFollow'
    BY <1>5, <2>1, <2>3, <2>5 DEF OneHolds, PlansFollow, HoldsRow
  <2>7. WindowFits'
    BY <1>2, <1>5, <2>1, <2>3, <2>5 DEF WindowFits, InWindow, Untouched
  <2> QED BY <1>2, <1>5, <2>1, <2>3, <2>4, <2>6, <2>7 DEF EditInv, Increasing, ScopeFits
<1> QED BY <1>4, <1>5 DEF WriteRow

LEMMA PlanStep == ASSUME EditInv, NEW s \in Saver, PlanVersion(s) PROVE EditInv'
<1>1. PICK v \in NextVersions :
        saver' = [saver EXCEPT ![s].at = "insert",
                               ![s].plan = IF history = <<>> THEN <<<<1, 0>>, v>> ELSE <<v>>]
  BY DEF PlanVersion
<1> DEFINE plan == IF history = <<>> THEN <<<<1, 0>>, v>> ELSE <<v>>
           row == [saver[s] EXCEPT !.at = "insert", !.plan = plan]
<1>2. saver[s] \in SaverRow /\ saver \in [Saver -> SaverRow] /\ history \in Seq(Version) /\ v \in Version
      /\ saver[s].at = "plan" /\ UNCHANGED <<req, history, rowHeld>> /\ GrantFits(saver[s])
  BY <1>1, EditTyped DEF EditInv, NextVersions, PlanVersion
<1>3. plan \in Planned /\ Increasing(history \o plan)
  <2>1. CASE history = <<>>
    <3>1. v \in {<<1, 1>>, <<2, 0>>}
      BY <1>1, <2>1 DEF NextVersions
    <3>2. Increasing(<<>> \o <<<<1, 0>>, v>>)
      BY <3>1, FirstIncreases
    <3> QED BY <1>2, <2>1, <3>2 DEF Planned
  <2>2. CASE history # <<>>
    <3>1. Last \in Version
      BY <1>2, <2>2 DEF Last
    <3>2. v \in {<<Last[1], Last[2] + 1>>, <<Last[1] + 1, 0>>}
      BY <1>1, <2>2 DEF NextVersions
    <3>3. Last[1] \in Nat /\ Last[2] \in Nat
      BY <3>1, VersionTyped
    <3>4. Before(Last, v)
      BY <3>2, <3>3 DEF Before
    <3>5. Increasing(history \o <<v>>)
      BY <1>2, <2>2, <3>4, NextIncreases DEF EditInv, Last
    <3> QED BY <1>2, <2>2, <3>5 DEF Planned
  <2> QED BY <2>1, <2>2
<1>4. saver' = [saver EXCEPT ![s] = row]
  BY <1>1, <1>2
<1> HIDE DEF plan
<1>5. row \in SaverRow /\ row.at = "insert" /\ row.plan = plan /\ row.grant = saver[s].grant /\ GrantFits(row)
  BY <1>2, <1>3 DEF SaverRow, GrantFits
<1> HIDE DEF row
<1>6. saver' \in [Saver -> SaverRow] /\ \A t \in Saver : saver'[t] = IF t = s THEN row ELSE saver[t]
  BY <1>2, <1>4, <1>5
<1>7. EditTypeOK'
  BY <1>2, <1>6, EditTyped DEF EditInv, EditTypeOK, SaverRow, Planned
<1>8. OneHolds' /\ WindowFits'
  BY <1>2, <1>5, <1>6 DEF EditInv, OneHolds, WindowFits, HoldsRow
<1>9. PlansFollow'
  BY <1>2, <1>3, <1>5, <1>6 DEF EditInv, PlansFollow
<1> QED BY <1>2, <1>5, <1>6, <1>7, <1>8, <1>9 DEF EditInv, Increasing, ScopeFits

(* The commit of the save that holds the row.                                  *)
LEMMA WrittenRow ==
  ASSUME EditInv, NEW s \in Saver, HoldsRow(saver[s])
  PROVE  /\ Written(s) \in ReqRow /\ ScopeFits(Written(s)) /\ Written(s).blurred = req.blurred
         /\ Written(s).scope = saver[s].scope
<1>1. req \in ReqRow /\ saver[s] \in SaverRow /\ GrantFits(saver[s]) /\ saver[s].scope \in Scope
  BY EditTyped DEF EditInv, SaverRow, GrantFits, HoldsRow
<1>2. Written(s) = [req EXCEPT !.scope = saver[s].scope, !.modifier = saver[s].by,
                               !.scopeBy = IF saver[s].sent THEN saver[s].by ELSE req.scopeBy]
  BY DEF Written
<1>3. saver[s].by \in Writer
  BY <1>1 DEF SaverRow
<1>4. /\ Written(s) \in ReqRow /\ Written(s).blurred = req.blurred /\ Written(s).modifier = saver[s].by
      /\ Written(s).scopeBy = (IF saver[s].sent THEN saver[s].by ELSE req.scopeBy)
      /\ Written(s).scope = saver[s].scope
  BY <1>1, <1>2, <1>3 DEF ReqRow
<1>5. saver[s].grant \in {"MANAGER", "CREATOR_WINDOW"} /\ saver[s].at # "idle"
  BY <1>1 DEF SaverRow, HoldsRow
<1>6. CASE saver[s].grant = "MANAGER"
  <2>1. saver[s].by \in Manager
    BY <1>1, <1>5, <1>6 DEF GrantFits
  <2> QED BY <1>4, <2>1, EditAssumption DEF ScopeFits, Untouched
<1>7. CASE saver[s].grant = "CREATOR_WINDOW"
  <2>1. saver[s].by = Creator /\ Untouched(req) /\ ScopeFits(req)
    BY <1>1, <1>5, <1>7 DEF GrantFits, EditInv, WindowFits
  <2> QED BY <1>4, <2>1 DEF ScopeFits
<1> QED BY <1>4, <1>5, <1>6, <1>7

LEMMA CommitStep ==
  ASSUME EditInv, NEW s \in Saver, HoldsRow(saver[s]), NEW rows \in Planned, Committed(s, rows),
         Increasing(history \o rows), Len(history) + Len(rows) <= MaxHistory
  PROVE  EditInv'
<1>1. req' \in ReqRow /\ ScopeFits(req')
  BY WrittenRow DEF Committed
<1>2. saver \in [Saver -> SaverRow] /\ history \in Seq(Version) /\ rows \in Seq(Version)
      /\ rowHeld = {s}
  BY EditTyped, PlanTyped DEF EditInv, OneHolds
<1>3. history' \in Seq(Version) /\ Len(history') <= MaxHistory /\ Increasing(history')
  BY <1>2, ConcatProperties DEF Committed
<1>4. IdleSaver \in SaverRow /\ IdleSaver.at = "idle" /\ GrantFits(IdleSaver)
  BY DEF IdleSaver, SaverRow, Writer, Planned, GrantFits
<1>5. saver' \in [Saver -> SaverRow] /\ \A t \in Saver : saver'[t] = IF t = s THEN IdleSaver ELSE saver[t]
  BY <1>2, <1>4 DEF Committed
<1>6. rowHeld' = {}
  BY <1>2 DEF Committed
<1>7. EditTypeOK'
  BY <1>1, <1>3, <1>5, <1>6 DEF EditTypeOK, ReqRow, SaverRow, Planned
<1>8. \A t \in Saver : ~HoldsRow(saver'[t])
  BY <1>2, <1>4, <1>5 DEF EditInv, OneHolds, HoldsRow
<1>9. OneHolds' /\ PlansFollow' /\ WindowFits'
  BY <1>6, <1>8 DEF OneHolds, PlansFollow, WindowFits, HoldsRow
<1>10. \A t \in Saver : GrantFits(saver'[t])
  BY <1>4, <1>5 DEF EditInv
<1> QED BY <1>1, <1>3, <1>6, <1>7, <1>9, <1>10 DEF EditInv, Increasing

LEMMA InsertStep == ASSUME EditInv, NEW s \in Saver, InsertHistory(s) PROVE EditInv'
<1>1. HoldsRow(saver[s]) /\ Increasing(history \o saver[s].plan)
  BY DEF InsertHistory, HoldsRow, EditInv, PlansFollow
<1>2. saver[s].plan \in Planned
  BY EditTyped DEF EditInv, SaverRow
<1> QED BY <1>1, <1>2, CommitStep DEF InsertHistory

LEMMA NoHistoryStep == ASSUME EditInv, NEW s \in Saver, SaveWithoutHistory(s) PROVE EditInv'
<1>1. history \in Seq(Version) /\ Len(history) <= MaxHistory /\ HoldsRow(saver[s])
  BY EditTyped DEF EditInv, SaveWithoutHistory, HoldsRow
<1>2. history \o <<>> = history
  BY <1>1, ConcatEmptySeq
<1>3. Len(history) + Len(<<>>) <= MaxHistory /\ <<>> \in Planned
  BY <1>1 DEF Planned
<1> QED BY <1>1, <1>2, <1>3, CommitStep DEF SaveWithoutHistory, EditInv

(* Nobody holds the row: it is written without a look at what was there.       *)
LEMMA RowWritten ==
  ASSUME EditInv, NEW r \in ReqRow, req' = r, ScopeFits(r), rowHeld = {},
         UNCHANGED <<history, rowHeld>>, saver' \in [Saver -> SaverRow],
         \A t \in Saver : saver'[t] = saver[t] \/ saver'[t] = IdleSaver
  PROVE  EditInv'
<1>1. IdleSaver.at = "idle" /\ GrantFits(IdleSaver)
  BY DEF IdleSaver, GrantFits
<1>2. EditTypeOK'
  BY EditTyped DEF EditInv, EditTypeOK, ReqRow, SaverRow, Planned
<1>3. \A t \in Saver : ~HoldsRow(saver'[t]) /\ GrantFits(saver'[t])
  BY <1>1 DEF EditInv, OneHolds, HoldsRow
<1>4. OneHolds' /\ PlansFollow' /\ WindowFits'
  BY <1>3 DEF OneHolds, PlansFollow, WindowFits, HoldsRow
<1> QED BY <1>2, <1>3, <1>4 DEF EditInv, Increasing

LEMMA RenameStep == ASSUME EditInv, NEW s \in Saver, Rename(s) PROVE EditInv'
<1> DEFINE blurs == saver[s].grant = "CREATOR_WINDOW" /\ req.modifier \notin {"NONE", Creator}
           r == [req EXCEPT !.modifier = saver[s].by, !.blurred = req.blurred \/ blurs]
<1>1. req \in ReqRow /\ saver[s] \in SaverRow /\ saver \in [Saver -> SaverRow] /\ GrantFits(saver[s])
      /\ ScopeFits(req) /\ saver[s].at = "rename" /\ rowHeld = {}
  BY EditTyped DEF EditInv, Rename
<1>2. (req.blurred \/ blurs) \in BOOLEAN /\ saver[s].by \in Writer
  BY <1>1 DEF SaverRow
<1>3. req' = r
  BY DEF Rename
<1>4. blurs <=> saver[s].grant = "CREATOR_WINDOW" /\ ~Untouched(req)
  BY DEF Untouched
<1> HIDE DEF blurs
<1>5. r \in ReqRow /\ r.modifier = saver[s].by /\ r.scopeBy = req.scopeBy /\ r.blurred = (req.blurred \/ blurs)
  BY <1>1, <1>2 DEF ReqRow
<1> HIDE DEF r
<1>6. ScopeFits(r)
  <2>1. CASE saver[s].grant = "MANAGER"
    <3>1. saver[s].by \in Manager
      BY <1>1, <2>1 DEF GrantFits
    <3> QED BY <1>5, <3>1, EditAssumption DEF ScopeFits, Untouched
  <2>2. CASE saver[s].grant = "CREATOR_WINDOW"
    BY <1>1, <1>4, <1>5, <2>2 DEF ScopeFits
  <2>3. saver[s].grant \in {"MANAGER", "CREATOR_WINDOW"}
    BY <1>1 DEF SaverRow
  <2> QED BY <2>1, <2>2, <2>3
<1>7. IdleSaver \in SaverRow
  BY DEF IdleSaver, SaverRow, Writer, Planned
<1>8. saver' \in [Saver -> SaverRow] /\ \A t \in Saver : saver'[t] = saver[t] \/ saver'[t] = IdleSaver
  BY <1>1, <1>7 DEF Rename
<1> QED BY <1>1, <1>3, <1>5, <1>6, <1>8, RowWritten DEF Rename

LEMMA InlineStep == ASSUME EditInv, NEW m \in Manager, NEW c \in Scope, EditInline(m, c) PROVE EditInv'
<1> DEFINE r == [req EXCEPT !.scope = c, !.modifier = m,
                            !.scopeBy = IF c = req.scope THEN req.scopeBy ELSE m]
<1>1. req \in ReqRow /\ saver \in [Saver -> SaverRow] /\ rowHeld = {} /\ req' = r
      /\ UNCHANGED <<history, rowHeld, saver>> /\ m \in Writer
  BY EditTyped DEF EditInv, EditInline, Writer
<1>2. r \in ReqRow /\ r.modifier = m
  BY <1>1 DEF ReqRow
<1> HIDE DEF r
<1>3. ScopeFits(r)
  BY <1>2, EditAssumption DEF ScopeFits, Untouched
<1> QED BY <1>1, <1>2, <1>3, RowWritten

LEMMA DeleteStep == ASSUME EditInv, NEW i \in 1 .. MaxHistory, DeleteHistory(i) PROVE EditInv'
<1>1. history \in Seq(Version) /\ Len(history) <= MaxHistory /\ DOMAIN history = 1 .. Len(history)
      /\ saver \in [Saver -> SaverRow]
  BY EditTyped DEF EditInv
<1>2. i \in 1 .. Len(history) /\ history' = Shorter(history, i) /\ UNCHANGED <<req, rowHeld, saver>>
  BY <1>1 DEF DeleteHistory, Shorter
<1>3. history' \in Seq(Version) /\ Len(history') = Len(history) - 1
  BY <1>1, <1>2, ShorterRows
<1>4. MaxHistory \in Nat /\ Len(history) \in Nat
  BY <1>1, EditAssumption
<1>5. EditTypeOK'
  BY <1>1, <1>2, <1>3, <1>4 DEF EditInv, EditTypeOK
<1>6. ASSUME NEW s \in Saver, saver[s].at = "insert"
      PROVE  Increasing(history' \o saver[s].plan)
  <2>1. saver[s].plan \in Planned /\ Increasing(history \o saver[s].plan)
    BY <1>1, <1>6 DEF SaverRow, EditInv, PlansFollow
  <2> QED BY <1>1, <1>2, <2>1, ShorterIncreases
<1>7. Increasing(history')
  <2>1. <<>> \in Planned /\ history \o <<>> = history /\ history' \o <<>> = history'
    BY <1>1, <1>3, ConcatEmptySeq DEF Planned
  <2>2. Increasing(history \o <<>>)
    BY <2>1 DEF EditInv
  <2>3. Increasing(history' \o <<>>)
    BY <1>1, <1>2, <2>1, <2>2, ShorterIncreases
  <2> QED BY <2>1, <2>3
<1>8. PlansFollow'
  BY <1>2, <1>6 DEF PlansFollow
<1> QED BY <1>2, <1>5, <1>7, <1>8 DEF EditInv, Increasing, OneHolds, ScopeFits, WindowFits

LEMMA WindowStep == ASSUME EditInv, WindowCloses PROVE EditInv'
<1>1. req \in ReqRow
  BY EditTyped DEF EditInv
<1>2. req' \in ReqRow /\ req'.modifier = req.modifier /\ req'.scopeBy = req.scopeBy /\ req'.blurred = req.blurred
      /\ UNCHANGED <<history, rowHeld, saver>>
  BY <1>1 DEF WindowCloses, ReqRow
<1>3. EditTypeOK'
  BY <1>2 DEF EditInv, EditTypeOK, ReqRow
<1>4. ScopeFits(req') /\ WindowFits'
  BY <1>2 DEF EditInv, ScopeFits, WindowFits, Untouched
<1> QED BY <1>2, <1>3, <1>4 DEF EditInv, Increasing, OneHolds, PlansFollow

LEMMA EditStep == EditInv /\ [EditNext]_editVars => EditInv'
<1> SUFFICES ASSUME EditInv, [EditNext]_editVars PROVE EditInv'
  OBVIOUS
<1>1. CASE \E s \in Saver, m \in Writer : CheckPolicy(s, m)
  BY <1>1, PolicyStep
<1>2. CASE \E s \in Saver, c \in Scope \cup {"KEEP"} : ReadExisting(s, c)
  BY <1>2, ReadStep
<1>3. CASE \E s \in Saver : WriteRow(s) \/ PlanVersion(s) \/ InsertHistory(s) \/ SaveWithoutHistory(s) \/ Rename(s)
  BY <1>3, WriteStep, PlanStep, InsertStep, NoHistoryStep, RenameStep
<1>4. CASE \E m \in Manager, c \in Scope : EditInline(m, c)
  BY <1>4, InlineStep
<1>5. CASE (\E i \in 1 .. MaxHistory : DeleteHistory(i)) \/ WindowCloses
  BY <1>5, DeleteStep, WindowStep
<1>6. CASE UNCHANGED editVars
  BY <1>6 DEF editVars, EditInv, EditTypeOK, OneHolds, Increasing, PlansFollow, ScopeFits, WindowFits
<1> QED BY <1>1, <1>2, <1>3, <1>4, <1>5, <1>6 DEF EditNext

(* requirements/[reqId]/route.ts, PUT: no two history rows of a requirement    *)
(* have the same version, however many saves cross, and whatever rows are      *)
(* deleted from the history meanwhile.                                         *)
THEOREM VersionsDiffer == EditSpec => []VersionsDistinct
<1>1. EditInv => VersionsDistinct
  BY EditTyped, IncreasingDiffer DEF EditInv, VersionsDistinct
<1> QED BY <1>1, EditInitInv, EditStep, PTL DEF EditSpec

(* specContentWriteConcurrency.ts: a save under the creator's grant never puts *)
(* back a scope another member has changed since it read the row.              *)
THEOREM CreatorKeepsOthers == EditSpec => CreatorUndoesNoOther
<1> DEFINE Undoes(s) ==
             /\ saver[s].at \in {"plan", "insert"} /\ saver'[s].at = "idle"
             /\ saver[s].grant = "CREATOR_WINDOW" /\ ~saver[s].sent /\ ~req.blurred
<1>1. EditInv => \A s \in Saver : Undoes(s) => req'.scope = req.scope \/ req.scopeBy = Creator
  <2> SUFFICES ASSUME EditInv, NEW s \in Saver, Undoes(s) PROVE req.scopeBy = Creator
    OBVIOUS
  <2>1. GrantFits(saver[s]) /\ ScopeFits(req) /\ Untouched(req)
    BY DEF EditInv, WindowFits, HoldsRow
  <2> QED BY <2>1 DEF GrantFits, ScopeFits
<1>2. EditInv /\ [EditNext]_editVars =>
        [\A s \in Saver : Undoes(s) => req'.scope = req.scope \/ req.scopeBy = Creator]_editVars
  BY <1>1
<1> QED BY <1>2, EditInitInv, EditStep, PTL DEF EditSpec, CreatorUndoesNoOther

(* ------------------------------ The AI tasks ------------------------------ *)
(* A worker that is not idle has a task.                                       *)
HasTask == \A w \in AiWorker : aiWorker[w].at # "idle" => aiWorker[w].task \in AiTask

(* A task somebody works on has been requested, and waits for nobody else.     *)
Claimed ==
  \A w \in AiWorker :
    aiWorker[w].at = "working" /\ ~aiTask[aiWorker[w].task].labelled
      => StatusOf(aiWorker[w].task) \notin {"NONE", "PENDING"}

(* The result of a task that is still to be computed is nowhere.               *)
Unseen ==
  \A t \in AiTask :
    StatusOf(t) \in {"NONE", "PENDING", "IN_PROGRESS"} /\ ~aiTask[t].labelled => aiTask[t].shown = 0

AiInv ==
  /\ AiTypeOK /\ HasTask /\ Claimed /\ Unseen
  /\ OneWorkerPerTask /\ ResultShownOnce /\ ShownOnlyWhenDone

LEMMA AiInitInv == AiInit => AiInv
BY AiTaskAssumption
   DEF AiInit, AiInv, AiTypeOK, HasTask, Claimed, Unseen, OneWorkerPerTask, ResultShownOnce,
       ShownOnlyWhenDone, TaskRow, AiUserRequest, IdleWorker, NoRequest, NoTask, AiTask, StatusOf

(* A step that leaves the workers alone, does not put a task back to where a   *)
(* worker may claim it, and shows no result, unless it marks the task.         *)
Harmless(t) ==
  \/ aiTask'[t] = aiTask[t]
  \/ aiTask'[t].labelled
  \/ /\ aiTask'[t].labelled = aiTask[t].labelled /\ aiTask'[t].shown <= aiTask[t].shown
     /\ \/ aiTask'[t].status = "DELETED"
        \/ aiTask[t].status = "NONE" /\ aiTask'[t].status = "PENDING"
        \/ aiTask'[t].status \in {"FAILED", "REJECTED"} /\ aiTask'[t].crossed
        \/ aiTask[t].status = "IN_PROGRESS" /\ aiTask'[t].status = "FAILED"
        \/ aiTask[t].status = "DONE" /\ aiTask'[t].status = "REJECTED"

LEMMA HarmlessKeeps ==
  ASSUME AiInv, AiTypeOK', UNCHANGED aiWorker, \A t \in AiTask : Harmless(t)
  PROVE  AiInv'
<1> USE DEF AiInv
<1>1. \A t \in AiTask : /\ aiTask[t].shown \in 0..2 /\ aiTask'[t].shown \in 0..2
                        /\ aiTask[t].labelled \in BOOLEAN /\ aiTask'[t].labelled \in BOOLEAN
  BY DEF AiTypeOK, TaskRow
<1>2. HasTask'
  BY DEF HasTask
<1>3. Claimed'
  <2> SUFFICES ASSUME NEW w \in AiWorker, aiWorker[w].at = "working",
                      ~aiTask'[aiWorker[w].task].labelled
               PROVE  aiTask'[aiWorker[w].task].status \notin {"NONE", "PENDING"}
    BY DEF Claimed, StatusOf
  <2>1. aiWorker[w].task \in AiTask
    BY DEF HasTask
  <2> QED BY <2>1 DEF Harmless, Claimed, StatusOf
<1>4. Unseen'
  <2> SUFFICES ASSUME NEW t \in AiTask, aiTask'[t].status \in {"NONE", "PENDING", "IN_PROGRESS"},
                      ~aiTask'[t].labelled
               PROVE  aiTask'[t].shown = 0
    BY DEF Unseen, StatusOf
  <2>1. aiTask'[t].labelled = aiTask[t].labelled /\ aiTask'[t].shown <= aiTask[t].shown
        /\ aiTask[t].status \in {"NONE", "PENDING", "IN_PROGRESS"}
    BY <1>1 DEF Harmless
  <2> QED BY <1>1, <2>1 DEF Unseen, StatusOf
<1>5. OneWorkerPerTask'
  BY <1>1 DEF OneWorkerPerTask, HasTask, Harmless, Claimed
<1>6. ResultShownOnce'
  BY <1>1 DEF ResultShownOnce, Harmless
<1>7. ShownOnlyWhenDone'
  <2> SUFFICES ASSUME NEW t \in AiTask, aiTask'[t].shown > 0, ~aiTask'[t].labelled,
                      ~aiTask'[t].crossed
               PROVE  aiTask'[t].status \in {"DONE", "REJECTED", "DELETED"}
    BY DEF ShownOnlyWhenDone, StatusOf
  <2>1. CASE aiTask'[t] = aiTask[t]
    BY <2>1 DEF ShownOnlyWhenDone, StatusOf
  <2>2. CASE aiTask'[t] # aiTask[t]
    <3>1. aiTask[t].shown > 0 /\ ~aiTask[t].labelled
      BY <1>1, <2>2 DEF Harmless
    <3>2. aiTask[t].status \notin {"NONE", "IN_PROGRESS"}
      BY <1>1, <3>1 DEF Unseen, StatusOf
    <3> QED BY <2>2, <3>2 DEF Harmless
  <2> QED BY <2>1, <2>2
<1> QED BY <1>2, <1>3, <1>4, <1>5, <1>6, <1>7

(* ----------------------------- Type correctness -------------------------- *)
LEMMA TasksTyped ==
  ASSUME NEW f \in [AiTask -> TaskRow], NEW t, NEW r, t \in AiTask => r \in TaskRow
  PROVE  [f EXCEPT ![t] = r] \in [AiTask -> TaskRow]
OBVIOUS

LEMMA RequestsTyped ==
  ASSUME AiTypeOK, NEW c \in AiUser,
         \/ Closes(c) \/ UNCHANGED aiUser
         \/ \E kind \in {"ATTACH", "CANCEL", "REJECT", "RETRY"}, t \in AiTask : Opens(c, kind, t)
  PROVE  aiUser' \in [AiUser -> AiUserRequest]
BY DEF AiTypeOK, Closes, Opens, NoRequest, AiUserRequest

LEMMA RemovedTyped == ASSUME AiTypeOK, NEW t, Removes(t) PROVE aiTask' \in [AiTask -> TaskRow]
<1>1. t \in AiTask => aiTask[t] \in TaskRow
  BY DEF AiTypeOK
<1> DEFINE no == FALSE
           gone == [status |-> "DELETED", shown |-> 0, labelled |-> aiTask[t].labelled, crossed |-> no]
<1>2. aiTask' = [aiTask EXCEPT ![t] = gone] /\ no \in BOOLEAN
  BY DEF Removes
<1> HIDE DEF no
<1>3. t \in AiTask => gone \in TaskRow
  BY <1>1, <1>2 DEF TaskRow
<1> QED BY <1>2, <1>3, TasksTyped DEF AiTypeOK

LEMMA AiTypeStep == ASSUME AiTypeOK, HasTask, [AiNext]_aiVars PROVE AiTypeOK'
<1> USE DEF AiTypeOK, StatusOf, Requested
<1>1. CASE UNCHANGED aiVars
  BY <1>1 DEF aiVars
<1>2. ASSUME NEW c \in AiUser, NEW t \in AiTask, Generate(c, t) PROVE AiTypeOK'
  <2>1. aiTask' \in [AiTask -> TaskRow]
    BY <1>2 DEF Generate, TaskRow, TaskStatus
  <2>2. aiUser' \in [AiUser -> AiUserRequest]
    BY <1>2, RequestsTyped DEF Generate
  <2> QED BY <1>2, <2>1, <2>2 DEF Generate
<1>3. ASSUME NEW c \in AiUser, NEW t \in AiTask, AskCancel(c, t) \/ AskReject(c, t) \/ AskRetry(c, t)
      PROVE  AiTypeOK'
  BY <1>3, RequestsTyped DEF AskCancel, AskReject, AskRetry, Asks
<1>4. ASSUME NEW c \in AiUser, Attach(c) PROVE AiTypeOK'
  BY <1>4, RequestsTyped, RemovedTyped DEF Attach
<1>5. ASSUME NEW c \in AiUser, NEW kind, NEW from, NEW to \in TaskStatus, Overwrite(c, kind, from, to)
      PROVE  AiTypeOK'
  <2> DEFINE t == aiUser[c].task
             crossed == aiTask[t].crossed \/ aiTask[t].status # from
  <2>1. crossed \in BOOLEAN
    OBVIOUS
  <2>2. \/ UNCHANGED aiTask
        \/ aiTask' = [aiTask EXCEPT ![t] = [aiTask[t] EXCEPT !.status = to, !.crossed = crossed]]
    BY <1>5 DEF Overwrite
  <2> HIDE DEF t, crossed
  <2>3. t \in AiTask => [aiTask[t] EXCEPT !.status = to, !.crossed = crossed] \in TaskRow
    BY <2>1 DEF TaskRow
  <2>4. aiTask' \in [AiTask -> TaskRow]
    BY <2>2, <2>3, TasksTyped
  <2>5. aiUser' \in [AiUser -> AiUserRequest] /\ UNCHANGED <<artifact, aiWorker>>
    BY <1>5, RequestsTyped DEF Overwrite
  <2> QED BY <2>4, <2>5
<1>6. ASSUME NEW c \in AiUser, CancelTask(c) \/ RejectTask(c) PROVE AiTypeOK'
  BY <1>5, <1>6 DEF CancelTask, RejectTask, TaskStatus
<1>7. ASSUME NEW c \in AiUser, RetryTask(c) PROVE AiTypeOK'
  <2>1. aiTask' \in [AiTask -> TaskRow]
    BY <1>7 DEF RetryTask, TaskRow, TaskStatus
  <2>2. aiUser' \in [AiUser -> AiUserRequest]
    BY <1>7, RequestsTyped DEF RetryTask
  <2> QED BY <1>7, <2>1, <2>2 DEF RetryTask
<1>8. ASSUME NEW t \in AiTask, NEW to \in TaskStatus, LabelTask(t, to) PROVE AiTypeOK'
  BY <1>8 DEF LabelTask, TaskRow
<1>9. ASSUME NEW t \in AiTask, DeleteTask(t) PROVE AiTypeOK'
  BY <1>9, RemovedTyped DEF DeleteTask
<1>10. CASE DeleteArtifact
  BY <1>10 DEF DeleteArtifact
<1>11. ASSUME NEW w \in AiWorker, NEW t \in AiTask, ListTasks(w, t) PROVE AiTypeOK'
  BY <1>11 DEF ListTasks
<1>12. ASSUME NEW w \in AiWorker, StartTask(w) \/ WorkerDies(w) PROVE AiTypeOK'
  <2> DEFINE t == aiWorker[w].task
             row == [aiTask[t] EXCEPT !.status = "IN_PROGRESS"]
  <2>a. aiTask' = aiTask \/ aiTask' = [aiTask EXCEPT ![t] = row]
    BY <1>12 DEF StartTask, WorkerDies
  <2>b. t \in AiTask => row \in TaskRow
    <3>1. t \in AiTask => aiTask[t] \in TaskRow
      OBVIOUS
    <3> HIDE DEF t, AiTypeOK
    <3> QED BY <3>1 DEF TaskRow, TaskStatus
  <2>1. aiTask' \in [AiTask -> TaskRow]
    <3> HIDE DEF row
    <3> QED BY <2>a, <2>b, TasksTyped
  <2>2. aiWorker' \in [AiWorker -> [at: {"idle", "listed", "working"}, task: AiTask \cup {NoTask}]]
    BY <1>12 DEF StartTask, WorkerDies, IdleWorker
  <2> QED BY <1>12, <2>1, <2>2 DEF StartTask, WorkerDies
<1>13. ASSUME NEW w \in AiWorker, NEW to \in {"DONE", "FAILED"}, CompleteTask(w, to)
       PROVE  AiTypeOK'
  <2> DEFINE t == aiWorker[w].task
             shown == IF to = "DONE" /\ aiTask[t].shown < 2 THEN aiTask[t].shown + 1
                      ELSE aiTask[t].shown
  <2>1. t \in AiTask
    BY <1>13 DEF CompleteTask, Reports, HasTask
  <2>2. \/ UNCHANGED aiTask
        \/ aiTask' = [aiTask EXCEPT ![t] = [aiTask[t] EXCEPT !.status = to, !.shown = shown]]
    BY <1>13 DEF CompleteTask, Reports
  <2>3. shown \in 0..2
    BY <2>1 DEF TaskRow
  <2>4. aiWorker' \in [AiWorker -> [at: {"idle", "listed", "working"}, task: AiTask \cup {NoTask}]]
        /\ UNCHANGED <<artifact, aiUser>>
    BY <1>13 DEF CompleteTask, Reports, IdleWorker
  <2> HIDE DEF t, shown
  <2>5. aiTask' \in [AiTask -> TaskRow]
    <3>1. [aiTask[t] EXCEPT !.status = to, !.shown = shown] \in TaskRow
      <4>1. aiTask[t] \in TaskRow /\ to \in TaskStatus
        BY <2>1 DEF TaskStatus
      <4> HIDE DEF AiTypeOK
      <4> QED BY <2>3, <4>1 DEF TaskRow
    <3> QED BY <2>2, <3>1, TasksTyped
  <2> QED BY <2>4, <2>5
<1> QED
  BY <1>1, <1>2, <1>3, <1>4, <1>6, <1>7, <1>8, <1>9, <1>10, <1>11, <1>12, <1>13 DEF AiNext

(* ------------------------------- Every step ------------------------------ *)
LEMMA UserSteps ==
  ASSUME AiInv, AiTypeOK',
         \/ \E c \in AiUser :
              \/ \E t \in AiTask : Generate(c, t) \/ AskCancel(c, t) \/ AskReject(c, t) \/ AskRetry(c, t)
              \/ Attach(c) \/ CancelTask(c) \/ RejectTask(c) \/ RetryTask(c)
         \/ \E t \in AiTask : DeleteTask(t) \/ \E to \in TaskStatus : LabelTask(t, to)
         \/ DeleteArtifact \/ UNCHANGED aiVars
  PROVE  AiInv'
<1> USE DEF AiInv, AiTypeOK, TaskRow, StatusOf, Harmless
<1>0. UNCHANGED aiWorker
  BY DEF Generate, AskCancel, AskReject, AskRetry, Asks, Attach, CancelTask, RejectTask, Overwrite,
         RetryTask, DeleteTask, LabelTask, DeleteArtifact, aiVars
<1>1. ASSUME NEW t \in AiTask, aiTask' = [aiTask EXCEPT ![t].status = "PENDING"], NextTask(t)
      PROVE  \A u \in AiTask : Harmless(u)
  BY <1>1 DEF NextTask
<1>2. ASSUME NEW t \in AiTask, Removes(t) PROVE \A u \in AiTask : Harmless(u)
  BY <1>2 DEF Removes
<1>3. ASSUME NEW c \in AiUser, CancelTask(c) \/ RejectTask(c) PROVE \A u \in AiTask : Harmless(u)
  <2>1. ASSUME NEW kind, NEW from, NEW to, Overwrite(c, kind, from, to)
        PROVE  \A u \in AiTask :
                 \/ aiTask'[u] = aiTask[u]
                 \/ /\ aiTask'[u].status = to /\ (aiTask'[u].crossed \/ aiTask[u].status = from)
                    /\ aiTask'[u].labelled = aiTask[u].labelled /\ aiTask'[u].shown = aiTask[u].shown
    <3> DEFINE t == aiUser[c].task
               crossed == aiTask[t].crossed \/ aiTask[t].status # from
               row == [aiTask[t] EXCEPT !.status = to, !.crossed = crossed]
    <3>1. UNCHANGED aiTask \/ aiTask' = [aiTask EXCEPT ![t] = row]
      BY <2>1 DEF Overwrite
    <3>2. crossed \/ aiTask[t].status = from
      OBVIOUS
    <3> HIDE DEF crossed
    <3>3. t \in AiTask => /\ row.status = to /\ row.crossed = crossed
                          /\ row.labelled = aiTask[t].labelled /\ row.shown = aiTask[t].shown
      OBVIOUS
    <3> HIDE DEF t, row, TaskRow
    <3> QED BY <3>1, <3>2, <3>3
  <2>2. \A u \in AiTask : aiTask[u].shown <= aiTask[u].shown
    OBVIOUS
  <2> HIDE DEF AiInv, AiTypeOK, TaskRow
  <2>3. CASE CancelTask(c)
    <3>1. Overwrite(c, "CANCEL", "IN_PROGRESS", "FAILED")
      BY <2>3 DEF CancelTask
    <3> QED BY <2>1, <2>2, <3>1
  <2>4. CASE RejectTask(c)
    <3>1. Overwrite(c, "REJECT", "DONE", "REJECTED")
      BY <2>4 DEF RejectTask
    <3> QED BY <2>1, <2>2, <3>1
  <2> QED BY <1>3, <2>3, <2>4
<1>4. ASSUME NEW t \in AiTask, NEW to \in TaskStatus, LabelTask(t, to)
      PROVE \A u \in AiTask : Harmless(u)
  <2>1. \A u \in AiTask \ {t} : aiTask'[u] = aiTask[u]
    BY <1>4 DEF LabelTask
  <2>2. aiTask'[t].labelled
    BY <1>4 DEF LabelTask
  <2> HIDE DEF AiTypeOK, TaskRow
  <2> QED BY <2>1, <2>2
<1>5. ASSUME UNCHANGED aiTask PROVE \A u \in AiTask : Harmless(u)
  BY <1>5
<1>6. ASSUME NEW c \in AiUser, Attach(c) PROVE UNCHANGED aiTask \/ \E t \in AiTask : Removes(t)
  <2>1. UNCHANGED aiTask \/ Removes(aiUser[c].task)
    BY <1>6 DEF Attach
  <2>2. aiUser[c].task \notin AiTask /\ Removes(aiUser[c].task) => UNCHANGED aiTask
    BY DEF Removes
  <2> QED BY <2>1, <2>2
<1>7. ASSUME NEW c \in AiUser, RetryTask(c)
      PROVE \E t \in AiTask : aiTask' = [aiTask EXCEPT ![t].status = "PENDING"] /\ NextTask(t)
  BY <1>7 DEF RetryTask
<1>8. \A u \in AiTask : Harmless(u)
  BY <1>1, <1>2, <1>3, <1>4, <1>5, <1>6, <1>7
     DEF Generate, AskCancel, AskReject, AskRetry, Asks, DeleteTask, DeleteArtifact, aiVars
<1> QED BY <1>0, <1>8, HarmlessKeeps

LEMMA WorkerSteps ==
  ASSUME AiInv, AiTypeOK', NEW w \in AiWorker,
         \/ \E t \in AiTask : ListTasks(w, t)
         \/ StartTask(w) \/ WorkerDies(w) \/ \E to \in {"DONE", "FAILED"} : CompleteTask(w, to)
  PROVE  AiInv'
<1> USE DEF AiInv, StatusOf
<1>0. /\ \A t \in AiTask : aiTask[t].shown \in 0..2 /\ aiTask[t].labelled \in BOOLEAN
      /\ \A t \in AiTask : aiTask'[t].shown \in 0..2 /\ aiTask'[t].labelled \in BOOLEAN
      /\ aiWorker \in [AiWorker -> [at: {"idle", "listed", "working"}, task: AiTask \cup {NoTask}]]
      /\ aiTask \in [AiTask -> TaskRow]
  BY DEF AiTypeOK, TaskRow
<1>1. CASE /\ UNCHANGED aiTask
           /\ \A v \in AiWorker \ {w} : aiWorker'[v] = aiWorker[v]
           /\ aiWorker'[w].at # "working"
           /\ aiWorker'[w].at # "idle" => aiWorker'[w].task \in AiTask
  <2>1. HasTask'
    BY <1>1 DEF HasTask
  <2>3. Claimed'
    BY <1>1 DEF Claimed
  <2>2. OneWorkerPerTask'
    BY <1>1 DEF OneWorkerPerTask
  <2> QED BY <1>1, <2>1, <2>2, <2>3 DEF Unseen, ResultShownOnce, ShownOnlyWhenDone
<1>2. ASSUME NEW t \in AiTask, ListTasks(w, t) PROVE AiInv'
  BY <1>0, <1>1, <1>2 DEF ListTasks
<1>3. CASE WorkerDies(w)
  BY <1>0, <1>1, <1>3 DEF WorkerDies, IdleWorker
<1>4. CASE StartTask(w) /\ ~Startable(aiWorker[w].task)
  BY <1>0, <1>1, <1>4 DEF StartTask, IdleWorker
<1>5. CASE StartTask(w) /\ Startable(aiWorker[w].task)
  <2> DEFINE t == aiWorker[w].task
  <2>1. t \in AiTask /\ aiTask[t].status = "PENDING"
    BY <1>5 DEF StartTask, Startable, HasTask
  <2>2. /\ aiTask' = [aiTask EXCEPT ![t].status = "IN_PROGRESS"]
        /\ aiWorker' = [aiWorker EXCEPT ![w].at = "working"]
    BY <1>5 DEF StartTask
  <2>3. /\ \A u \in AiTask : u # t => aiTask'[u] = aiTask[u]
        /\ aiTask'[t].status = "IN_PROGRESS" /\ aiTask'[t].shown = aiTask[t].shown
        /\ aiTask'[t].labelled = aiTask[t].labelled
    BY <1>0, <2>1, <2>2 DEF TaskRow
  <2>4. /\ \A v \in AiWorker : v # w => aiWorker'[v] = aiWorker[v]
        /\ aiWorker'[w].at = "working" /\ aiWorker'[w].task = t
    BY <1>0, <2>2
  <2> HIDE DEF t
  <2>5. HasTask' /\ Claimed'
    BY <2>1, <2>3, <2>4 DEF HasTask, Claimed
  <2>6. OneWorkerPerTask'
    BY <2>1, <2>3, <2>4 DEF OneWorkerPerTask, Claimed, HasTask
  <2>7. aiTask[t].shown = 0 \/ aiTask[t].labelled
    BY <2>1 DEF Unseen
  <2>8. Unseen' /\ ResultShownOnce'
    BY <1>0, <2>1, <2>3, <2>7 DEF Unseen, ResultShownOnce
  <2>9. ShownOnlyWhenDone'
    BY <1>0, <2>1, <2>3, <2>7 DEF ShownOnlyWhenDone
  <2> QED BY <2>5, <2>6, <2>8, <2>9
<1>6. ASSUME NEW to \in {"DONE", "FAILED"}, CompleteTask(w, to) PROVE AiInv'
  <2> DEFINE t == aiWorker[w].task
  <2>1. t \in AiTask /\ aiWorker[w].at = "working"
    BY <1>6 DEF CompleteTask, Reports, HasTask
  <2>2. /\ \A v \in AiWorker \ {w} : aiWorker'[v] = aiWorker[v]
        /\ aiWorker'[w] = aiWorker[w] \/ aiWorker'[w].at = "idle"
    BY <1>0, <1>6 DEF CompleteTask, Reports, IdleWorker
  <2>3. \/ aiTask' = aiTask
        \/ /\ aiTask[t].status = "IN_PROGRESS"
           /\ \A u \in AiTask : u # t => aiTask'[u] = aiTask[u]
           /\ aiTask'[t].status = to /\ aiTask'[t].labelled = aiTask[t].labelled
           /\ IF to = "DONE" THEN aiTask'[t].shown <= aiTask[t].shown + 1
              ELSE aiTask'[t].shown = aiTask[t].shown
    BY <1>0, <1>6, <2>1 DEF CompleteTask, Reports, InProgress, TaskRow
  <2> HIDE DEF t
  <2>4. HasTask'
    BY <2>1, <2>2 DEF HasTask
  <2>5. Claimed'
    BY <2>1, <2>2, <2>3 DEF Claimed, HasTask
  <2>6. OneWorkerPerTask'
    BY <2>1, <2>2, <2>3 DEF OneWorkerPerTask, HasTask
  <2>7. Unseen' /\ ResultShownOnce'
    BY <1>0, <2>1, <2>3 DEF Unseen, ResultShownOnce
  <2>8. ShownOnlyWhenDone'
    <3>1. CASE aiTask' = aiTask
      BY <3>1 DEF ShownOnlyWhenDone
    <3>2. CASE aiTask' # aiTask
      BY <1>0, <2>1, <2>3, <3>2 DEF ShownOnlyWhenDone, Unseen
    <3> QED BY <3>1, <3>2
  <2> QED BY <2>4, <2>5, <2>6, <2>7, <2>8
<1> QED BY <1>2, <1>3, <1>4, <1>5, <1>6

LEMMA AiStep == AiInv /\ [AiNext]_aiVars => AiInv'
<1> SUFFICES ASSUME AiInv, [AiNext]_aiVars PROVE AiInv'
  OBVIOUS
<1>1. AiTypeOK'
  BY AiTypeStep DEF AiInv
<1>2. \/ \E c \in AiUser :
           \/ \E t \in AiTask : Generate(c, t) \/ AskCancel(c, t) \/ AskReject(c, t) \/ AskRetry(c, t)
           \/ Attach(c) \/ CancelTask(c) \/ RejectTask(c) \/ RetryTask(c)
      \/ \E t \in AiTask : DeleteTask(t) \/ \E to \in TaskStatus : LabelTask(t, to)
      \/ DeleteArtifact \/ UNCHANGED aiVars
      \/ \E w \in AiWorker :
           \/ \E t \in AiTask : ListTasks(w, t)
           \/ StartTask(w) \/ WorkerDies(w) \/ \E to \in {"DONE", "FAILED"} : CompleteTask(w, to)
  BY DEF AiNext
<1> QED BY <1>1, <1>2, UserSteps, WorkerSteps

(* The worker's start route: however many workers list the same task, and      *)
(* whatever users do to it in between, one of them computes it, unless its     *)
(* status was put back by hand.                                                *)
THEOREM OneWorker == AiSpec => []OneWorkerPerTask
<1>1. AiInv => OneWorkerPerTask
  BY DEF AiInv
<1> QED BY <1>1, AiInitInv, AiStep, PTL DEF AiSpec

(* The worker's complete route against retries of its own, deletes and         *)
(* cancels: the result of a task is written to the artifact once, for every    *)
(* interleaving of users and workers.                                          *)
THEOREM WrittenOnce == AiSpec => []ResultShownOnce
<1>1. AiInv => ResultShownOnce
  BY DEF AiInv
<1> QED BY <1>1, AiInitInv, AiStep, PTL DEF AiSpec

(* The same route: the artifact shows the result of a task only while the row  *)
(* on record says so, unless a request crossed the report.                     *)
THEOREM ShownIsDone == AiSpec => []ShownOnlyWhenDone
<1>1. AiInv => ShownOnlyWhenDone
  BY DEF AiInv
<1> QED BY <1>1, AiInitInv, AiStep, PTL DEF AiSpec

(* ---------------------- Spec synchronisation ----------------------------- *)
Reviewed(v) == item[reviewer[v].run][reviewer[v].slot]

(* The row lock of a run keeps two decisions on it apart, the row lock of a    *)
(* text two decisions on findings about it.                                    *)
RunsLocked ==
  \A u, v \in Reviewer :
    u # v /\ reviewer[u].at # "idle" /\ reviewer[v].at # "idle" => reviewer[u].run # reviewer[v].run
TextsLocked ==
  \A u, v \in Reviewer :
    u # v /\ HasTarget(u) /\ HasTarget(v) => ReviewedTarget(u) # ReviewedTarget(v)

(* What a decision has read is still so when it is written.                    *)
Reviewing(v) ==
  /\ reviewer[v].at \in {"idle", "lock"} => reviewer[v].to = "PENDING"
  /\ reviewer[v].at # "idle" => Reviewed(v).status = "PENDING"
  /\ reviewer[v].at = "lock" \/ reviewer[v].to = "APPLIED" => Reviewed(v).proposed # NoText
  /\ reviewer[v].at \in {"count", "commit"} => reviewer[v].to # "PENDING"
  /\ reviewer[v].to = "APPLIED" => design[Reviewed(v).target].text = Reviewed(v).before
  /\ reviewer[v].to = "DESIGN_CHANGED" => design[Reviewed(v).target].text # Reviewed(v).before
  /\ reviewer[v].at = "commit" =>
       (reviewer[v].result = "COMPLETED" <=> PendingSlots(reviewer[v].run) \ {reviewer[v].slot} = {})

(* Only a run that has been analysed has findings.                             *)
Analysed ==
  \A r \in SyncRun : syncRun[r].status \notin {"NEEDS_REVIEW", "COMPLETED"} =>
    \A s \in Slot : item[r][s].status = "NONE"

SyncInv ==
  /\ SyncTypeOK /\ RunsLocked /\ TextsLocked /\ Analysed /\ ReviewStatusTrue /\ OneRunPerKey
  /\ \A v \in Reviewer : Reviewing(v)

(* ---------------------------- The initial states ------------------------- *)
LEMMA NoValues ==
  /\ NoRun \in RunRow /\ NoItem \in ItemRow /\ IdleAgent \in AgentRow /\ IdleReviewer \in ReviewRow
  /\ NoRun.status = "NONE" /\ NoItem.status = "NONE"
  /\ IdleReviewer.at = "idle" /\ IdleReviewer.to = "PENDING"
<1>1. /\ SomeOf(SyncKey) \in SyncKey /\ SomeOf(Target) \in Target
      /\ SomeOf(SyncRun) \in SyncRun /\ SomeOf(Slot) \in Slot
  BY SyncAssumption DEF SomeOf
<1> HIDE DEF SomeOf
<1>2. NoSnapshot \in Snapshot
  BY DEF NoSnapshot, Snapshot
<1> QED BY <1>1, <1>2 DEF NoRun, NoItem, IdleAgent, IdleReviewer, RunRow, ItemRow, AgentRow,
                         ReviewRow, ItemStatus

LEMMA SyncInitInv == SyncInit => SyncInv
<1> SUFFICES ASSUME SyncInit PROVE SyncInv
  OBVIOUS
<1>1. SyncTypeOK
  BY NoValues DEF SyncInit, SyncTypeOK, Design
<1>2. /\ \A r \in SyncRun : syncRun[r].status = "NONE"
      /\ \A r \in SyncRun, s \in Slot : item[r][s].status = "NONE"
      /\ \A v \in Reviewer : reviewer[v].at = "idle" /\ reviewer[v].to = "PENDING"
  BY NoValues DEF SyncInit
<1>3. RunsLocked /\ TextsLocked /\ Analysed /\ OneRunPerKey
  BY <1>2 DEF RunsLocked, TextsLocked, HasTarget, Analysed, OneRunPerKey
<1>4. ReviewStatusTrue
  BY <1>2 DEF ReviewStatusTrue
<1>5. \A v \in Reviewer : Reviewing(v)
  BY <1>2 DEF Reviewing
<1> QED BY <1>1, <1>3, <1>4, <1>5 DEF SyncInv

(* --------------------------- What a step changes ------------------------- *)
(* The decisions under way are left alone: so are their findings, and the      *)
(* texts they have locked.                                                     *)
LEMMA ReviewsGoOn ==
  ASSUME SyncInv, UNCHANGED reviewer,
         \A v \in Reviewer : reviewer[v].at # "idle" => item'[reviewer[v].run] = item[reviewer[v].run],
         \A v \in Reviewer : HasTarget(v) => design'[ReviewedTarget(v)].text = design[ReviewedTarget(v)].text
  PROVE  RunsLocked' /\ TextsLocked' /\ \A v \in Reviewer : Reviewing(v)'
<1> USE DEF SyncInv
<1>1. RunsLocked'
  BY DEF RunsLocked
<1>2. \A v \in Reviewer : HasTarget(v) => reviewer[v].at # "idle"
  BY DEF Reviewing, HasTarget
<1>3. TextsLocked'
  <2>1. \A v \in Reviewer : HasTarget(v)' <=> HasTarget(v)
    BY DEF HasTarget
  <2>2. \A v \in Reviewer : HasTarget(v) => ReviewedTarget(v)' = ReviewedTarget(v)
    BY <1>2 DEF ReviewedTarget
  <2>3. TextsLocked
    OBVIOUS
  <2> HIDE DEF SyncInv
  <2> QED BY <2>1, <2>2, <2>3 DEF TextsLocked
<1>4. ASSUME NEW v \in Reviewer PROVE Reviewing(v)'
  <2>1. Reviewing(v)
    OBVIOUS
  <2>2. CASE reviewer[v].at = "idle"
    BY <2>1, <2>2 DEF Reviewing
  <2>3. CASE reviewer[v].at # "idle"
    <3>1. Reviewed(v)' = Reviewed(v) /\ PendingSlots(reviewer[v].run)' = PendingSlots(reviewer[v].run)
      BY <2>3 DEF Reviewed, PendingSlots
    <3>2. reviewer[v].to \in {"APPLIED", "DESIGN_CHANGED"} =>
            design'[Reviewed(v).target].text = design[Reviewed(v).target].text
      BY DEF HasTarget, ReviewedTarget, Reviewed
    <3> HIDE DEF Reviewed, PendingSlots
    <3> QED BY <2>1, <2>3, <3>1, <3>2 DEF Reviewing
  <2> QED BY <2>2, <2>3
<1> QED BY <1>1, <1>3, <1>4

(* Agents, and everybody else who does not decide.                             *)
LEMMA OtherSteps ==
  ASSUME SyncInv, UNCHANGED <<design, item, reviewer>>, SyncTypeOK',
         \A r \in SyncRun :
           \/ syncRun'[r] = syncRun[r]
           \/ /\ IsOpen(r) /\ syncRun'[r].key = syncRun[r].key
              /\ syncRun'[r].status \in {"FAILED", "NEEDS_INPUT", "CANCELLED"}
           \/ /\ syncRun[r].status = "NONE" /\ syncRun'[r].status = "RUNNING"
              /\ ~KeyTaken(syncRun'[r].key)
              /\ \A q \in SyncRun \ {r} : syncRun'[q] = syncRun[q]
  PROVE  SyncInv'
<1> USE DEF SyncInv
<1>1. RunsLocked' /\ TextsLocked' /\ \A v \in Reviewer : Reviewing(v)'
  BY ReviewsGoOn
<1>2. Analysed'
  BY DEF Analysed, IsOpen, OpenStatus
<1>3. ReviewStatusTrue'
  BY DEF ReviewStatusTrue, PendingSlots
<1>4. OneRunPerKey'
  BY DEF OneRunPerKey, IsOpen, OpenStatus, KeyTaken
<1> QED BY <1>1, <1>2, <1>3, <1>4

LEMMA AgentSteps ==
  ASSUME SyncInv, NEW a \in Agent,
         \/ \E k \in SyncKey : StartSyncRun(a, k)
         \/ CreateRun(a) \/ SubmitWithoutAnalysis(a) \/ AgentDies(a)
         \/ \E r \in SyncRun : SubmitSyncResult(a, r)
  PROVE  SyncInv'
<1> USE DEF SyncInv, SyncTypeOK
<1>0. IdleAgent \in AgentRow /\ agent[a] \in AgentRow /\ agent[a].run \in SyncRun
      /\ agent[a].key \in SyncKey /\ agent[a].snapshot \in Snapshot
  BY NoValues DEF AgentRow
<1>1. ASSUME NEW k \in SyncKey, StartSyncRun(a, k) PROVE SyncInv'
  <2>1. [t \in Target |-> design[t].text] \in Snapshot
    BY DEF Design, Snapshot
  <2>2. SyncTypeOK'
    <3> DEFINE row == [agent[a] EXCEPT !.at = "create", !.key = k,
                                       !.snapshot = [t \in Target |-> design[t].text]]
    <3>1. row \in AgentRow
      BY <1>0, <2>1 DEF AgentRow
    <3>2. agent' = [agent EXCEPT ![a] = row] /\ UNCHANGED <<design, syncRun, item, reviewer>>
      BY <1>1 DEF StartSyncRun
    <3> HIDE DEF row
    <3> QED BY <3>1, <3>2
  <2> QED BY <1>1, <2>2, OtherSteps DEF StartSyncRun
<1>2. CASE CreateRun(a)
  <2>1. UNCHANGED <<design, item, reviewer>> /\ agent' \in [Agent -> AgentRow]
    BY <1>0, <1>2 DEF CreateRun, AgentDone
  <2>2. CASE UNCHANGED syncRun
    <3>1. SyncTypeOK'
      BY <2>1, <2>2
    <3> QED BY <2>1, <2>2, <3>1, OtherSteps
  <2>3. ASSUME NEW r \in SyncRun, ~KeyTaken(agent[a].key), syncRun[r].status = "NONE", CreatedRun(a, r)
        PROVE  SyncInv'
    <3>1. /\ syncRun' \in [SyncRun -> RunRow]
          /\ \A q \in SyncRun \ {r} : syncRun'[q] = syncRun[q]
          /\ syncRun'[r].status = "RUNNING" /\ syncRun'[r].key = agent[a].key
      <4> DEFINE row == [status |-> "RUNNING", key |-> agent[a].key, snapshot |-> agent[a].snapshot]
      <4>1. row \in RunRow /\ row.status = "RUNNING" /\ row.key = agent[a].key
        BY <1>0 DEF RunRow, OpenStatus
      <4>2. syncRun' = [syncRun EXCEPT ![r] = row] /\ syncRun \in [SyncRun -> RunRow]
        BY <2>3 DEF CreatedRun
      <4> HIDE DEF row, SyncInv, SyncTypeOK
      <4> QED BY <4>1, <4>2
    <3>2. SyncTypeOK'
      BY <2>1, <3>1
    <3> QED BY <2>1, <2>3, <3>1, <3>2, OtherSteps
  <2> QED BY <1>2, <2>2, <2>3 DEF CreateRun
<1>3. CASE SubmitWithoutAnalysis(a)
  <2>1. UNCHANGED <<design, item, reviewer>> /\ agent' \in [Agent -> AgentRow]
    BY <1>0, <1>3 DEF SubmitWithoutAnalysis, AgentDone
  <2>2. CASE UNCHANGED syncRun
    <3>1. SyncTypeOK'
      BY <2>1, <2>2
    <3> QED BY <2>1, <2>2, <3>1, OtherSteps
  <2>3. ASSUME NEW status \in {"FAILED", "NEEDS_INPUT"}, UpdateOpenRun(agent[a].run, status)
        PROVE  SyncInv'
    <3>1. /\ syncRun' \in [SyncRun -> RunRow]
          /\ \A q \in SyncRun : q # agent[a].run => syncRun'[q] = syncRun[q]
          /\ IsOpen(agent[a].run) /\ syncRun'[agent[a].run].status = status
          /\ syncRun'[agent[a].run].key = syncRun[agent[a].run].key
      BY <1>0, <2>3 DEF UpdateOpenRun, RunRow, OpenStatus
    <3>2. SyncTypeOK'
      BY <2>1, <3>1
    <3> QED BY <2>1, <3>1, <3>2, OtherSteps
  <2> QED BY <1>3, <2>2, <2>3 DEF SubmitWithoutAnalysis
<1>4. CASE AgentDies(a)
  <2>1. SyncTypeOK'
    BY <1>0, <1>4 DEF AgentDies, AgentDone
  <2> QED BY <1>4, <2>1, OtherSteps DEF AgentDies
<1>5. ASSUME NEW r \in SyncRun, SubmitSyncResult(a, r) PROVE SyncInv'
  <2> DEFINE row == [agent[a] EXCEPT !.at = "store", !.run = r]
  <2>a. row \in AgentRow
    BY <1>0 DEF AgentRow
  <2>b. agent' = [agent EXCEPT ![a] = row] /\ UNCHANGED <<design, syncRun, item, reviewer>>
    BY <1>5 DEF SubmitSyncResult
  <2>1. SyncTypeOK'
    <3> HIDE DEF row
    <3> QED BY <2>a, <2>b
  <2> QED BY <1>5, <2>1, OtherSteps DEF SubmitSyncResult
<1> QED BY <1>1, <1>2, <1>3, <1>4, <1>5

(* The transaction that stores the findings of an analysis.                    *)
Stores(r, found) ==
  /\ RunFree(r) /\ IsOpen(r) /\ \A s \in Slot : item[r][s].status = "NONE"
  /\ found \in Findings(r) /\ StoredResult(r, found) /\ UNCHANGED <<design, reviewer>>

LEMMA StoreFacts ==
  ASSUME SyncInv, NEW r \in SyncRun, NEW found, Stores(r, found)
  PROVE  /\ DOMAIN found \subseteq Slot
         /\ \A s \in DOMAIN found : found[s] \in ItemRow /\ found[s].status = "PENDING"
         /\ \A s \in Slot : item'[r][s] = IF s \in DOMAIN found THEN found[s] ELSE item[r][s]
         /\ \A q \in SyncRun \ {r} : item'[q] = item[q] /\ syncRun'[q] = syncRun[q]
         /\ item' \in [SyncRun -> [Slot -> ItemRow]] /\ syncRun' \in [SyncRun -> RunRow]
         /\ syncRun'[r].status = IF DOMAIN found = {} THEN "COMPLETED" ELSE "NEEDS_REVIEW"
         /\ syncRun'[r].key = syncRun[r].key
<1> USE DEF SyncInv, SyncTypeOK
<1>1. PICK S \in SUBSET Slot : found \in [S -> UNION {Found(r, t) : t \in Target}]
  BY DEF Stores, Findings
<1>2. \A s \in S : found[s] \in ItemRow /\ found[s].status = "PENDING"
  <2> SUFFICES ASSUME NEW s \in S PROVE found[s] \in ItemRow /\ found[s].status = "PENDING"
    OBVIOUS
  <2>1. PICK t \in Target : found[s] \in Found(r, t)
    BY <1>1
  <2>2. syncRun[r].snapshot[t] \in Text \cup {NoText}
    BY DEF RunRow, Snapshot
  <2> QED BY <2>1, <2>2 DEF Found, ItemRow, ItemStatus
<1>3. DOMAIN found = S
  BY <1>1
<1>4. /\ item' = [item EXCEPT ![r] = [s \in Slot |-> IF s \in DOMAIN found THEN found[s] ELSE item[r][s]]]
      /\ syncRun' = [syncRun EXCEPT ![r].status = IF DOMAIN found = {} THEN "COMPLETED" ELSE "NEEDS_REVIEW"]
  BY DEF Stores, StoredResult
<1> QED BY <1>1, <1>2, <1>3, <1>4 DEF RunRow

LEMMA StoreStep ==
  ASSUME SyncInv, NEW r \in SyncRun, NEW found, Stores(r, found), agent' \in [Agent -> AgentRow]
  PROVE  SyncInv'
<1> USE DEF SyncInv
<1>1. SyncTypeOK'
  BY StoreFacts DEF SyncTypeOK, Stores
<1>2. \A v \in Reviewer : reviewer[v].at # "idle" => reviewer[v].run # r
  BY DEF Stores, RunFree
<1>3. \A v \in Reviewer : reviewer[v].run \in SyncRun
  BY DEF SyncTypeOK, ReviewRow
<1>4. RunsLocked' /\ TextsLocked' /\ \A v \in Reviewer : Reviewing(v)'
  BY <1>2, <1>3, StoreFacts, ReviewsGoOn DEF Stores
<1>5. Analysed'
  BY StoreFacts DEF Analysed
<1>6. ReviewStatusTrue'
  <2> SUFFICES ASSUME NEW q \in SyncRun
               PROVE  /\ syncRun'[q].status = "COMPLETED" => PendingSlots(q)' = {}
                      /\ syncRun'[q].status = "NEEDS_REVIEW" => PendingSlots(q)' # {}
    BY DEF ReviewStatusTrue
  <2>1. CASE q # r
    BY <2>1, StoreFacts DEF ReviewStatusTrue, PendingSlots
  <2>2. CASE q = r
    <3>1. \A s \in Slot : item'[r][s].status = "PENDING" <=> s \in DOMAIN found
      BY StoreFacts DEF Stores
    <3>2. /\ DOMAIN found \subseteq Slot
          /\ syncRun'[r].status = IF DOMAIN found = {} THEN "COMPLETED" ELSE "NEEDS_REVIEW"
      BY StoreFacts
    <3>3. PendingSlots(r)' = {s \in Slot : item'[r][s].status = "PENDING"}
      BY DEF PendingSlots
    <3> QED BY <2>2, <3>1, <3>2, <3>3
  <2> QED BY <2>1, <2>2
<1>7. OneRunPerKey'
  <2>1. \A q \in SyncRun : syncRun'[q].key = syncRun[q].key
                           /\ (syncRun'[q].status # "NONE" => syncRun[q].status # "NONE")
    BY StoreFacts DEF Stores, IsOpen, OpenStatus
  <2> QED BY <2>1 DEF OneRunPerKey
<1> QED BY <1>1, <1>4, <1>5, <1>6, <1>7

LEMMA TextSteps ==
  ASSUME SyncInv, NEW t \in Target, EditTarget(t) \/ MoveTarget(t)
  PROVE  SyncInv'
<1> USE DEF SyncInv
<1>1. /\ TargetFree(t) /\ UNCHANGED <<syncRun, item, agent, reviewer>>
      /\ \A u \in Target \ {t} : design'[u] = design[u]
  BY DEF EditTarget, MoveTarget, SyncTypeOK
<1>0. design' \in [Target -> Design]
  <2>1. ASSUME NEW x \in Text, design' = [design EXCEPT ![t].text = x] PROVE design' \in [Target -> Design]
    BY <2>1 DEF SyncTypeOK, Design
  <2>2. CASE MoveTarget(t)
    <3> DEFINE i == ~design[t].inside
    <3>1. i \in BOOLEAN /\ design' = [design EXCEPT ![t].inside = i]
      BY <2>2 DEF MoveTarget
    <3> HIDE DEF i
    <3> QED BY <3>1 DEF SyncTypeOK, Design
  <2> QED BY <2>1, <2>2 DEF EditTarget
<1>2. \A v \in Reviewer : ReviewedTarget(v) \in Target
  BY DEF SyncTypeOK, ReviewRow, ItemRow, ReviewedTarget
<1>3. RunsLocked' /\ TextsLocked' /\ \A v \in Reviewer : Reviewing(v)'
  BY <1>1, <1>2, ReviewsGoOn DEF TargetFree
<1> QED BY <1>0, <1>1, <1>3 DEF SyncTypeOK, Analysed, ReviewStatusTrue, PendingSlots, OneRunPerKey

(* ------------------------------- Decisions ------------------------------- *)
(* A decision that goes on, begins or ends without writing.                    *)
LEMMA ReviewerOnly ==
  ASSUME SyncInv, NEW v \in Reviewer, UNCHANGED <<design, syncRun, item, agent>>,
         reviewer'[v] \in ReviewRow, reviewer' = [reviewer EXCEPT ![v] = reviewer'[v]],
         Reviewing(v)',
         reviewer'[v].at # "idle" =>
           \A u \in Reviewer \ {v} : reviewer[u].at # "idle" => reviewer[u].run # reviewer'[v].run,
         HasTarget(v)' =>
           \A u \in Reviewer \ {v} : HasTarget(u) => ReviewedTarget(u) # ReviewedTarget(v)'
  PROVE  SyncInv'
<1> USE DEF SyncInv
<1>1. \A u \in Reviewer \ {v} : reviewer'[u] = reviewer[u]
  BY DEF SyncTypeOK
<1>2. SyncTypeOK'
  BY DEF SyncTypeOK
<1>3. RunsLocked'
  BY <1>1 DEF RunsLocked
<1>4. \A u \in Reviewer \ {v} : /\ HasTarget(u)' = HasTarget(u)
                                 /\ ReviewedTarget(u)' = ReviewedTarget(u)
                                 /\ Reviewed(u)' = Reviewed(u)
  BY <1>1 DEF HasTarget, ReviewedTarget, Reviewed
<1>5. TextsLocked'
  BY <1>4 DEF TextsLocked
<1>6. ASSUME NEW u \in Reviewer \ {v} PROVE Reviewing(u)'
  BY <1>1, <1>4 DEF Reviewing, PendingSlots
<1> QED BY <1>2, <1>3, <1>5, <1>6 DEF Analysed, ReviewStatusTrue, PendingSlots, OneRunPerKey

LEMMA BeginStep ==
  ASSUME SyncInv, NEW v \in Reviewer, NEW r \in SyncRun, NEW s \in Slot, NEW d \in Decision,
         DecideSyncItem(v, r, s, d)
  PROVE  SyncInv'
<1> USE DEF SyncInv, SyncTypeOK
<1> DEFINE to == CASE d = "REJECT" -> "REJECTED" [] d = "DEFER" -> "DEFERRED" [] OTHER -> "PENDING"
           at == IF d = "APPLY" THEN "lock" ELSE "count"
<1>1. /\ RunFree(r) /\ reviewer[v].at = "idle" /\ Eligible(r, s, d)
      /\ UNCHANGED <<design, syncRun, item, agent>>
  BY DEF DecideSyncItem, BeginReview
<1>2. /\ \/ at = "lock" /\ to = "PENDING" /\ item[r][s].proposed # NoText
         \/ at = "count" /\ to \in {"REJECTED", "DEFERRED"}
      /\ item[r][s].status = "PENDING"
  <2>1. CASE d = "APPLY"
    BY <1>1, <2>1 DEF Eligible
  <2>2. CASE d = "REJECT"
    BY <1>1, <2>2 DEF Eligible
  <2>3. CASE d = "DEFER"
    BY <1>1, <2>3 DEF Eligible
  <2> QED BY <2>1, <2>2, <2>3 DEF Decision
<1>3. reviewer' = [reviewer EXCEPT ![v] = [reviewer[v] EXCEPT !.at = at, !.run = r, !.slot = s, !.to = to]]
  BY DEF DecideSyncItem, BeginReview
<1> HIDE DEF to, at
<1>4. /\ reviewer'[v].at = at /\ reviewer'[v].to = to /\ reviewer'[v].run = r /\ reviewer'[v].slot = s
      /\ reviewer'[v].result = reviewer[v].result
      /\ reviewer'[v] = [at |-> at, run |-> r, slot |-> s, to |-> to, result |-> reviewer[v].result]
      /\ reviewer' = [reviewer EXCEPT ![v] = reviewer'[v]]
  BY <1>3 DEF ReviewRow
<1>5. reviewer'[v] \in ReviewRow
  BY <1>2, <1>4 DEF ReviewRow, ItemStatus
<1>6. Reviewing(v)'
  BY <1>1, <1>2, <1>4 DEF Reviewing, Reviewed
<1>7. ~HasTarget(v)'
  BY <1>2, <1>4 DEF HasTarget
<1> QED BY <1>1, <1>4, <1>5, <1>6, <1>7, ReviewerOnly DEF RunFree

LEMMA ReviewEnds ==
  ASSUME SyncInv, NEW v \in Reviewer, ReviewDone(v), UNCHANGED <<design, syncRun, item, agent>>
  PROVE  SyncInv'
<1>1. reviewer'[v] = IdleReviewer /\ reviewer' = [reviewer EXCEPT ![v] = reviewer'[v]]
  BY DEF ReviewDone, SyncInv, SyncTypeOK
<1>2. Reviewing(v)' /\ ~HasTarget(v)'
  BY <1>1, NoValues DEF Reviewing, HasTarget
<1> QED BY <1>1, <1>2, NoValues, ReviewerOnly

LEMMA LockStep ==
  ASSUME SyncInv, NEW v \in Reviewer, LockTarget(v) PROVE SyncInv'
<1> USE DEF SyncInv, SyncTypeOK
<1>1. CASE ~design[ReviewedTarget(v)].inside
  BY <1>1, ReviewEnds DEF LockTarget
<1>2. CASE design[ReviewedTarget(v)].inside
  <2> DEFINE to == IF design[Reviewed(v).target].text = Reviewed(v).before THEN "APPLIED"
                   ELSE "DESIGN_CHANGED"
  <2>1. /\ UNCHANGED <<design, syncRun, item, agent>> /\ reviewer[v].at = "lock"
        /\ TargetFree(ReviewedTarget(v))
        /\ reviewer' = [reviewer EXCEPT ![v].at = "count", ![v].to = to]
    BY <1>2 DEF LockTarget, CompareWithAnalysis, Reviewed
  <2>2. /\ to \in {"APPLIED", "DESIGN_CHANGED"}
        /\ to = "APPLIED" <=> design[Reviewed(v).target].text = Reviewed(v).before
    OBVIOUS
  <2> HIDE DEF to
  <2>3. /\ reviewer'[v] = [reviewer[v] EXCEPT !.at = "count", !.to = to]
        /\ reviewer'[v].at = "count" /\ reviewer'[v].to = to
        /\ reviewer'[v].run = reviewer[v].run /\ reviewer'[v].slot = reviewer[v].slot
        /\ reviewer' = [reviewer EXCEPT ![v] = reviewer'[v]]
    BY <2>1 DEF ReviewRow
  <2>4. reviewer'[v] \in ReviewRow
    BY <2>2, <2>3 DEF ReviewRow, ItemStatus
  <2>5. Reviewed(v)' = Reviewed(v) /\ ReviewedTarget(v)' = ReviewedTarget(v)
        /\ ReviewedTarget(v) = Reviewed(v).target
    BY <2>1, <2>3 DEF Reviewed, ReviewedTarget
  <2>6. Reviewing(v)'
    <3>1. Reviewing(v)
      OBVIOUS
    <3> HIDE DEF Reviewed
    <3> QED BY <2>1, <2>2, <2>3, <2>5, <3>1 DEF Reviewing
  <2>7. \A u \in Reviewer \ {v} : HasTarget(u) => ReviewedTarget(u) # ReviewedTarget(v)'
    BY <2>1, <2>5 DEF TargetFree
  <2>8. \A u \in Reviewer \ {v} : reviewer[u].at # "idle" => reviewer[u].run # reviewer'[v].run
    BY <2>1, <2>3 DEF RunsLocked
  <2> QED BY <2>1, <2>3, <2>4, <2>6, <2>7, <2>8, ReviewerOnly
<1> QED BY <1>1, <1>2

LEMMA CountStep ==
  ASSUME SyncInv, NEW v \in Reviewer, CountPending(v) PROVE SyncInv'
<1> USE DEF SyncInv, SyncTypeOK
<1> DEFINE outcome == IF PendingSlots(reviewer[v].run) \ {reviewer[v].slot} = {} THEN "COMPLETED"
                      ELSE "NEEDS_REVIEW"
<1>1. /\ UNCHANGED <<design, syncRun, item, agent>> /\ reviewer[v].at = "count"
      /\ reviewer' = [reviewer EXCEPT ![v].at = "commit", ![v].result = outcome]
  BY DEF CountPending
<1>2. /\ outcome \in {"COMPLETED", "NEEDS_REVIEW"}
      /\ outcome = "COMPLETED" <=> PendingSlots(reviewer[v].run) \ {reviewer[v].slot} = {}
  OBVIOUS
<1> HIDE DEF outcome
<1>3. /\ reviewer'[v] = [reviewer[v] EXCEPT !.at = "commit", !.result = outcome]
      /\ reviewer'[v].at = "commit" /\ reviewer'[v].result = outcome
      /\ reviewer'[v].to = reviewer[v].to
      /\ reviewer'[v].run = reviewer[v].run /\ reviewer'[v].slot = reviewer[v].slot
      /\ reviewer' = [reviewer EXCEPT ![v] = reviewer'[v]]
  BY <1>1 DEF ReviewRow
<1>4. reviewer'[v] \in ReviewRow
  BY <1>2, <1>3 DEF ReviewRow
<1>5. /\ Reviewed(v)' = Reviewed(v) /\ ReviewedTarget(v)' = ReviewedTarget(v)
      /\ HasTarget(v)' = HasTarget(v)
      /\ PendingSlots(reviewer[v].run)' = PendingSlots(reviewer[v].run)
  BY <1>1, <1>3 DEF Reviewed, ReviewedTarget, HasTarget, PendingSlots
<1>6. Reviewing(v)'
  <2>1. Reviewing(v)
    OBVIOUS
  <2> HIDE DEF Reviewed, PendingSlots
  <2> QED BY <1>1, <1>2, <1>3, <1>5, <2>1 DEF Reviewing
<1>7. HasTarget(v)' => \A u \in Reviewer \ {v} : HasTarget(u) => ReviewedTarget(u) # ReviewedTarget(v)'
  BY <1>5 DEF TextsLocked
<1>8. \A u \in Reviewer \ {v} : reviewer[u].at # "idle" => reviewer[u].run # reviewer'[v].run
  BY <1>1, <1>3 DEF RunsLocked
<1> QED BY <1>1, <1>3, <1>4, <1>6, <1>7, <1>8, ReviewerOnly

(* What the last statement of a decision finds and writes.                     *)
Decided(v, r, s) ==
  /\ r = reviewer[v].run /\ s = reviewer[v].slot
  /\ r \in SyncRun /\ s \in Slot /\ reviewer[v].at = "commit" /\ reviewer[v] \in ReviewRow
  /\ item[r][s].status = "PENDING" /\ syncRun[r].status = "NEEDS_REVIEW"
  /\ reviewer[v].to \in {"APPLIED", "REJECTED", "DEFERRED", "DESIGN_CHANGED"}
  /\ reviewer[v].to = "APPLIED" => /\ item[r][s].proposed \in Text
                                  /\ design[item[r][s].target].text = item[r][s].before
  /\ reviewer[v].to = "DESIGN_CHANGED" => design[item[r][s].target].text # item[r][s].before
  /\ item' \in [SyncRun -> [Slot -> ItemRow]] /\ syncRun' \in [SyncRun -> RunRow]
  /\ \A q \in SyncRun \ {r} : item'[q] = item[q] /\ syncRun'[q] = syncRun[q]
  /\ \A i \in Slot \ {s} : item'[r][i] = item[r][i]
  /\ item'[r][s] = [item[r][s] EXCEPT !.status = reviewer[v].to]
  /\ syncRun'[r].status = reviewer[v].result /\ syncRun'[r].key = syncRun[r].key
  /\ design' = IF reviewer[v].to = "APPLIED"
                 THEN [design EXCEPT ![item[r][s].target].text = item[r][s].proposed]
                 ELSE design
  /\ reviewer' = [reviewer EXCEPT ![v] = IdleReviewer] /\ UNCHANGED agent

LEMMA CommitFacts ==
  ASSUME SyncInv, NEW v \in Reviewer, CommitReview(v)
  PROVE  Decided(v, reviewer[v].run, reviewer[v].slot)
<1> DEFINE r == reviewer[v].run
           s == reviewer[v].slot
<1> USE DEF SyncInv, SyncTypeOK
<1>1. /\ r \in SyncRun /\ s \in Slot /\ reviewer[v] \in ReviewRow /\ item[r][s] \in ItemRow
      /\ syncRun[r] \in RunRow
  BY DEF ReviewRow
<1>2. reviewer[v].at = "commit"
  BY DEF CommitReview
<1>3. /\ item[r][s].status = "PENDING" /\ reviewer[v].to # "PENDING"
      /\ reviewer[v].to = "APPLIED" =>
           item[r][s].proposed # NoText /\ design[item[r][s].target].text = item[r][s].before
      /\ reviewer[v].to = "DESIGN_CHANGED" => design[item[r][s].target].text # item[r][s].before
  BY <1>1, <1>2 DEF Reviewing, Reviewed
<1>4. s \in PendingSlots(r)
  BY <1>1, <1>3 DEF PendingSlots
<1>5. syncRun[r].status = "NEEDS_REVIEW"
  BY <1>1, <1>3, <1>4 DEF Analysed, ReviewStatusTrue
<1>6. /\ item' = [item EXCEPT ![r][s].status = reviewer[v].to]
      /\ syncRun' = [syncRun EXCEPT ![r].status = reviewer[v].result]
  BY DEF CommitReview
<1>7. item' = [item EXCEPT ![r] = [item[r] EXCEPT ![s] = [item[r][s] EXCEPT !.status = reviewer[v].to]]]
  BY <1>1, <1>6
<1>8. [item[r][s] EXCEPT !.status = reviewer[v].to] \in ItemRow
  BY <1>1 DEF ItemRow, ReviewRow
<1>9. item' \in [SyncRun -> [Slot -> ItemRow]]
  BY <1>1, <1>7, <1>8
<1>10. /\ syncRun' \in [SyncRun -> RunRow]
       /\ syncRun'[r].status = reviewer[v].result /\ syncRun'[r].key = syncRun[r].key
  BY <1>1, <1>6 DEF RunRow, ReviewRow
<1>11. reviewer[v].to = "APPLIED" => item[r][s].proposed \in Text
  BY <1>1, <1>3 DEF ItemRow
<1>12. reviewer[v].to \in {"APPLIED", "REJECTED", "DEFERRED", "DESIGN_CHANGED"}
  BY <1>1, <1>3 DEF ReviewRow, ItemStatus
<1>13. /\ design' = IF reviewer[v].to = "APPLIED"
                      THEN [design EXCEPT ![item[r][s].target].text = item[r][s].proposed]
                      ELSE design
       /\ reviewer' = [reviewer EXCEPT ![v] = IdleReviewer] /\ UNCHANGED agent
  BY DEF CommitReview, ReviewDone
<1>14. \A q \in SyncRun \ {r} : item'[q] = item[q] /\ syncRun'[q] = syncRun[q]
  BY <1>6
<1>15. /\ \A i \in Slot \ {s} : item'[r][i] = item[r][i]
       /\ item'[r][s] = [item[r][s] EXCEPT !.status = reviewer[v].to]
  BY <1>1, <1>7
<1> QED BY <1>1, <1>2, <1>3, <1>5, <1>9, <1>10, <1>11, <1>12, <1>13, <1>14, <1>15, Zenon DEF Decided

LEMMA ReviewCommits ==
  ASSUME SyncInv, NEW v \in Reviewer, CommitReview(v) PROVE SyncInv'
<1> USE DEF SyncInv
<1> SUFFICES ASSUME NEW r, NEW s, Decided(v, r, s) PROVE SyncInv'
  BY CommitFacts
<1>0. Decided(v, r, s)
  OBVIOUS
<1>a. /\ r = reviewer[v].run /\ s = reviewer[v].slot /\ r \in SyncRun /\ s \in Slot
      /\ reviewer[v].at = "commit" /\ reviewer[v] \in ReviewRow
      /\ reviewer[v].to \in {"APPLIED", "REJECTED", "DEFERRED", "DESIGN_CHANGED"}
      /\ reviewer' = [reviewer EXCEPT ![v] = IdleReviewer]
  BY <1>0, Zenon DEF Decided
<1>b. /\ \A q \in SyncRun \ {r} : item'[q] = item[q] /\ syncRun'[q] = syncRun[q]
      /\ \A i \in Slot \ {s} : item'[r][i] = item[r][i]
      /\ item[r][s].status = "PENDING" /\ item[r][s] \in ItemRow
      /\ item'[r][s].status = reviewer[v].to
  <2>1. item[r][s] \in ItemRow
    BY <1>a DEF SyncTypeOK
  <2>2. item'[r][s] = [item[r][s] EXCEPT !.status = reviewer[v].to]
    BY <1>0, Zenon DEF Decided
  <2>3. item'[r][s].status = reviewer[v].to
    BY <2>1, <2>2 DEF ItemRow
  <2> QED BY <1>0, <2>1, <2>3, Zenon DEF Decided
<1>c. /\ syncRun[r].status = "NEEDS_REVIEW" /\ syncRun'[r].key = syncRun[r].key
      /\ syncRun'[r].status = reviewer[v].result
      /\ reviewer[v].result \in {"COMPLETED", "NEEDS_REVIEW"}
  BY <1>0, <1>a, Zenon DEF Decided, ReviewRow
<1>d. /\ reviewer[v].to # "APPLIED" => design' = design
      /\ \A t \in Target \ {item[r][s].target} : design'[t] = design[t]
      /\ design' \in [Target -> Design]
  <2>1. CASE reviewer[v].to # "APPLIED"
    BY <1>0, <2>1, Zenon DEF Decided, SyncTypeOK
  <2>2. CASE reviewer[v].to = "APPLIED"
    <3>1. /\ design' = [design EXCEPT ![item[r][s].target].text = item[r][s].proposed]
          /\ item[r][s].proposed \in Text
      BY <1>0, <2>2, Zenon DEF Decided
    <3> QED BY <1>b, <2>2, <3>1 DEF SyncTypeOK, Design, ItemRow
  <2> QED BY <2>1, <2>2
<1>1. /\ \A u \in Reviewer \ {v} : reviewer'[u] = reviewer[u]
      /\ reviewer'[v].at = "idle" /\ reviewer'[v].to = "PENDING"
      /\ reviewer' \in [Reviewer -> ReviewRow]
  BY <1>a, NoValues DEF SyncTypeOK
<1>4. SyncTypeOK'
  BY <1>0, <1>1, <1>d, Zenon DEF SyncTypeOK, Decided
<1>5. PendingSlots(r)' = PendingSlots(r) \ {s}
  <2>1. \A q \in Slot : item'[r][q].status = "PENDING" <=> item[r][q].status = "PENDING" /\ q # s
    BY <1>a, <1>b
  <2> QED BY <2>1 DEF PendingSlots
<1>6. reviewer[v].result = "COMPLETED" <=> PendingSlots(r) \ {s} = {}
  BY <1>a DEF Reviewing
<1>8. ReviewStatusTrue'
  <2> SUFFICES ASSUME NEW q \in SyncRun
               PROVE  /\ syncRun'[q].status = "COMPLETED" => PendingSlots(q)' = {}
                      /\ syncRun'[q].status = "NEEDS_REVIEW" => PendingSlots(q)' # {}
    BY DEF ReviewStatusTrue
  <2>1. CASE q # r
    <3>1. PendingSlots(q)' = PendingSlots(q) /\ syncRun'[q] = syncRun[q]
      BY <1>b, <2>1 DEF PendingSlots
    <3> QED BY <3>1 DEF ReviewStatusTrue
  <2>2. CASE q = r
    BY <1>c, <1>5, <1>6, <2>2
  <2> QED BY <2>1, <2>2
<1>9. Analysed'
  BY <1>b, <1>c DEF Analysed
<1>10. OneRunPerKey'
  BY <1>b, <1>c DEF OneRunPerKey
<1>11. RunsLocked'
  BY <1>1 DEF RunsLocked
<1>12. ASSUME NEW u \in Reviewer \ {v}, reviewer[u].at # "idle"
       PROVE  /\ reviewer[u].run \in SyncRun /\ reviewer[u].run # r
              /\ Reviewed(u)' = Reviewed(u) /\ Reviewed(u).target \in Target
              /\ PendingSlots(reviewer[u].run)' = PendingSlots(reviewer[u].run)
  <2>1. reviewer[u].run # r
    BY <1>a, <1>12 DEF RunsLocked
  <2>2. reviewer[u].run \in SyncRun /\ reviewer[u].slot \in Slot
    BY DEF SyncTypeOK, ReviewRow
  <2>3. Reviewed(u).target \in Target
    BY <2>2 DEF SyncTypeOK, ItemRow, Reviewed
  <2> QED BY <1>1, <1>b, <2>1, <2>2, <2>3 DEF Reviewed, PendingSlots
<1>13. ASSUME NEW u \in Reviewer \ {v}, HasTarget(u)
       PROVE  reviewer[u].at # "idle" /\ design'[Reviewed(u).target] = design[Reviewed(u).target]
  <2>1. reviewer[u].at # "idle"
    BY <1>13 DEF Reviewing, HasTarget
  <2>2. CASE reviewer[v].to = "APPLIED"
    <3>1. Reviewed(u).target # item[r][s].target
      BY <1>a, <1>13, <2>2 DEF TextsLocked, HasTarget, ReviewedTarget, Reviewed
    <3> QED BY <1>d, <1>12, <2>1, <3>1
  <2>3. CASE reviewer[v].to # "APPLIED"
    BY <1>d, <2>1, <2>3
  <2> QED BY <2>1, <2>2, <2>3
<1>14. TextsLocked'
  <2>1. ~HasTarget(v)'
    BY <1>1 DEF HasTarget
  <2>2. \A u \in Reviewer \ {v} : HasTarget(u)' =>
          HasTarget(u) /\ ReviewedTarget(u)' = ReviewedTarget(u)
    BY <1>1, <1>12, <1>13 DEF HasTarget, ReviewedTarget, Reviewed
  <2> QED BY <2>1, <2>2 DEF TextsLocked
<1>15. ASSUME NEW u \in Reviewer PROVE Reviewing(u)'
  <2>1. CASE u = v
    BY <1>1, <2>1 DEF Reviewing
  <2>2. CASE u # v /\ reviewer[u].at = "idle"
    BY <1>1, <2>2 DEF Reviewing
  <2>3. CASE u # v /\ reviewer[u].at # "idle"
    <3>1. Reviewing(u) /\ reviewer'[u] = reviewer[u]
      BY <1>1, <2>3
    <3>2. reviewer[u].to \in {"APPLIED", "DESIGN_CHANGED"} =>
            design'[Reviewed(u).target] = design[Reviewed(u).target]
      BY <1>13, <2>3 DEF HasTarget
    <3>3. /\ Reviewed(u)' = Reviewed(u)
          /\ PendingSlots(reviewer[u].run)' = PendingSlots(reviewer[u].run)
      BY <1>12, <2>3
    <3> HIDE DEF Reviewed, PendingSlots
    <3> QED BY <3>1, <3>2, <3>3 DEF Reviewing
  <2> QED BY <2>1, <2>2, <2>3
<1> QED BY <1>4, <1>8, <1>9, <1>10, <1>11, <1>14, <1>15

(* --------------------------------- Theorems ------------------------------ *)
LEMMA SyncStep == SyncInv /\ [SyncNext]_syncVars => SyncInv'
<1> SUFFICES ASSUME SyncInv, [SyncNext]_syncVars PROVE SyncInv'
  OBVIOUS
<1>1. CASE UNCHANGED syncVars
  <2>1. UNCHANGED <<design, syncRun, item, agent, reviewer>>
    BY <1>1 DEF syncVars
  <2>2. SyncTypeOK'
    BY <2>1 DEF SyncInv, SyncTypeOK
  <2> QED BY <2>1, <2>2, OtherSteps
<1>2. ASSUME NEW a \in Agent, AgentNext(a) PROVE SyncInv'
  <2>1. CASE StoreResult(a)
    <3> DEFINE r == agent[a].run
    <3>1. r \in SyncRun /\ agent' \in [Agent -> AgentRow]
      BY <2>1, NoValues DEF StoreResult, AgentDone, SyncInv, SyncTypeOK, AgentRow
    <3>2. PICK found \in Findings(r) : Stores(r, found)
      BY <2>1 DEF StoreResult, Stores
    <3> QED BY <3>1, <3>2, StoreStep
  <2> QED BY <1>2, <2>1, AgentSteps DEF AgentNext
<1>3. ASSUME NEW v \in Reviewer, ReviewerNext(v) PROVE SyncInv'
  BY <1>3, BeginStep, LockStep, CountStep, ReviewCommits, ReviewEnds DEF ReviewerNext, ReviewDies
<1>4. ASSUME NEW r \in SyncRun, CancelSyncRun(r) PROVE SyncInv'
  <2>1. /\ syncRun' \in [SyncRun -> RunRow] /\ UNCHANGED <<design, item, agent, reviewer>>
        /\ \A q \in SyncRun : q # r => syncRun'[q] = syncRun[q]
        /\ IsOpen(r) /\ syncRun'[r].status = "CANCELLED" /\ syncRun'[r].key = syncRun[r].key
    BY <1>4 DEF CancelSyncRun, UpdateOpenRun, RunRow, SyncInv, SyncTypeOK
  <2>2. SyncTypeOK'
    BY <2>1 DEF SyncInv, SyncTypeOK
  <2> QED BY <2>1, <2>2, OtherSteps
<1> QED BY <1>1, <1>2, <1>3, <1>4, TextSteps DEF SyncNext

(* completeRunIfResolved, whatever number of people decide on the findings of  *)
(* a run at once and however many requests die: a COMPLETED run has nothing    *)
(* left to decide, and a run in review has something.                          *)
THEOREM ReviewsClose == SyncSpec => []ReviewStatusTrue
<1>1. SyncInv => ReviewStatusTrue
  BY DEF SyncInv
<1> QED BY <1>1, SyncInitInv, SyncStep, PTL DEF SyncSpec

(* startSyncRun: a start request that is repeated makes no second run, however *)
(* many agents repeat it and whenever they die.                                *)
THEOREM KeysAreRuns == SyncSpec => []OneRunPerKey
<1>1. SyncInv => OneRunPerKey
  BY DEF SyncInv
<1> QED BY <1>1, SyncInitInv, SyncStep, PTL DEF SyncSpec

(* A run that failed, was cancelled or is completed is not written again.      *)
LEMMA ClosedStep ==
  ASSUME SyncInv, SyncNext, NEW r \in SyncRun,
         syncRun[r].status \in {"FAILED", "CANCELLED", "COMPLETED"}
  PROVE  syncRun'[r] = syncRun[r] /\ item'[r] = item[r]
<1>1. ~IsOpen(r) /\ syncRun[r].status \notin {"NONE", "NEEDS_REVIEW"}
  BY DEF IsOpen, OpenStatus
<1>2. ASSUME NEW q, NEW status, UpdateOpenRun(q, status) PROVE syncRun'[r] = syncRun[r]
  BY <1>1, <1>2 DEF UpdateOpenRun, SyncInv, SyncTypeOK
<1>3. ASSUME NEW a \in Agent, AgentNext(a) PROVE syncRun'[r] = syncRun[r] /\ item'[r] = item[r]
  <2>1. CASE CreateRun(a)
    BY <1>1, <2>1 DEF CreateRun, CreatedRun, SyncInv, SyncTypeOK
  <2>2. CASE StoreResult(a)
    <3>1. PICK found \in Findings(agent[a].run) : Stores(agent[a].run, found)
      BY <2>2 DEF StoreResult, Stores
    <3>2. agent[a].run \in SyncRun /\ agent[a].run # r
      BY <1>1, <3>1 DEF Stores, SyncInv, SyncTypeOK, AgentRow
    <3> QED BY <3>1, <3>2 DEF Stores, StoredResult, SyncInv, SyncTypeOK
  <2> QED BY <1>2, <1>3, <2>1, <2>2
          DEF AgentNext, StartSyncRun, SubmitSyncResult, SubmitWithoutAnalysis, AgentDies
<1>4. ASSUME NEW v \in Reviewer, ReviewerNext(v) PROVE syncRun'[r] = syncRun[r] /\ item'[r] = item[r]
  <2>1. CASE CommitReview(v)
    <3>1. Decided(v, reviewer[v].run, reviewer[v].slot)
      BY <2>1, CommitFacts
    <3> QED BY <1>1, <3>1, Zenon DEF Decided
  <2> QED BY <1>4, <2>1
          DEF ReviewerNext, DecideSyncItem, BeginReview, LockTarget, CountPending, ReviewDies
<1> QED BY <1>2, <1>3, <1>4 DEF SyncNext, CancelSyncRun, EditTarget, MoveTarget

(* submitSyncResult and decideSyncItem: a result or a decision that was on its *)
(* way when the run was closed does not enter it.                              *)
THEOREM ClosedRuns == SyncSpec => ClosedStaysClosed
<1>1. SyncInv /\ [SyncNext]_syncVars =>
        [\A r \in SyncRun : syncRun[r].status \in {"FAILED", "CANCELLED", "COMPLETED"} =>
           syncRun'[r] = syncRun[r] /\ item'[r] = item[r]]_syncVars
  BY ClosedStep
<1> QED BY <1>1, SyncInitInv, SyncStep, PTL DEF SyncSpec, ClosedStaysClosed

(* ------------------------------- Refinement ------------------------------ *)
Words == [t \in Target |-> design[t].text]
VerdictOn(r, s) == VerdictOf(item[r][s].status)
Proposed(p) == [about |-> item[p[1]][p[2]].target, basis |-> item[p[1]][p[2]].before,
                text |-> item[p[1]][p[2]].proposed, verdict |-> VerdictOn(p[1], p[2])]
Proposals == [p \in SyncRun \X Slot |-> Proposed(p)]

(* Nothing that a review is about has changed.                                 *)
LEMMA Stutters ==
  ASSUME Words' = Words, UNCHANGED item
  PROVE  UNCHANGED Review!guardedVars
<1>1. Proposals' = Proposals
  BY DEF Proposals, Proposed, VerdictOn
<1> QED BY <1>1 DEF Review!guardedVars, Words, Proposals, Proposed, VerdictOn

LEMMA EditsMap ==
  ASSUME SyncInv, NEW t \in Target, EditTarget(t)
  PROVE  Review!Edit(t)
<1>1. PICK x \in Text : design' = [design EXCEPT ![t].text = x]
  BY DEF EditTarget
<1>2. Words' = [Words EXCEPT ![t] = x]
  BY <1>1 DEF SyncInv, SyncTypeOK, Design, Words
<1>3. Proposals' = Proposals
  BY DEF EditTarget, Proposals, Proposed, VerdictOn
<1> QED BY <1>2, <1>3 DEF Review!Edit, Words, Proposals, Proposed, VerdictOn

LEMMA StoresMap ==
  ASSUME SyncInv, NEW r \in SyncRun, NEW found, Stores(r, found)
  PROVE  Review!Propose
<1>1. Words' = Words
  BY DEF Stores, Words
<1>2. ASSUME NEW p \in SyncRun \X Slot
      PROVE  \/ Proposals'[p] = Proposals[p]
             \/ Proposals[p].verdict = "NONE" /\ Proposals'[p].verdict = "OPEN"
  <2>1. PICK q \in SyncRun, s \in Slot : p[1] = q /\ p[2] = s
    BY <1>2
  <2>2. CASE item'[q][s] = item[q][s]
    BY <2>1, <2>2 DEF Proposals, Proposed, VerdictOn
  <2>3. CASE item'[q][s] # item[q][s]
    <3>1. q = r /\ s \in DOMAIN found /\ item'[q][s].status = "PENDING"
      BY <2>3, StoreFacts
    <3>2. item[q][s].status = "NONE"
      BY <3>1 DEF Stores
    <3> QED BY <2>1, <3>1, <3>2 DEF Proposals, Proposed, VerdictOn, VerdictOf
  <2> QED BY <2>2, <2>3
<1> QED BY <1>1, <1>2 DEF Review!Propose, Review!Unmade, Words, Proposals, Proposed, VerdictOn

LEMMA DecisionsMap ==
  ASSUME SyncInv, NEW v \in Reviewer, CommitReview(v)
  PROVE  \E p \in SyncRun \X Slot : Review!Apply(p) \/ Review!Outdate(p) \/ Review!Decline(p)
<1> SUFFICES ASSUME NEW r, NEW s, Decided(v, r, s), NEW p, p = <<r, s>>
             PROVE  p \in SyncRun \X Slot /\ (Review!Apply(p) \/ Review!Outdate(p) \/ Review!Decline(p))
  BY CommitFacts
<1>1. r \in SyncRun /\ s \in Slot /\ p \in SyncRun \X Slot /\ p[1] = r /\ p[2] = s
  BY Zenon DEF Decided
<1>2. item[r][s] \in ItemRow
  BY <1>1 DEF SyncInv, SyncTypeOK
<1> DEFINE verdict == VerdictOf(reviewer[v].to)
<1>3. Proposals' = [Proposals EXCEPT ![p].verdict = verdict]
  <2>1. ASSUME NEW q \in SyncRun \X Slot, q # p PROVE Proposals'[q] = Proposals[q]
    <3>1. PICK i \in SyncRun, j \in Slot : q = <<i, j>>
      BY <2>1
    <3>2. i # r \/ j # s
      BY <2>1, <3>1
    <3>3. item'[i][j] = item[i][j]
      <4>1. /\ \A k \in SyncRun \ {r} : item'[k] = item[k]
            /\ \A k \in Slot \ {s} : item'[r][k] = item[r][k]
        BY Zenon DEF Decided
      <4> QED BY <3>2, <4>1
    <3>4. item'[q[1]][q[2]] = item[q[1]][q[2]]
      BY <3>1, <3>3
    <3> QED BY <2>1, <3>4 DEF Proposals, Proposed, VerdictOn
  <2>2. Proposals'[p] = [Proposals[p] EXCEPT !.verdict = verdict]
    <3>1. item'[r][s] = [item[r][s] EXCEPT !.status = reviewer[v].to]
      BY Zenon DEF Decided
    <3>2. /\ item'[r][s].status = reviewer[v].to /\ item'[r][s].target = item[r][s].target
          /\ item'[r][s].before = item[r][s].before /\ item'[r][s].proposed = item[r][s].proposed
      BY <1>2, <3>1 DEF ItemRow
    <3>3. /\ Proposals'[p] = [about |-> item[r][s].target, basis |-> item[r][s].before,
                              text |-> item[r][s].proposed, verdict |-> verdict]
          /\ Proposals[p] = [about |-> item[r][s].target, basis |-> item[r][s].before,
                             text |-> item[r][s].proposed, verdict |-> VerdictOf(item[r][s].status)]
      BY <1>1, <3>2 DEF Proposals, Proposed, VerdictOn
    <3> QED BY <3>3
  <2> QED BY <1>1, <2>1, <2>2 DEF Proposals
<1>4. Proposals[p].verdict = "OPEN"
  BY <1>1, Zenon DEF Decided, Proposals, Proposed, VerdictOn, VerdictOf
<1>5. ASSUME NEW w, verdict = w PROVE Review!Verdict(p, w)
  <2>1. Proposals' = [Proposals EXCEPT ![p].verdict = w]
    BY <1>3, <1>5
  <2> QED BY <1>4, <2>1, Zenon DEF Review!Verdict, Proposals, Proposed, VerdictOn
<1>6. /\ Proposals[p].about = item[r][s].target /\ Proposals[p].basis = item[r][s].before
      /\ Proposals[p].text = item[r][s].proposed /\ item[r][s].target \in Target
  BY <1>1, <1>2 DEF Proposals, Proposed, ItemRow
<1>7. CASE reviewer[v].to = "APPLIED"
  <2>1. Words[Proposals[p].about] = Proposals[p].basis
    BY <1>6, <1>7, Zenon DEF Decided, Words
  <2>2. design' = [design EXCEPT ![item[r][s].target].text = item[r][s].proposed]
    BY <1>7, Zenon DEF Decided
  <2>3. Words' = [Words EXCEPT ![item[r][s].target] = item[r][s].proposed]
    BY <1>6, <2>2 DEF Words, SyncInv, SyncTypeOK, Design
  <2>4. Words' = [Words EXCEPT ![Proposals[p].about] = Proposals[p].text]
    BY <1>6, <2>3
  <2>5. Review!Verdict(p, "APPLIED")
    BY <1>5, <1>7 DEF VerdictOf
  <2>6. Review!Apply(p)
    BY <2>1, <2>4, <2>5, Zenon DEF Review!Apply, Words, Proposals, Proposed, VerdictOn
  <2> QED BY <1>1, <2>6
<1>8. CASE reviewer[v].to = "DESIGN_CHANGED"
  <2>1. Words[Proposals[p].about] # Proposals[p].basis /\ Words' = Words
    BY <1>6, <1>8, Zenon DEF Decided, Words
  <2>2. Review!Verdict(p, "OUTDATED")
    BY <1>5, <1>8 DEF VerdictOf
  <2>3. Review!Outdate(p)
    BY <2>1, <2>2, Zenon DEF Review!Outdate, Words, Proposals, Proposed, VerdictOn
  <2> QED BY <1>1, <2>3
<1>9. CASE reviewer[v].to \in {"REJECTED", "DEFERRED"}
  <2>1. Words' = Words
    BY <1>9, Zenon DEF Decided, Words
  <2>2. Review!Verdict(p, "DECLINED")
    BY <1>5, <1>9 DEF VerdictOf
  <2>3. Review!Decline(p)
    BY <2>1, <2>2 DEF Review!Decline, Words
  <2> QED BY <1>1, <2>3
<1> QED BY <1>7, <1>8, <1>9, Zenon DEF Decided

LEMMA SyncMaps ==
  ASSUME SyncInv, [SyncNext]_syncVars PROVE [Review!GuardedNext]_Review!guardedVars
<1>1. ASSUME NEW a \in Agent, AgentNext(a) PROVE [Review!GuardedNext]_Review!guardedVars
  <2>1. CASE StoreResult(a)
    <3>1. PICK found \in Findings(agent[a].run) : Stores(agent[a].run, found)
      BY <2>1 DEF StoreResult, Stores
    <3>2. agent[a].run \in SyncRun
      BY DEF SyncInv, SyncTypeOK, AgentRow
    <3> QED BY <3>1, <3>2, StoresMap DEF Review!GuardedNext
  <2>2. CASE ~StoreResult(a)
    <3>1. UNCHANGED <<design, item>>
      BY <1>1, <2>2 DEF AgentNext, StartSyncRun, CreateRun, SubmitSyncResult, SubmitWithoutAnalysis, AgentDies
    <3> QED BY <3>1, Stutters DEF Words
  <2> QED BY <2>1, <2>2
<1>2. ASSUME NEW v \in Reviewer, ReviewerNext(v) PROVE [Review!GuardedNext]_Review!guardedVars
  <2>1. CASE CommitReview(v)
    BY <2>1, DecisionsMap DEF Review!GuardedNext
  <2>2. CASE ~CommitReview(v)
    <3>1. UNCHANGED <<design, item>>
      BY <1>2, <2>2 DEF ReviewerNext, DecideSyncItem, BeginReview, LockTarget, CountPending, ReviewDies
    <3> QED BY <3>1, Stutters DEF Words
  <2> QED BY <2>1, <2>2
<1>3. ASSUME NEW t \in Target, MoveTarget(t) PROVE [Review!GuardedNext]_Review!guardedVars
  <2>1. Words' = Words /\ UNCHANGED item
    BY <1>3 DEF MoveTarget, Words, SyncInv, SyncTypeOK, Design
  <2> QED BY <2>1, Stutters
<1>4. ASSUME NEW t \in Target, EditTarget(t) PROVE [Review!GuardedNext]_Review!guardedVars
  BY <1>4, EditsMap DEF Review!GuardedNext
<1>5. ASSUME UNCHANGED <<design, item>> PROVE [Review!GuardedNext]_Review!guardedVars
  BY <1>5, Stutters DEF Words
<1> QED BY <1>1, <1>2, <1>3, <1>4, <1>5 DEF SyncNext, CancelSyncRun, syncVars

LEMMA SyncInitMaps == SyncInit => Review!GuardedInit
<1> SUFFICES ASSUME SyncInit PROVE Review!GuardedInit
  OBVIOUS
<1>1. Words \in [Target -> Text]
  BY DEF SyncInit, Words
<1>2. \A p \in SyncRun \X Slot : Proposals[p].verdict = "NONE"
  BY NoValues DEF SyncInit, Proposals, Proposed, VerdictOn, VerdictOf
<1> QED BY <1>1, <1>2 DEF Review!GuardedInit, Review!Unmade, Words, Proposals, Proposed, VerdictOn

(* decideSyncItem implements a guarded edit: the transaction of several        *)
(* statements, racing edits, other decisions and dying requests, writes a      *)
(* finding exactly over the text it was derived from, or not at all.           *)
THEOREM ReviewImplemented == SyncSpec => AppliedOverAnalysed
<1> QED BY SyncInitInv, SyncStep, SyncInitMaps, SyncMaps, PTL
        DEF SyncSpec, AppliedOverAnalysed, Review!GuardedSpec
===============================================================================

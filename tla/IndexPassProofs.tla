--------------------------- MODULE IndexPassProofs ---------------------------
(***************************************************************************)
(* Theorems of IndexPass, for every configuration and every artifact set.  *)
(*                                                                         *)
(* IInv is the inductive invariant: types, the facts a handler's first     *)
(* statements establish for the later ones (HandlerInv), and the claim.    *)
(***************************************************************************)
EXTENDS IndexPass, Integers, TLAPS

(***************************************************************************)
(* Files and identities.                                                   *)
(***************************************************************************)
LEMMA WorkTyped ==
    ASSUME TypeOK
    PROVE  /\ Work("results") \in Seq(ResultFiles)
           /\ Work("waves") \in Seq(WaveFiles)
           /\ Work("assertions") \in Seq(AssertFiles)
           /\ Work("log_assertions") \in Seq(ResultFiles)
           /\ Work("coverage") \in Seq(CoverageFiles)
           /\ Work("sva") \in Seq(SvaFiles)
<1>1. /\ scan.results \in Seq(ResultFiles) /\ scan.waves \in Seq(WaveFiles)
      /\ scan.asserts \in Seq(AssertFiles) /\ scan.coverage \in Seq(CoverageFiles)
      /\ scan.sva \in Seq(SvaFiles)
  BY CorporaTyped DEF TypeOK, CorpusType
<1>2. \A S : << >> \in Seq(S)
  OBVIOUS
<1> QED BY <1>1, <1>2 DEF Work

LEMMA FileTyped ==
    \A f \in ResultFiles :
        /\ f.kind \in Frameworks
        /\ \A i \in DOMAIN f.cases : f.cases[i] \in Testcases
        /\ \A k \in DOMAIN f.fails : f.fails[k] \in Occurrences
        /\ \A k \in DOMAIN f.asserts : f.asserts[k] \in AssertionEvents
<1> SUFFICES ASSUME NEW f \in ResultFiles
             PROVE  /\ f.kind \in Frameworks
                    /\ \A i \in DOMAIN f.cases : f.cases[i] \in Testcases
                    /\ \A k \in DOMAIN f.fails : f.fails[k] \in Occurrences
                    /\ \A k \in DOMAIN f.asserts : f.asserts[k] \in AssertionEvents
  OBVIOUS
<1>1. /\ f.kind \in Frameworks /\ f.cases \in Seq(Testcases)
      /\ f.fails \in Seq(Occurrences) /\ f.asserts \in Seq(AssertionEvents)
  BY DEF ResultFiles
<1> QED BY <1>1

LEMMA RunOfTyped == \A f \in ResultFiles : RunOf(f) \in RunIds
BY DEF ResultFiles, RunOf, RunIdOf, RunIds

LEMMA TestIdTyped ==
    \A f \in ResultFiles : \A i \in DOMAIN f.cases :
        TestIdOf(f, i) \in TestIds /\ TestIdOf(f, i).run = RunOf(f)
<1> SUFFICES ASSUME NEW f \in ResultFiles, NEW i \in DOMAIN f.cases
             PROVE  TestIdOf(f, i) \in TestIds /\ TestIdOf(f, i).run = RunOf(f)
  OBVIOUS
<1>1. f.cases[i].name \in Names /\ f.kind \in Frameworks
  BY FileTyped DEF Testcases
<1> QED BY <1>1, RunOfTyped DEF TestIdOf, TestIds

LEMMA StatusTyped ==
    \A f \in ResultFiles : /\ FileStatus(f) \in Statuses
                           /\ \A i \in DOMAIN f.cases : CaseStatus(f, i) \in Statuses
<1> SUFFICES ASSUME NEW f \in ResultFiles
             PROVE  /\ FileStatus(f) \in Statuses
                    /\ \A i \in DOMAIN f.cases : CaseStatus(f, i) \in Statuses
  OBVIOUS
<1>1. \A i \in DOMAIN f.cases : f.cases[i].status \in Statuses
  BY FileTyped DEF Testcases
<1> QED BY <1>1 DEF FileStatus, CaseStatus, Statuses

LEMMA FailureTyped ==
    \A f \in ResultFiles : \A i \in DOMAIN f.cases : \A k \in FailuresOf(f, i) :
        /\ f.fails[k].occ \in Nat
        /\ f.fails[k].refs \in Seq(Refs)
        /\ FailureIdOf(TestIdOf(f, i), f.fails[k]) \in FailureIds
        /\ FailureIdOf(TestIdOf(f, i), f.fails[k]).test = TestIdOf(f, i)
<1> SUFFICES ASSUME NEW f \in ResultFiles, NEW i \in DOMAIN f.cases, NEW k \in FailuresOf(f, i)
             PROVE  /\ f.fails[k].occ \in Nat
                    /\ f.fails[k].refs \in Seq(Refs)
                    /\ FailureIdOf(TestIdOf(f, i), f.fails[k]) \in FailureIds
                    /\ FailureIdOf(TestIdOf(f, i), f.fails[k]).test = TestIdOf(f, i)
  OBVIOUS
<1>1. k \in DOMAIN f.fails
  BY DEF FailuresOf
<1>2. f.fails[k] \in Occurrences
  BY <1>1, FileTyped
<1> QED BY <1>2, TestIdTyped DEF Occurrences, FailureIdOf, FailureIds

(***************************************************************************)
(* The run row: written first, kept failed.                                *)
(***************************************************************************)
UniqueRuns == \A r, s \in runs : r.id = s.id => r = s

LEMMA UpsertRunFacts ==
    ASSUME runs \subseteq RunRows, NEW id \in RunIds, NEW st \in Statuses, UpsertRun(id, st)
    PROVE  /\ runs' \subseteq RunRows
           /\ \E r \in runs' : r.id = id /\ (st = "fail" => r.status = "fail")
           /\ \A r \in runs : \E s \in runs' :
                  s.id = r.id /\ (r.status = "fail" => s.status = "fail")
           /\ \A s \in runs' : s.id # id => s \in runs
           /\ \A s \in runs' : (s.id = id /\ s.status = "pass") =>
                  st = "pass" /\ \A r \in runs : r.id = id => r.status = "pass"
           /\ UniqueRuns => UniqueRuns'
<1> DEFINE new == [id |-> id, status |-> IF \E r \in RowsWith(runs, id) : r.status = "fail"
                                        THEN "fail" ELSE st]
<1>1. runs' = {r \in runs : r.id # id} \cup {new}
  BY DEF UpsertRun, Upsert
<1>2. new \in RunRows /\ new.id = id /\ (st = "fail" => new.status = "fail")
  BY DEF RunRows, Statuses
<1>3. \A r \in runs : r.id = id /\ r.status = "fail" => new.status = "fail"
  BY DEF RowsWith
<1>4. new.status = "pass" => st = "pass" /\ \A r \in runs : r.id = id => r.status = "pass"
  BY DEF RowsWith, RunRows, Statuses
<1> HIDE DEF new
<1>5. \A r \in runs : \E s \in runs' : s.id = r.id /\ (r.status = "fail" => s.status = "fail")
  BY <1>1, <1>2, <1>3
<1>6. UniqueRuns => UniqueRuns'
  BY <1>1, <1>2 DEF UniqueRuns
<1> QED BY <1>1, <1>2, <1>4, <1>5, <1>6

(***************************************************************************)
(* Types.                                                                  *)
(***************************************************************************)
LEMMA OpenTyped ==
    ASSUME NEW ph \in {"idle", "unlink", "connect", "close"} \cup Phases, NEW p \in Nat \ {0},
           Open(ph, p)
    PROVE  /\ phase' \in {"idle", "unlink", "connect", "close"} \cup Phases
           /\ stage' = "open" /\ stage' \in StagesOf(phase)'
           /\ pos' \in Nat \ {0} /\ item' \in Nat \ {0} /\ ref' \in Nat \ {0}
           /\ left' \subseteq Nat
           /\ target' \in TestIds \cup {None}
BY DEF Open, Goto, StagesOf

LEMMA TypeInit == Init => TypeOK
<1> SUFFICES ASSUME Init PROVE TypeOK
  OBVIOUS
<1>1. \A S : << >> \in Seq(S)
  OBVIOUS
<1> QED BY <1>1 DEF Init, TypeOK, StagesOf

\* The file under the cursor, in each phase.
LEMMA CurrentFile ==
    ASSUME TypeOK, pos \in DOMAIN Work(phase)
    PROVE  /\ phase \in {"results", "log_assertions"} => File \in ResultFiles
           /\ phase = "waves" => File \in WaveFiles
           /\ phase = "assertions" => File \in AssertFiles
           /\ phase = "coverage" => File \in CoverageFiles
           /\ phase = "sva" => File \in SvaFiles
BY WorkTyped DEF File

LEMMA FindTestTyped ==
    ASSUME TypeOK, NEW q, NEW fw
    PROVE  /\ FindTest(q, fw) \in Ids(tests) \cup {None}
           /\ ResolveTest(q, fw) \in Ids(tests) \cup {None}
<1>1. \A g : FindTestByName(q, g) \in Ids(tests) \cup {None}
  <2> SUFFICES ASSUME NEW g, BestMatches(q, g) # {}
               PROVE  FindTestByName(q, g) \in Ids(tests)
    BY DEF FindTestByName
  <2>1. (CHOOSE t \in BestMatches(q, g) : TRUE) \in BestMatches(q, g)
    OBVIOUS
  <2>2. BestMatches(q, g) \subseteq tests
    BY DEF BestMatches, Matches
  <2> QED BY <2>1, <2>2 DEF FindTestByName, Ids
<1> QED BY <1>1 DEF FindTest, ResolveTest

LEMMA IdsTyped == TypeOK => Ids(tests) \subseteq TestIds
BY DEF TypeOK, Ids, TestRows

LEMMA TypeStep ==
    ASSUME TypeOK, HandlerInv, [Next]_vars
    PROVE  TypeOK'
<1> USE DEF cursor, results, correlated, tables
<1> DEFINE CursorTyped == /\ phase \in {"idle", "unlink", "connect", "close"} \cup Phases
                          /\ stage \in StagesOf(phase)
                          /\ pos \in Nat \ {0} /\ item \in Nat \ {0} /\ ref \in Nat \ {0}
                          /\ left \subseteq Nat
                          /\ target \in TestIds \cup {None}
           TablesTyped == /\ runs \subseteq RunRows /\ tests \subseteq TestRows
                          /\ topologies \subseteq TestIds /\ failures \subseteq FailureRows
                          /\ evidence \subseteq EvidenceRows /\ assertions \subseteq AssertionIds
                          /\ assertion_failures \in Seq(AssertionFailureRows)
                          /\ waveforms \subseteq [id : TestIds, src : Paths]
                          /\ coverage \in Seq(CoverageRows) /\ sva \in Seq(SvaRows)
<1>0. CursorTyped /\ TablesTyped
  BY DEF TypeOK
<1> SUFFICES /\ corpus' \in Corpora /\ scan' \in Corpora
             /\ db' \in {"absent", "present"} /\ whole' \in Corpora \cup {None}
             /\ CursorTyped' /\ TablesTyped'
  BY DEF TypeOK
<1>1. CASE UNCHANGED vars
  BY <1>0, <1>1 DEF vars, TypeOK
<1>2. CASE Export
  BY <1>0, <1>2 DEF Export, TypeOK
<1>3. CASE Scan
  BY <1>0, <1>3, OpenTyped DEF Scan, TypeOK
<1>4. CASE Crash
  BY <1>0, <1>4, OpenTyped DEF Crash, Stop, TypeOK
<1>5. CASE Unlink
  <2>1. \A S : << >> \in Seq(S)
    OBVIOUS
  <2> QED BY <1>0, <1>5, <2>1, OpenTyped DEF Unlink, TypeOK
<1>6. CASE Connect
  BY <1>0, <1>6, OpenTyped DEF Connect, Phases, TypeOK
<1>7. CASE NextPhase
  <2>1. PhaseAfter[phase] \in {"idle", "unlink", "connect", "close"} \cup Phases
    BY <1>7 DEF NextPhase, PhaseAfter, Phases
  <2>2. \E ph \in {"idle", "unlink", "connect", "close"} \cup Phases : Open(ph, 1)
    BY <1>7, <2>1 DEF NextPhase
  <2>3. CursorTyped'
    BY <2>2, OpenTyped
  <2> QED BY <1>0, <1>7, <2>3 DEF NextPhase, TypeOK
<1>8. CASE Close
  BY <1>0, <1>8, OpenTyped DEF Close, TypeOK
<1>9. CASE SkipFile
  BY <1>0, <1>9, OpenTyped DEF SkipFile, NextFile, TypeOK
<1>10. CASE AbortOnFile \/ AbortOnSva
  BY <1>0, <1>10, OpenTyped DEF AbortOnFile, AbortOnSva, Stop, TypeOK
<1>11. CASE IndexResults
  <2>1. phase = "results" /\ pos \in DOMAIN Work(phase) /\ File \in ResultFiles
    <3>1. phase = "results" /\ (stage = "open" => pos \in DOMAIN Work(phase))
      BY <1>11 DEF IndexResults, IndexUvmLog, IndexCocotbXml, OpenResults, Opening, At,
         InsertTest, InsertTopology, InsertFailure, DeleteEvidence, InsertEvidence, EndFailure, EndTest
    <3>2. pos \in DOMAIN Work(phase)
      BY <3>1 DEF HandlerInv
    <3> QED BY <3>1, <3>2, CurrentFile
  <2>2. stage # "open" => /\ item \in DOMAIN File.cases /\ left \subseteq FailuresOf(File, item)
    BY <2>1 DEF HandlerInv, InResultsFile
  <2>3. FailuresOf(File, item) \subseteq Nat
    BY <2>1 DEF FailuresOf, ResultFiles
  <2>4. CASE IndexUvmLog \/ IndexCocotbXml
    <3>1. UpsertRun(RunOf(File), FileStatus(File))
      BY <2>4 DEF IndexUvmLog, IndexCocotbXml, OpenResults
    <3>2. runs' \subseteq RunRows
      BY <1>0, <2>1, <3>1, RunOfTyped, StatusTyped, UpsertRunFacts
    <3> QED BY <1>0, <2>1, <2>4, <3>2
            DEF IndexUvmLog, IndexCocotbXml, OpenResults, Stay, Goto, StagesOf, TypeOK
  <2>5. CASE InsertTest
    <3>1. stage # "open"
      BY <2>5 DEF InsertTest, At
    <3>2. [id |-> TestIdOf(File, item), status |-> CaseStatus(File, item),
           seed |-> File.cases[item].seed, at |-> pos] \in TestRows
      BY <1>0, <2>1, <2>2, <3>1, TestIdTyped, StatusTyped, FileTyped DEF TestRows, Testcases
    <3>3. tests' \subseteq TestRows
      BY <1>0, <2>5, <3>2 DEF InsertTest, Upsert
    <3> QED BY <1>0, <2>1, <2>3, <2>5, <3>3 DEF InsertTest, Stay, Goto, StagesOf, TypeOK
  <2>6. CASE InsertTopology
    <3>1. TestIdOf(File, item) \in TestIds
      BY <2>1, <2>2, <2>6, TestIdTyped DEF InsertTopology, At
    <3> QED BY <1>0, <2>1, <2>6, <3>1 DEF InsertTopology, Stay, Goto, StagesOf, TypeOK
  <2>7. CASE InsertFailure
    <3>1. stage # "open"
      BY <2>7 DEF InsertFailure, At
    <3>2. PICK k \in Least(left) :
             failures' = Upsert(failures, [id |-> FailureIdAt(k), run |-> RunOf(File),
                                           occ |-> File.fails[k].occ])
      BY <2>7 DEF InsertFailure
    <3>3. k \in FailuresOf(File, item)
      BY <2>2, <3>1, <3>2 DEF Least
    <3>4. [id |-> FailureIdAt(k), run |-> RunOf(File), occ |-> File.fails[k].occ] \in FailureRows
      BY <2>1, <2>2, <3>1, <3>3, FailureTyped, RunOfTyped DEF FailureRows, FailureIdAt
    <3>5. failures' \subseteq FailureRows
      BY <1>0, <3>2, <3>4 DEF Upsert
    <3> QED BY <1>0, <2>1, <2>7, <3>5 DEF InsertFailure, Stay, Goto, StagesOf, TypeOK
  <2>8. CASE DeleteEvidence
    <3>1. evidence' \subseteq evidence
      BY <2>8 DEF DeleteEvidence
    <3> QED BY <1>0, <2>1, <2>8, <3>1 DEF DeleteEvidence, Stay, Goto, StagesOf, TypeOK
  <2>9. CASE InsertEvidence
    <3>1. stage # "open"
      BY <2>9 DEF InsertEvidence, At
    <3>2. PICK k \in Least(left) :
             /\ ref \in DOMAIN File.fails[k].refs
             /\ AddEvidence(FailureOwner(FailureIdAt(k)), File.fails[k].refs[ref])
      BY <2>9 DEF InsertEvidence
    <3>3. k \in FailuresOf(File, item)
      BY <2>2, <3>1, <3>2 DEF Least
    <3>4. FailureIdAt(k) \in FailureIds /\ File.fails[k].refs[ref] \in Refs
      BY <2>1, <2>2, <3>1, <3>2, <3>3, FailureTyped DEF FailureIdAt
    <3>5. [owner |-> FailureOwner(FailureIdAt(k)), ref |-> File.fails[k].refs[ref]] \in EvidenceRows
      BY <3>4 DEF EvidenceRows, FailureOwner
    <3>6. evidence' \subseteq EvidenceRows
      BY <1>0, <3>2, <3>5 DEF AddEvidence
    <3> QED BY <1>0, <2>9, <3>6 DEF InsertEvidence, TypeOK
  <2>10. CASE EndFailure
    BY <1>0, <2>1, <2>10 DEF EndFailure, Stay, Goto, StagesOf, TypeOK
  <2>11. CASE EndTest
    <3>1. CASE item < Len(File.cases)
      BY <1>0, <2>1, <2>11, <3>1 DEF EndTest, Stay, Goto, StagesOf, TypeOK
    <3>2. CASE ~(item < Len(File.cases))
      BY <1>0, <2>1, <2>11, <3>2, OpenTyped DEF EndTest, NextFile, Phases, TypeOK
    <3> QED BY <3>1, <3>2
  <2> QED BY <1>11, <2>4, <2>5, <2>6, <2>7, <2>8, <2>9, <2>10, <2>11 DEF IndexResults
<1>12. CASE Correlate
  <2> USE DEF StagesOf
  <2>1. stage # "open" => pos \in DOMAIN Work(phase)
    BY DEF HandlerInv
  <2>2. stage \in {"bundle", "event", "event_evidence"} =>
          /\ phase \in {"assertions", "log_assertions"} /\ target \in TestIds
    BY <1>0, IdsTyped DEF HandlerInv
  <2>3. CASE IndexWaveformSummary
    <3>1. phase = "waves" /\ pos \in DOMAIN Work(phase) /\ File.path \in Paths
      BY <2>3, CurrentFile DEF IndexWaveformSummary, Opening, WaveFiles
    <3>2. waveforms' \subseteq [id : TestIds, src : Paths]
      BY <1>0, <2>3, <3>1, FindTestTyped, IdsTyped DEF IndexWaveformSummary, Upsert
    <3>3. /\ Open(phase, pos + 1)
          /\ UNCHANGED <<corpus, scan, db, whole, runs, tests, topologies, failures, evidence,
                         assertions, assertion_failures, coverage, sva>>
      BY <2>3 DEF IndexWaveformSummary, NextFile
    <3>4. CursorTyped'
      BY <1>0, <3>1, <3>3, OpenTyped DEF Phases
    <3>5. TablesTyped'
      BY <1>0, <3>2, <3>3
    <3> QED BY <3>3, <3>4, <3>5 DEF TypeOK
  <2>4. CASE IndexAssertionArtifact \/ IndexLogAssertions
    <3>1. /\ phase \in {"assertions", "log_assertions"}
          /\ \E q, fw : ResolveBundle(q, fw)
      BY <2>4 DEF IndexAssertionArtifact, IndexLogAssertions, Opening
    <3>2. PICK q, fw : ResolveBundle(q, fw)
      BY <3>1
    <3>3. target' = ResolveTest(q, fw)
      BY <3>2 DEF ResolveBundle
    <3>4. target' \in TestIds \cup {None}
      BY <3>3, FindTestTyped, IdsTyped
    <3>5. phase' = phase /\ pos' = pos /\ stage' = "bundle" /\ item' = 1 /\ left' = {} /\ ref' = 1
      BY <3>2 DEF ResolveBundle, Goto
    <3>6. stage' \in StagesOf(phase')
      BY <3>1, <3>5
    <3>7. UNCHANGED <<corpus, scan, db, whole, tables>>
      BY <3>2 DEF ResolveBundle
    <3> QED BY <1>0, <3>1, <3>4, <3>5, <3>6, <3>7 DEF TypeOK
  <2>5. CASE InsertAssertion
    <3>1. stage = "bundle" /\ phase \in {"assertions", "log_assertions"}
      BY <2>2, <2>5 DEF InsertAssertion
    <3>2. phase = "assertions" /\ item \in DOMAIN File.defs /\ BundleDefs = File.defs
      BY <2>5, <3>1 DEF InsertAssertion, BundleDefs
    <3>3. File.defs \in Seq(Defs)
      BY <2>1, <3>1, <3>2, CurrentFile DEF AssertFiles
    <3>4. [def |-> BundleDefs[item]] \in AssertionIds
      BY <3>2, <3>3 DEF AssertionIds
    <3> QED BY <1>0, <2>5, <3>1, <3>4 DEF InsertAssertion, Stay, Goto, TypeOK
  <2>6. stage \in {"bundle", "event"} /\ Event \in DOMAIN BundleEvents =>
          /\ AssertionOf(Event) \subseteq AssertionIds
          /\ BundleEvents[Event].message \in Messages /\ File.path \in Paths
    <3> SUFFICES ASSUME stage \in {"bundle", "event"}, Event \in DOMAIN BundleEvents
                 PROVE  /\ AssertionOf(Event) \subseteq AssertionIds
                        /\ BundleEvents[Event].message \in Messages /\ File.path \in Paths
      OBVIOUS
    <3>1. BundleDefs \in Seq(Defs) /\ BundleEvents \in Seq(AssertionEvents) /\ File.path \in Paths
      <4>1. CASE phase = "assertions"
        BY <2>1, <2>2, <4>1, CurrentFile DEF BundleDefs, BundleEvents, AssertFiles
      <4>2. CASE phase = "log_assertions"
        BY <2>1, <2>2, <4>2, CurrentFile DEF BundleDefs, BundleEvents, ResultFiles
      <4> QED BY <2>2, <4>1, <4>2
    <3>2. \A k \in DOMAIN BundleEvents : BundleEvents[k].message \in Messages
      <4>1. \A k \in DOMAIN BundleEvents : BundleEvents[k] \in AssertionEvents
        BY <3>1
      <4> QED BY <4>1 DEF AssertionEvents
    <3>3. \A d \in DOMAIN BundleDefs : [def |-> BundleDefs[d]] \in AssertionIds
      BY <3>1 DEF AssertionIds
    <3>4. \A m \in DOMAIN BundleEvents :
             [test |-> target, message |-> BundleEvents[m].message] \in AssertionIds
      BY <2>2, <3>2 DEF AssertionIds
    <3>5. Namesakes(Event) \subseteq DOMAIN BundleEvents
      BY <3>1 DEF Namesakes
    <3> QED BY <3>1, <3>2, <3>3, <3>4, <3>5 DEF AssertionOf, DefsNamed, Greatest, Least
  <2>7. CASE InsertUnknownAssertion
    <3>1. stage = "bundle" /\ phase \in {"assertions", "log_assertions"} /\ Event \in DOMAIN BundleEvents
      BY <2>2, <2>7 DEF InsertUnknownAssertion
    <3>2. assertions' \subseteq AssertionIds
      BY <1>0, <2>6, <2>7, <3>1 DEF InsertUnknownAssertion
    <3> QED BY <1>0, <2>7, <3>1, <3>2 DEF InsertUnknownAssertion, Stay, Goto, TypeOK
  <2>8. CASE InsertAssertionFailure
    <3>1. /\ stage \in {"bundle", "event"} /\ phase \in {"assertions", "log_assertions"}
          /\ Event \in DOMAIN BundleEvents
      BY <2>2, <2>8 DEF InsertAssertionFailure, HandlerInv
    <3>2. PICK a \in AssertionOf(Event) :
             assertion_failures' =
                 Append(assertion_failures,
                        [assertion |-> a, test |-> target, run |-> target.run, src |-> File.path,
                         message |-> BundleEvents[Event].message])
      BY <2>8 DEF InsertAssertionFailure
    <3>3. [assertion |-> a, test |-> target, run |-> target.run, src |-> File.path,
           message |-> BundleEvents[Event].message] \in AssertionFailureRows
      BY <2>2, <2>6, <3>1, <3>2 DEF AssertionFailureRows, TestIds
    <3>4. assertion_failures' \in Seq(AssertionFailureRows)
      BY <1>0, <3>2, <3>3
    <3> QED BY <1>0, <2>8, <3>1, <3>4 DEF InsertAssertionFailure, Stay, Goto, TypeOK
  <2>9. CASE InsertAssertionEvidence
    <3>1. stage = "event_evidence" /\ phase \in {"assertions", "log_assertions"}
      BY <2>2, <2>9 DEF InsertAssertionEvidence
    <3>2. File.path \in Paths
      BY <2>1, <3>1, CurrentFile DEF AssertFiles, ResultFiles
    <3>3. evidence' \subseteq EvidenceRows
      BY <1>0, <2>9, <3>2 DEF InsertAssertionEvidence, AddEvidence, RowOwner, EvidenceRows
    <3> QED BY <1>0, <2>9, <3>1, <3>3 DEF InsertAssertionEvidence, Stay, Goto, TypeOK
  <2>10. CASE EndBundle
    <3>1. phase \in Phases
      BY <2>2, <2>10 DEF EndBundle, Phases
    <3> QED BY <1>0, <2>10, <3>1, OpenTyped DEF EndBundle, NextFile, TypeOK
  <2>11. CASE IndexCoverageArtifact
    <3> DEFINE t == ResolveTest(File.test, "cocotb")
    <3>1. phase = "coverage" /\ pos \in DOMAIN Work(phase) /\ File \in CoverageFiles
      BY <2>11, CurrentFile DEF IndexCoverageArtifact, Opening
    <3>2. RunIdOf(File.path, File.build) \in RunIds /\ "pass" \in Statuses
      BY <3>1 DEF CoverageFiles, RunIdOf, RunIds, Statuses
    <3>3. /\ IF t = None THEN UpsertRun(RunIdOf(File.path, File.build), "pass") ELSE UNCHANGED runs
          /\ Goto(phase, pos, "summary", 1, {}) /\ target' = t
      BY <2>11 DEF IndexCoverageArtifact
    <3>4. runs' \subseteq RunRows
      BY <1>0, <3>2, <3>3, UpsertRunFacts
    <3>5. t \in TestIds \cup {None}
      BY FindTestTyped, IdsTyped
    <3> QED BY <1>0, <2>11, <3>1, <3>3, <3>4, <3>5 DEF IndexCoverageArtifact, Goto, TypeOK
  <2>12. CASE InsertCoverageSummary
    <3>1. phase = "coverage" /\ File \in CoverageFiles
      BY <2>1, <2>12, CurrentFile DEF InsertCoverageSummary, At
    <3>2. RunIdOf(File.path, File.build) \in RunIds /\ File.path \in Paths
      BY <3>1 DEF CoverageFiles, RunIdOf, RunIds
    <3>3. [run |-> IF target = None THEN RunIdOf(File.path, File.build) ELSE target.run,
           test |-> target, src |-> File.path] \in CoverageRows
      BY <1>0, <3>2 DEF CoverageRows, TestIds
    <3>4. coverage' \in Seq(CoverageRows)
      BY <1>0, <2>12, <3>3 DEF InsertCoverageSummary
    <3> QED BY <1>0, <2>12, <3>1, <3>4 DEF InsertCoverageSummary, Stay, Goto, TypeOK
  <2>13. CASE InsertCoverageEvidence
    <3>1. phase = "coverage" /\ File \in CoverageFiles
      BY <2>1, <2>13, CurrentFile DEF InsertCoverageEvidence, At
    <3>2. evidence' \subseteq EvidenceRows
      BY <1>0, <2>13, <3>1 DEF InsertCoverageEvidence, AddEvidence, RowOwner, EvidenceRows, CoverageFiles
    <3> QED BY <1>0, <2>13, <3>1, <3>2, OpenTyped DEF InsertCoverageEvidence, NextFile, Phases, TypeOK
  <2>14. CASE IndexSvaStatusArtifact
    <3>1. phase = "sva" /\ target' \in TestIds \cup {None}
      BY <2>14, FindTestTyped, IdsTyped DEF IndexSvaStatusArtifact, Opening
    <3> QED BY <1>0, <2>14, <3>1 DEF IndexSvaStatusArtifact, Goto, TypeOK
  <2>15. CASE InsertSvaRunStatus
    <3>1. phase = "sva" /\ File.path \in Paths
      BY <2>1, <2>15, CurrentFile DEF InsertSvaRunStatus, At, SvaFiles
    <3>2. PICK a \in AssertionIds \cup {None} :
             sva' = Append(sva, [assertion |-> a, test |-> target,
                                 run |-> IF target = None THEN None ELSE target.run,
                                 src |-> File.path])
      BY <1>0, <2>15 DEF InsertSvaRunStatus, AssertionsNamed
    <3>3. [assertion |-> a, test |-> target, run |-> IF target = None THEN None ELSE target.run,
           src |-> File.path] \in SvaRows
      BY <1>0, <3>1, <3>2 DEF SvaRows, TestIds
    <3>4. sva' \in Seq(SvaRows)
      BY <1>0, <3>2, <3>3
    <3> QED BY <1>0, <2>15, <3>1, <3>4 DEF InsertSvaRunStatus, Stay, Goto, TypeOK
  <2>16. CASE EndSva
    BY <1>0, <2>16, OpenTyped DEF EndSva, At, NextFile, Phases, TypeOK
  <2> QED BY <1>12, <2>3, <2>4, <2>5, <2>7, <2>8, <2>9, <2>10, <2>11, <2>12, <2>13, <2>14,
             <2>15, <2>16 DEF Correlate
<1> QED BY <1>1, <1>2, <1>3, <1>4, <1>5, <1>6, <1>7, <1>8, <1>9, <1>10, <1>11, <1>12
        DEF Next, Proceed

(***************************************************************************)
(* What a handler relies on.                                               *)
(***************************************************************************)
LEMMA SameFile ==
    ASSUME UNCHANGED <<scan, phase, pos>>
    PROVE  /\ Work(phase)' = Work(phase) /\ File' = File
           /\ BundleDefs' = BundleDefs /\ BundleEvents' = BundleEvents
BY DEF Work, File, BundleDefs, BundleEvents

\* Steps that leave every handler: a file is done, or the pass is.
Leaves == stage' = "open" /\ (runs' = runs \/ runs' = {})

\* Steps inside a handler of a later phase, which write no run and no test.
Correlates ==
    /\ UNCHANGED <<scan, phase, pos, target, results>>
    /\ phase \in {"assertions", "log_assertions", "coverage", "sva"} /\ stage # "open"
    /\ stage \in {"bundle", "event", "event_evidence"} \/ stage' \notin {"bundle", "event", "event_evidence"}
    /\ stage' # "open"
    /\ stage' = "event" => item' = item /\ Event \in DOMAIN BundleEvents

LEMMA Steps ==
    ASSUME TypeOK, HandlerInv, [Next]_vars
    PROVE  \/ Leaves \/ Correlates
           \/ UNCHANGED <<scan, cursor, tables>>
           \/ IndexResults
           \/ IndexAssertionArtifact \/ IndexLogAssertions
           \/ IndexCoverageArtifact \/ IndexSvaStatusArtifact
<1> USE DEF cursor, results, correlated, tables
<1>1. CASE UNCHANGED vars \/ Export
  BY <1>1 DEF vars, Export
<1>2. CASE Scan \/ Crash \/ Unlink \/ Connect \/ NextPhase \/ Close \/ SkipFile
           \/ AbortOnFile \/ AbortOnSva
  BY <1>2 DEF Scan, Crash, Unlink, Connect, NextPhase, Close, SkipFile, AbortOnFile, AbortOnSva,
              Stop, NextFile, Open, Goto, Leaves
<1>3. CASE IndexWaveformSummary \/ EndBundle \/ InsertCoverageEvidence \/ EndSva
  BY <1>3 DEF IndexWaveformSummary, EndBundle, InsertCoverageEvidence, EndSva, NextFile, Open, Goto,
              Leaves
<1>4. CASE InsertAssertion \/ InsertUnknownAssertion \/ InsertAssertionFailure
           \/ InsertAssertionEvidence
  <2>1. /\ stage \in {"bundle", "event", "event_evidence"}
        /\ phase \in {"assertions", "log_assertions"}
    BY <1>4 DEF InsertAssertion, InsertUnknownAssertion, InsertAssertionFailure,
                InsertAssertionEvidence, TypeOK, StagesOf, Phases
  <2> QED BY <1>4, <2>1 DEF InsertAssertion, InsertUnknownAssertion, InsertAssertionFailure,
                InsertAssertionEvidence, Stay, Goto, Correlates
<1>5. CASE InsertCoverageSummary \/ InsertSvaRunStatus
  BY <1>5 DEF InsertCoverageSummary, InsertSvaRunStatus, At, Stay, Goto, Correlates
<1> QED BY <1>1, <1>2, <1>3, <1>4, <1>5 DEF Next, Proceed, Correlate

\* What the parsers guarantee of the file under the cursor.
LEMMA ParsedFile ==
    ASSUME TypeOK, phase = "results", pos \in DOMAIN Work(phase), Indexed(File)
    PROVE  /\ File \in ResultFiles /\ 1 \in DOMAIN File.cases
           /\ FileStatus(File) = "fail" <=> RunFails(File)
           /\ ~RunFails(File) => /\ \A i \in DOMAIN File.cases : CaseStatus(File, i) = "pass"
                                 /\ DOMAIN File.fails = {}
<1>1. /\ File \in ResultFiles /\ File = scan.results[pos] /\ pos \in DOMAIN scan.results
      /\ scan \in Corpora /\ File.body = "ok"
  BY CurrentFile DEF File, Work, TypeOK, Indexed
<1>2. /\ File.cases # << >>
      /\ \A k \in DOMAIN File.fails : \E i \in DOMAIN File.cases :
            File.kind = "cocotb" => File.cases[i].status = "fail"
  BY <1>1, CorporaParsed
<1>3. 1 \in DOMAIN File.cases
  <2>1. File.cases \in Seq(Testcases)
    BY <1>1 DEF ResultFiles
  <2> QED BY <1>2, <2>1
<1>4. FileStatus(File) = "fail" <=> RunFails(File)
  BY DEF FileStatus
<1>5. ASSUME ~RunFails(File)
      PROVE  /\ \A i \in DOMAIN File.cases : CaseStatus(File, i) = "pass"
             /\ DOMAIN File.fails = {}
  <2>1. CASE File.kind = "uvm"
    BY <1>5, <2>1 DEF RunFails, CaseStatus, FileStatus
  <2>2. CASE File.kind # "uvm"
    <3>1. File.kind = "cocotb"
      BY <1>1, <2>2, FileTyped DEF Frameworks
    <3>2. \A i \in DOMAIN File.cases : File.cases[i].status # "fail"
      BY <1>5, <2>2 DEF RunFails
    <3>3. \A i \in DOMAIN File.cases : File.cases[i].status = "pass"
      BY <1>1, <3>2, FileTyped DEF Testcases, Statuses
    <3> QED BY <1>2, <2>2, <3>1, <3>2, <3>3 DEF CaseStatus
  <2> QED BY <2>1, <2>2
<1> QED BY <1>1, <1>3, <1>4, <1>5

LEMMA HandlerInit == Init => HandlerInv
BY DEF Init, HandlerInv, InResultsFile

LEMMA HandlerStep ==
    ASSUME TypeOK, HandlerInv, [Next]_vars
    PROVE  HandlerInv'
<1> USE DEF cursor, results, correlated, tables
<1>1. runs \subseteq RunRows /\ UniqueRuns
  BY DEF TypeOK, HandlerInv, UniqueRuns
<1>2. CASE Leaves
  BY <1>1, <1>2 DEF Leaves, HandlerInv, UniqueRuns
<1>3. CASE Correlates
  <2>1. pos \in DOMAIN Work(phase) /\ phase # "results"
    BY <1>3 DEF Correlates, HandlerInv
  <2>2. stage' \in {"bundle", "event", "event_evidence"} => target' \in Ids(tests)'
    BY <1>3 DEF Correlates, HandlerInv, Ids
  <2>3. stage' = "event" => Event' \in DOMAIN BundleEvents'
    BY <1>3, SameFile DEF Correlates, Event
  <2>4. pos' \in DOMAIN Work(phase)'
    BY <1>3, <2>1, SameFile DEF Correlates
  <2> QED BY <1>1, <1>3, <2>1, <2>2, <2>3, <2>4 DEF Correlates, HandlerInv, UniqueRuns
<1>4. CASE UNCHANGED <<scan, cursor, tables>>
  BY <1>4, SameFile DEF HandlerInv, InResultsFile, Ids, Event
<1>5. CASE IndexResults
  <2>1. phase = "results" /\ pos \in DOMAIN Work(phase) /\ File \in ResultFiles
    <3>1. phase = "results" /\ (stage = "open" => pos \in DOMAIN Work(phase))
      BY <1>5 DEF IndexResults, IndexUvmLog, IndexCocotbXml, OpenResults, Opening, At,
         InsertTest, InsertTopology, InsertFailure, DeleteEvidence, InsertEvidence, EndFailure, EndTest
    <3> QED BY <3>1, CurrentFile DEF HandlerInv
  <2>2. stage # "open" => InResultsFile
    BY <2>1 DEF HandlerInv
  <2>3. CASE IndexUvmLog \/ IndexCocotbXml
    <3>1. /\ Indexed(File) /\ UpsertRun(RunOf(File), FileStatus(File))
          /\ UNCHANGED <<scan, phase, pos>> /\ stage' = "test" /\ item' = 1 /\ left' = {}
      BY <2>3 DEF IndexUvmLog, IndexCocotbXml, OpenResults, Stay, Goto
    <3>2. /\ \E r \in runs' : r.id = RunOf(File) /\ (RunFails(File) => r.status = "fail")
          /\ UniqueRuns'
      BY <1>1, <2>1, <3>1, RunOfTyped, StatusTyped, UpsertRunFacts, ParsedFile
    <3>3. InResultsFile'
      BY <2>1, <3>1, <3>2, SameFile, ParsedFile DEF InResultsFile
    <3> QED BY <2>1, <3>1, <3>2, <3>3, SameFile DEF HandlerInv, UniqueRuns
  <2>4. CASE InsertTest \/ InsertTopology \/ InsertFailure \/ DeleteEvidence \/ InsertEvidence
             \/ EndFailure
    <3>1. /\ InResultsFile /\ UNCHANGED <<scan, phase, pos, item, runs>>
          /\ stage' \in {"topology", "failure", "purge", "evidence"}
      BY <2>1, <2>2, <2>4 DEF InsertTest, InsertTopology, InsertFailure, DeleteEvidence,
                       InsertEvidence, EndFailure, At, Stay, Goto
    <3>2. left' \subseteq FailuresOf(File, item)
      BY <2>4, <3>1 DEF InResultsFile, InsertTest, InsertTopology, InsertFailure, DeleteEvidence,
                 InsertEvidence, EndFailure, At, Stay, Goto
    <3>3. TestIdOf(File, item) \in Ids(tests)'
      <4>1. CASE InsertTest
        <5>1. PICK t : t.id = TestIdOf(File, item) /\ t \in tests'
          <6> DEFINE t == [id |-> TestIdOf(File, item), status |-> CaseStatus(File, item),
                           seed |-> File.cases[item].seed, at |-> pos]
          <6>1. t.id = TestIdOf(File, item) /\ t \in tests'
            BY <4>1 DEF InsertTest, Upsert
          <6> QED BY <6>1
        <5> QED BY <5>1 DEF Ids
      <4>2. CASE ~InsertTest
        <5>1. stage # "test" /\ tests' = tests
          BY <2>4, <4>2 DEF InsertTopology, InsertFailure, DeleteEvidence, InsertEvidence,
                            EndFailure, At
        <5> QED BY <3>1, <5>1 DEF InResultsFile, Ids
      <4> QED BY <4>1, <4>2
    <3>4. InResultsFile'
      BY <3>1, <3>2, <3>3, SameFile DEF InResultsFile
    <3> QED BY <1>1, <2>1, <3>1, <3>4, SameFile DEF HandlerInv, UniqueRuns
  <2>5. CASE EndTest
    <3>1. CASE item < Len(File.cases)
      <4>1. /\ InResultsFile /\ UNCHANGED <<scan, phase, pos, tests, runs>>
            /\ stage' = "test" /\ item' = item + 1 /\ left' = {}
        BY <2>1, <2>2, <2>5, <3>1 DEF EndTest, At, Stay, Goto
      <4>2. item + 1 \in DOMAIN File.cases
        <5>1. File.cases \in Seq(Testcases)
          BY <2>1 DEF ResultFiles
        <5> QED BY <3>1, <4>1, <5>1 DEF InResultsFile
      <4>3. InResultsFile'
        BY <4>1, <4>2, SameFile DEF InResultsFile
      <4> QED BY <1>1, <2>1, <4>1, <4>3, SameFile DEF HandlerInv, UniqueRuns
    <3>2. CASE ~(item < Len(File.cases))
      BY <1>1, <2>5, <3>2 DEF EndTest, NextFile, Open, Goto, HandlerInv, UniqueRuns
    <3> QED BY <3>1, <3>2
  <2> QED BY <1>5, <2>3, <2>4, <2>5 DEF IndexResults
<1>6. CASE IndexAssertionArtifact \/ IndexLogAssertions
  <2>1. /\ phase \in {"assertions", "log_assertions"} /\ pos \in DOMAIN Work(phase)
        /\ \E q, fw : ResolveBundle(q, fw)
    BY <1>6 DEF IndexAssertionArtifact, IndexLogAssertions, Opening
  <2>2. /\ UNCHANGED <<scan, phase, pos, tests, runs>> /\ stage' = "bundle"
        /\ target' \in Ids(tests)
    BY <2>1, FindTestTyped DEF ResolveBundle, Goto
  <2> QED BY <1>1, <2>1, <2>2, SameFile DEF HandlerInv, UniqueRuns, Ids
<1>7. CASE IndexCoverageArtifact
  <2>1. phase = "coverage" /\ pos \in DOMAIN Work(phase) /\ File \in CoverageFiles
    BY <1>7, CurrentFile DEF IndexCoverageArtifact, Opening
  <2>2. RunIdOf(File.path, File.build) \in RunIds /\ "pass" \in Statuses
    BY <2>1 DEF CoverageFiles, RunIdOf, RunIds, Statuses
  <2>3. UNCHANGED runs \/ UpsertRun(RunIdOf(File.path, File.build), "pass")
    BY <1>7 DEF IndexCoverageArtifact
  <2>4. UniqueRuns'
    BY <1>1, <2>2, <2>3, UpsertRunFacts DEF UniqueRuns
  <2>5. UNCHANGED <<scan, phase, pos>> /\ stage' = "summary"
    BY <1>7 DEF IndexCoverageArtifact, Goto
  <2> QED BY <2>1, <2>4, <2>5, SameFile DEF HandlerInv, UniqueRuns
<1>8. CASE IndexSvaStatusArtifact
  <2>1. /\ phase = "sva" /\ pos \in DOMAIN Work(phase)
        /\ UNCHANGED <<scan, phase, pos, runs>> /\ stage' = "entry"
    BY <1>8 DEF IndexSvaStatusArtifact, Opening, Goto
  <2> QED BY <1>1, <2>1, SameFile DEF HandlerInv, UniqueRuns
<1> QED BY <1>2, <1>3, <1>4, <1>5, <1>6, <1>7, <1>8, Steps

(***************************************************************************)
(* What each step does to runs, tests and failures.                        *)
(***************************************************************************)
\* The rows of a step: nothing, everything forgotten, a run, a test, a topology or a failure.
LEMMA RowSteps ==
    ASSUME TypeOK, HandlerInv, [Next]_vars
    PROVE  \/ UNCHANGED results
           \/ phase = "unlink" /\ runs' = {} /\ tests' = {} /\ topologies' = {} /\ failures' = {}
           \/ \E id \in RunIds, st \in Statuses :
                 UpsertRun(id, st) /\ UNCHANGED <<tests, topologies, failures>>
           \/ InsertTest \/ InsertTopology \/ InsertFailure
<1> USE DEF results
<1>1. CASE IndexUvmLog \/ IndexCocotbXml
  <2>1. /\ phase = "results" /\ pos \in DOMAIN Work(phase)
        /\ UpsertRun(RunOf(File), FileStatus(File)) /\ UNCHANGED <<tests, topologies, failures>>
    BY <1>1 DEF IndexUvmLog, IndexCocotbXml, OpenResults, Opening
  <2> QED BY <2>1, CurrentFile, RunOfTyped, StatusTyped
<1>2. CASE IndexCoverageArtifact
  <2>1. phase = "coverage" /\ pos \in DOMAIN Work(phase) /\ File \in CoverageFiles
    BY <1>2, CurrentFile DEF IndexCoverageArtifact, Opening
  <2>2. RunIdOf(File.path, File.build) \in RunIds /\ "pass" \in Statuses
    BY <2>1 DEF CoverageFiles, RunIdOf, RunIds, Statuses
  <2> QED BY <1>2, <2>2 DEF IndexCoverageArtifact
<1>3. CASE UNCHANGED vars \/ Export \/ Scan \/ Crash \/ Unlink \/ Connect \/ NextPhase \/ Close
           \/ SkipFile \/ AbortOnFile \/ AbortOnSva
  BY <1>3 DEF vars, tables, Export, Scan, Crash, Unlink, Connect, NextPhase, Close, SkipFile,
              AbortOnFile, AbortOnSva, Stop
<1>4. CASE IndexResults /\ ~IndexUvmLog /\ ~IndexCocotbXml
  BY <1>4 DEF IndexResults, DeleteEvidence, InsertEvidence, EndFailure, EndTest, tables
<1>5. CASE Correlate /\ ~IndexCoverageArtifact
  BY <1>5 DEF Correlate, IndexWaveformSummary, IndexAssertionArtifact, IndexLogAssertions,
              ResolveBundle, InsertAssertion, InsertUnknownAssertion, InsertAssertionFailure,
              InsertAssertionEvidence, EndBundle, InsertCoverageSummary, InsertCoverageEvidence,
              IndexSvaStatusArtifact, InsertSvaRunStatus, EndSva, tables
<1> QED BY <1>1, <1>2, <1>3, <1>4, <1>5 DEF Next, Proceed

\* Upsert loses no id and brings none but the row's.
LEMMA UpsertIds ==
    ASSUME NEW T, NEW row
    PROVE  /\ Ids(Upsert(T, row)) = Ids(T) \cup {row.id}
           /\ \A r \in Upsert(T, row) : r = row \/ r \in T
BY DEF Ids, Upsert

\* The facts the three row-writing steps of a results file have in hand.
LEMMA InsertFacts ==
    ASSUME TypeOK, HandlerInv
    PROVE  /\ InsertTest =>
                /\ \E row : /\ tests' = Upsert(tests, row) /\ row.id \in TestIds
                           /\ \E r \in runs : /\ r.id = row.id.run
                                              /\ r.status = "pass" => row.status = "pass"
                /\ UNCHANGED <<runs, topologies, failures>>
           /\ InsertTopology =>
                /\ topologies' \subseteq topologies \cup Ids(tests)
                /\ UNCHANGED <<runs, tests, failures>>
           /\ InsertFailure =>
                /\ \E row : /\ failures' = Upsert(failures, row)
                           /\ row.id.test \in Ids(tests) /\ row.run = row.id.test.run
                           /\ \E r \in runs : r.id = row.run /\ r.status = "fail"
                /\ UNCHANGED <<runs, tests, topologies>>
<1>1. ASSUME InsertTest \/ InsertTopology \/ InsertFailure
      PROVE  /\ InResultsFile /\ File \in ResultFiles
             /\ \E r \in runs : r.id = RunOf(File) /\ (r.status = "pass" => ~RunFails(File))
             /\ ~RunFails(File) => /\ \A i \in DOMAIN File.cases : CaseStatus(File, i) = "pass"
                                   /\ DOMAIN File.fails = {}
             /\ TestIdOf(File, item) \in TestIds /\ TestIdOf(File, item).run = RunOf(File)
  <2>1. phase = "results" /\ stage # "open"
    BY <1>1 DEF InsertTest, InsertTopology, InsertFailure, At
  <2>2. pos \in DOMAIN Work(phase) /\ InResultsFile
    BY <2>1 DEF HandlerInv
  <2>3. File \in ResultFiles
    BY <2>1, <2>2, CurrentFile
  <2>4. \E r \in runs : r.id = RunOf(File) /\ (r.status = "pass" => ~RunFails(File))
    BY <2>2 DEF InResultsFile
  <2> QED BY <2>1, <2>2, <2>3, <2>4, ParsedFile, TestIdTyped DEF InResultsFile
<1>2. ASSUME InsertTest
      PROVE  /\ \E row : /\ tests' = Upsert(tests, row) /\ row.id \in TestIds
                         /\ \E r \in runs : /\ r.id = row.id.run
                                            /\ r.status = "pass" => row.status = "pass"
             /\ UNCHANGED <<runs, topologies, failures>>
  <2> DEFINE new == [id |-> TestIdOf(File, item), status |-> CaseStatus(File, item),
                     seed |-> File.cases[item].seed, at |-> pos]
  <2>1. tests' = Upsert(tests, new) /\ UNCHANGED <<runs, topologies, failures>>
    BY <1>2 DEF InsertTest
  <2>2. \E r \in runs : r.id = new.id.run /\ (r.status = "pass" => new.status = "pass")
    BY <1>1, <1>2 DEF InResultsFile
  <2>3. new.id \in TestIds
    BY <1>1, <1>2
  <2> QED BY <2>1, <2>2, <2>3
<1>3. ASSUME InsertTopology
      PROVE  /\ topologies' \subseteq topologies \cup Ids(tests)
             /\ UNCHANGED <<runs, tests, failures>>
  BY <1>1, <1>3 DEF InsertTopology, At, InResultsFile
<1>4. ASSUME InsertFailure
      PROVE  /\ \E row : /\ failures' = Upsert(failures, row)
                         /\ row.id.test \in Ids(tests) /\ row.run = row.id.test.run
                         /\ \E r \in runs : r.id = row.run /\ r.status = "fail"
             /\ UNCHANGED <<runs, tests, topologies>>
  <2>1. PICK k \in Least(left) :
           failures' = Upsert(failures, [id |-> FailureIdAt(k), run |-> RunOf(File),
                                         occ |-> File.fails[k].occ])
    BY <1>4 DEF InsertFailure
  <2> DEFINE new == [id |-> FailureIdAt(k), run |-> RunOf(File), occ |-> File.fails[k].occ]
  <2>2. k \in FailuresOf(File, item) /\ k \in DOMAIN File.fails /\ item \in DOMAIN File.cases
    BY <1>1, <1>4, <2>1 DEF InResultsFile, Least, FailuresOf
  <2>3. new.id.test = TestIdOf(File, item)
    BY <1>1, <1>4, <2>2, FailureTyped DEF FailureIdAt
  <2>4. new.id.test \in Ids(tests) /\ new.run = new.id.test.run
    BY <1>1, <1>4, <2>3 DEF InResultsFile, InsertFailure, At
  <2>5. \E r \in runs : r.id = new.run /\ r.status = "fail"
    BY <1>1, <1>4, <2>2 DEF InResultsFile
  <2> QED BY <1>4, <2>1, <2>4, <2>5 DEF InsertFailure
<1> QED BY <1>2, <1>3, <1>4

LEMMA ResolveStep ==
    ASSUME TypeOK, HandlerInv, ResultsResolve, [Next]_vars
    PROVE  ResultsResolve'
<1>1. CASE UNCHANGED results
  BY <1>1 DEF results, ResultsResolve, Ids
<1>2. CASE runs' = {} /\ tests' = {} /\ topologies' = {} /\ failures' = {}
  BY <1>2 DEF ResultsResolve, Ids
<1>3. ASSUME NEW id \in RunIds, NEW st \in Statuses, UpsertRun(id, st),
             UNCHANGED <<tests, topologies, failures>>
      PROVE  ResultsResolve'
  <2>1. Ids(runs) \subseteq Ids(runs')
    BY <1>3, UpsertRunFacts DEF TypeOK, Ids
  <2> QED BY <1>3, <2>1 DEF ResultsResolve, Ids
<1>4. CASE InsertTest
  <2>1. PICK row : /\ tests' = Upsert(tests, row)
                   /\ \E r \in runs : r.id = row.id.run
    BY <1>4, InsertFacts
  <2>2. /\ Ids(tests)' = Ids(tests) \cup {row.id}
        /\ \A t \in tests' : t = row \/ t \in tests
    BY <2>1, UpsertIds DEF Ids
  <2>3. row.id.run \in Ids(runs)
    BY <2>1 DEF Ids
  <2>4. UNCHANGED <<runs, topologies, failures>>
    BY <1>4, InsertFacts
  <2>5. Ids(runs)' = Ids(runs)
    BY <2>4 DEF Ids
  <2> QED BY <2>2, <2>3, <2>4, <2>5 DEF ResultsResolve
<1>5. CASE InsertTopology
  <2>1. topologies' \subseteq topologies \cup Ids(tests) /\ UNCHANGED <<runs, tests, failures>>
    BY <1>5, InsertFacts
  <2> QED BY <2>1 DEF ResultsResolve, Ids
<1>6. CASE InsertFailure
  <2>1. PICK row : /\ failures' = Upsert(failures, row)
                   /\ row.id.test \in Ids(tests) /\ row.run = row.id.test.run
    BY <1>6, InsertFacts
  <2>2. UNCHANGED <<runs, tests, topologies>>
    BY <1>6, InsertFacts
  <2>3. \A f \in failures' : f = row \/ f \in failures
    BY <2>1, UpsertIds
  <2>4. Ids(tests)' = Ids(tests) /\ Ids(runs)' = Ids(runs)
    BY <2>2 DEF Ids
  <2> QED BY <2>1, <2>2, <2>3, <2>4 DEF ResultsResolve
<1> QED BY <1>1, <1>2, <1>3, <1>4, <1>5, <1>6, RowSteps

LEMMA NeverPassesStep ==
    ASSUME TypeOK, HandlerInv, ResultsResolve, FailedRunNeverPasses, [Next]_vars
    PROVE  FailedRunNeverPasses'
<1>1. CASE UNCHANGED results
  BY <1>1 DEF results, FailedRunNeverPasses
<1>2. CASE runs' = {} /\ tests' = {} /\ topologies' = {} /\ failures' = {}
  BY <1>2 DEF FailedRunNeverPasses
<1>3. ASSUME NEW id \in RunIds, NEW st \in Statuses, UpsertRun(id, st),
             UNCHANGED <<tests, topologies, failures>>
      PROVE  FailedRunNeverPasses'
  <2> SUFFICES ASSUME NEW s \in runs', s.status = "pass"
               PROVE  /\ \A t \in tests : t.id.run = s.id => t.status = "pass"
                      /\ \A f \in failures : f.run # s.id
    BY <1>3 DEF FailedRunNeverPasses
  <2>1. \A r \in runs : r.id = s.id => r.status = "pass"
    <3>1. CASE s.id = id
      BY <1>3, <3>1, UpsertRunFacts DEF TypeOK
    <3>2. CASE s.id # id
      BY <1>3, <3>2, UpsertRunFacts DEF TypeOK, HandlerInv
    <3> QED BY <3>1, <3>2
  <2>2. \A t \in tests : t.id.run = s.id => \E r \in runs : r.id = s.id
    BY DEF ResultsResolve, Ids
  <2>3. \A f \in failures : f.run = s.id => \E r \in runs : r.id = s.id
    BY DEF ResultsResolve, Ids
  <2> QED BY <2>1, <2>2, <2>3 DEF FailedRunNeverPasses
<1>4. CASE InsertTest
  <2>1. PICK row : /\ tests' = Upsert(tests, row)
                   /\ \E r \in runs : r.id = row.id.run /\ (r.status = "pass" => row.status = "pass")
    BY <1>4, InsertFacts
  <2>2. UNCHANGED <<runs, topologies, failures>>
    BY <1>4, InsertFacts
  <2>3. \A t \in tests' : t = row \/ t \in tests
    BY <2>1, UpsertIds
  <2> QED BY <2>1, <2>2, <2>3 DEF FailedRunNeverPasses, HandlerInv
<1>5. CASE InsertTopology
  BY <1>5, InsertFacts DEF FailedRunNeverPasses
<1>6. CASE InsertFailure
  <2>1. PICK row : /\ failures' = Upsert(failures, row)
                   /\ \E r \in runs : r.id = row.run /\ r.status = "fail"
    BY <1>6, InsertFacts
  <2>2. UNCHANGED <<runs, tests, topologies>>
    BY <1>6, InsertFacts
  <2>3. \A f \in failures' : f = row \/ f \in failures
    BY <2>1, UpsertIds
  <2> QED BY <2>1, <2>2, <2>3 DEF FailedRunNeverPasses, HandlerInv
<1> QED BY <1>1, <1>2, <1>3, <1>4, <1>5, <1>6, RowSteps

\* What FailureIsSticky says of one step.
NothingForgotten ==
    /\ \A r \in runs : \E s \in runs' : s.id = r.id /\ (r.status = "fail" => s.status = "fail")
    /\ Ids(tests) \subseteq Ids(tests') /\ Ids(failures) \subseteq Ids(failures')

LEMMA StickyStep ==
    ASSUME TypeOK, HandlerInv, [Next]_vars
    PROVE  phase = "unlink" \/ NothingForgotten
<1>1. CASE UNCHANGED results
  BY <1>1 DEF results, NothingForgotten
<1>2. ASSUME NEW id \in RunIds, NEW st \in Statuses, UpsertRun(id, st),
             UNCHANGED <<tests, topologies, failures>>
      PROVE  NothingForgotten
  BY <1>2, UpsertRunFacts DEF TypeOK, NothingForgotten
<1>3. CASE InsertTest
  BY <1>3, InsertFacts, UpsertIds DEF NothingForgotten
<1>4. CASE InsertTopology
  BY <1>4, InsertFacts DEF NothingForgotten
<1>5. CASE InsertFailure
  BY <1>5, InsertFacts, UpsertIds DEF NothingForgotten
<1> QED BY <1>1, <1>2, <1>3, <1>4, <1>5, RowSteps

(***************************************************************************)
(* Theorems.                                                               *)
(***************************************************************************)
IInv == TypeOK /\ HandlerInv /\ ResultsResolve /\ FailedRunNeverPasses

\* IInv holds of every reachable state: the inductive step of the three claims below.
THEOREM Inductive == Spec => []IInv
<1>1. Init => IInv
  BY TypeInit, HandlerInit DEF IInv, Init, ResultsResolve, FailedRunNeverPasses
<1>2. IInv /\ [Next]_vars => IInv'
  BY TypeStep, HandlerStep, ResolveStep, NeverPassesStep DEF IInv
<1> QED BY <1>1, <1>2, PTL DEF Spec

\* The tables hold rows of their schema for every configuration and every artifact set.
THEOREM TypeCorrect == Spec => []TypeOK
BY Inductive, PTL DEF IInv

\* A handler finds in the tables what its first statements wrote: the run of the file it
\* reads, the test it resolved, and one row for each run id.
THEOREM HandlersSafe == Spec => []HandlerInv
BY Inductive, PTL DEF IInv

\* No run is ever shown as passing beside a failing test or a failure of it, whatever the
\* artifacts, the merges of a CI build, the crashes and the restarts.
THEOREM FailedRunShown == Spec => []FailedRunNeverPasses
BY Inductive, PTL DEF IInv

\* Between two rebuilds nothing is forgotten: failed runs stay failed, ids stay.
THEOREM FailureSticky == Spec => FailureIsSticky
<1>1. IInv /\ [Next]_vars => (phase = "unlink" \/ NothingForgotten)
  BY StickyStep DEF IInv
<1>2. [][phase = "unlink" \/ NothingForgotten]_vars => FailureIsSticky
  BY PTL DEF FailureIsSticky, NothingForgotten
<1> QED BY Inductive, <1>1, <1>2, PTL DEF Spec

(***************************************************************************)
(* Whatever a reader finds in the index names rows that are there, in      *)
(* every state of a pass (ReferencesResolve).                              *)
(*                                                                         *)
(* A row is written before the rows that name it, but not in the same      *)
(* statement: MidInv says what the statements of a handler that are yet to *)
(* come can rely on.                                                       *)
(***************************************************************************)
\* A bundle's definitions, and the assertions of its failures, are stored up to the cursor.
InBundle ==
    /\ stage # "bundle" => Event \in DOMAIN BundleEvents
    /\ \A d \in DOMAIN BundleDefs : d < item => [def |-> BundleDefs[d]] \in assertions
    /\ \A k \in DOMAIN BundleEvents :
          k < Event \/ (k = Event /\ stage # "bundle") => AssertionOf(k) \subseteq assertions
    /\ stage = "event_evidence" => assertion_failures # << >>

MidInv ==
    /\ stage \in {"bundle", "event", "event_evidence"} => InBundle
    /\ stage \in {"purge", "evidence"} => \A k \in Least(left) : FailureIdAt(k) \in Ids(failures)
    /\ stage = "summary" => IF target = None THEN RunIdOf(File.path, File.build) \in Ids(runs)
                                             ELSE target \in Ids(tests)
    /\ stage = "summary_evidence" => coverage # << >>
    /\ stage = "entry" => target \in Ids(tests) \cup {None}

RInv == IInv /\ MidInv /\ CorrelationsResolve /\ EvidenceResolves

(***************************************************************************)
(* What a step keeps.                                                      *)
(***************************************************************************)
LEMMA AppendCases ==
    ASSUME NEW S, NEW s \in Seq(S), NEW x \in S
    PROVE  /\ DOMAIN s \subseteq DOMAIN Append(s, x)
           /\ \A n \in DOMAIN Append(s, x) :
                 Append(s, x)[n] = x \/ (n \in DOMAIN s /\ Append(s, x)[n] = s[n])
           /\ Append(s, x) # << >> /\ Len(Append(s, x)) \in DOMAIN Append(s, x)
OBVIOUS

\* Only Unlink forgets a row.
LEMMA RowsStay ==
    ASSUME TypeOK, HandlerInv, [Next]_vars, ~Unlink
    PROVE  /\ Ids(runs) \subseteq Ids(runs)' /\ Ids(tests) \subseteq Ids(tests)'
           /\ Ids(failures) \subseteq Ids(failures)'
<1>1. CASE phase = "unlink"
  <2>1. UNCHANGED tables
    BY <1>1 DEF Next, Proceed, Export, Scan, Crash, Stop, Connect, NextPhase, SkipFile, Close,
       AbortOnFile, AbortOnSva, IndexResults, Correlate, IndexUvmLog, IndexCocotbXml, OpenResults,
       InsertTest, InsertTopology, InsertFailure, DeleteEvidence, InsertEvidence, EndFailure, EndTest,
       IndexWaveformSummary, IndexAssertionArtifact, IndexLogAssertions, IndexCoverageArtifact,
       InsertCoverageSummary, InsertCoverageEvidence, IndexSvaStatusArtifact, InsertSvaRunStatus,
       EndSva, InsertAssertion, InsertUnknownAssertion, InsertAssertionFailure,
       InsertAssertionEvidence, EndBundle, Opening, At, Phases, StagesOf, TypeOK, vars
  <2> QED BY <2>1 DEF tables, results, Ids
<1>2. CASE phase # "unlink"
  BY <1>2, StickyStep DEF NothingForgotten, Ids
<1> QED BY <1>1, <1>2

\* Rows that stay are still resolved while the others grow.
LEMMA CorrelationsGrow ==
    ASSUME CorrelationsResolve,
           Ids(runs) \subseteq Ids(runs)', Ids(tests) \subseteq Ids(tests)',
           assertions \subseteq assertions'
    PROVE  /\ waveforms' = waveforms => \A w \in waveforms' : w.id \in Ids(tests)'
           /\ assertion_failures' = assertion_failures =>
                 \A n \in DOMAIN assertion_failures' :
                    LET a == assertion_failures'[n] IN
                    a.assertion \in assertions' /\ a.test \in Ids(tests)' /\ a.run = a.test.run
           /\ coverage' = coverage =>
                 \A n \in DOMAIN coverage' :
                    LET v == coverage'[n] IN
                    /\ v.run \in Ids(runs)'
                    /\ v.test # None => v.test \in Ids(tests)' /\ v.run = v.test.run
           /\ sva' = sva =>
                 \A n \in DOMAIN sva' :
                    /\ sva'[n].assertion # None => sva'[n].assertion \in assertions'
                    /\ sva'[n].test # None => sva'[n].test \in Ids(tests)'
BY DEF CorrelationsResolve

\* The tables that an action of the pass may write, of those that correlate.
LEMMA CorrelatedSteps ==
    ASSUME TypeOK, [Next]_vars
    PROVE  \/ UNCHANGED correlated
           \/ Unlink \/ IndexWaveformSummary \/ InsertAssertion \/ InsertUnknownAssertion
           \/ InsertAssertionFailure \/ InsertCoverageSummary \/ InsertSvaRunStatus
<1> USE DEF tables, correlated
<1>1. CASE UNCHANGED vars \/ Export \/ Scan \/ Crash
  BY <1>1 DEF vars, Export, Scan, Crash, Stop
<1>2. CASE Connect \/ NextPhase \/ SkipFile \/ Close \/ AbortOnFile \/ AbortOnSva
  BY <1>2 DEF Connect, NextPhase, SkipFile, Close, AbortOnFile, AbortOnSva, Stop
<1>3. CASE IndexResults
  BY <1>3 DEF IndexResults, IndexUvmLog, IndexCocotbXml, OpenResults, InsertTest, InsertTopology,
              InsertFailure, DeleteEvidence, InsertEvidence, EndFailure, EndTest
<1>4. CASE \/ IndexAssertionArtifact \/ IndexLogAssertions \/ InsertAssertionEvidence \/ EndBundle
           \/ IndexCoverageArtifact \/ InsertCoverageEvidence \/ IndexSvaStatusArtifact \/ EndSva
  BY <1>4 DEF IndexAssertionArtifact, IndexLogAssertions, ResolveBundle, InsertAssertionEvidence,
              EndBundle, IndexCoverageArtifact, InsertCoverageEvidence, IndexSvaStatusArtifact, EndSva
<1> QED BY <1>1, <1>2, <1>3, <1>4 DEF Next, Proceed, Correlate

\* The assertion of the failure to be stored is there: a definition that came first, one made
\* for an earlier failure of the name, or the one made for this failure.
LEMMA AssertionKnown ==
    ASSUME TypeOK, HandlerInv, MidInv, InsertAssertionFailure
    PROVE  AssertionOf(Event) \subseteq assertions /\ Event \in DOMAIN BundleEvents
<1> DEFINE name == BundleEvents[Event].name
<1>1. CASE stage = "event"
  BY <1>1 DEF MidInv, InBundle
<1>2. CASE stage = "bundle" /\ Event \in DOMAIN BundleEvents /\ ~Unmatched(Event)
  <2>1. InBundle /\ pos \in DOMAIN Work(phase) /\ phase \in {"assertions", "log_assertions"}
    BY <1>2 DEF MidInv, HandlerInv, TypeOK, StagesOf, Phases
  <2>2. /\ BundleDefs \in Seq(Defs) /\ BundleEvents \in Seq(AssertionEvents) /\ item \in Nat
    <3>1. phase = "assertions" => File \in AssertFiles
      BY <2>1, CurrentFile
    <3>2. phase = "log_assertions" => File \in ResultFiles
      BY <2>1, CurrentFile
    <3>3. \A S : << >> \in Seq(S)
      OBVIOUS
    <3> QED BY <2>1, <3>1, <3>2, <3>3 DEF BundleDefs, BundleEvents, AssertFiles, ResultFiles, TypeOK
  <2>3. Event \in Nat \ {0} /\ \A d \in DOMAIN BundleDefs : d < item
    BY <1>2, <2>2 DEF Event
  <2>4. CASE DefsNamed(name) # {}
    <3>1. Greatest(DefsNamed(name)) \subseteq DOMAIN BundleDefs
      BY DEF Greatest, DefsNamed
    <3>2. AssertionOf(Event) = {[def |-> BundleDefs[d]] : d \in Greatest(DefsNamed(name))}
      BY <2>4 DEF AssertionOf
    <3> QED BY <1>2, <2>1, <2>3, <3>1, <3>2 DEF InBundle
  <2>5. CASE DefsNamed(name) = {}
    <3>1. AssertionOf(Event) =
            {[test |-> target, message |-> BundleEvents[m].message] : m \in Least(Namesakes(Event))}
      BY <2>5 DEF AssertionOf
    <3> SUFFICES ASSUME NEW m \in Least(Namesakes(Event))
                 PROVE  [test |-> target, message |-> BundleEvents[m].message] \in assertions
      BY <1>2, <3>1
    <3>2. m \in 1..Event /\ BundleEvents[m].name = name /\ \A j \in Namesakes(Event) : m <= j
      BY DEF Least, Namesakes
    <3>3. Event \in Namesakes(Event)
      BY <2>3 DEF Namesakes
    <3>4. m # Event
      <4>1. \A j \in Namesakes(Event) : j \in 1..Event
        BY DEF Namesakes
      <4>2. m = Event => Namesakes(Event) = {Event}
        BY <2>3, <3>2, <3>3, <4>1
      <4> QED BY <1>2, <2>5, <4>2 DEF Unmatched
    <3>5. m < Event /\ m \in DOMAIN BundleEvents
      BY <1>2, <2>2, <2>3, <3>2, <3>4
    <3>6. AssertionOf(m) =
            {[test |-> target, message |-> BundleEvents[j].message] : j \in Least(Namesakes(m))}
      BY <2>5, <3>2 DEF AssertionOf
    <3>7. m \in Least(Namesakes(m))
      <4>1. m \in Namesakes(m) /\ \A j \in Namesakes(m) : j \in Namesakes(Event)
        BY <2>3, <3>2, <3>5 DEF Namesakes
      <4> QED BY <3>2, <4>1 DEF Least
    <3>8. AssertionOf(m) \subseteq assertions
      BY <2>1, <3>5 DEF InBundle
    <3> QED BY <3>6, <3>7, <3>8
  <2> QED BY <1>2, <2>4, <2>5
<1> QED BY <1>1, <1>2 DEF InsertAssertionFailure

LEMMA CorrelationStep ==
    ASSUME RInv, [Next]_vars
    PROVE  CorrelationsResolve'
<1> USE DEF RInv, IInv, results, correlated
<1>1. CASE Unlink
  BY <1>1 DEF Unlink, CorrelationsResolve
<1> SUFFICES ASSUME ~Unlink PROVE CorrelationsResolve'
  BY <1>1
<1>2. Ids(runs) \subseteq Ids(runs)' /\ Ids(tests) \subseteq Ids(tests)'
  BY RowsStay
<1>3. CASE UNCHANGED correlated
  BY <1>2, <1>3, CorrelationsGrow DEF CorrelationsResolve
<1>4. CASE IndexWaveformSummary
  <2>1. PICK t \in Ids(tests) : waveforms' = Upsert(waveforms, [id |-> t, src |-> File.path])
    BY <1>4, FindTestTyped DEF IndexWaveformSummary
  <2>2. \A w \in waveforms' : w.id \in Ids(tests)'
    BY <1>2, <2>1 DEF Upsert, CorrelationsResolve
  <2> QED BY <1>2, <1>4, <2>2, CorrelationsGrow DEF IndexWaveformSummary, CorrelationsResolve
<1>5. CASE InsertAssertion \/ InsertUnknownAssertion
  BY <1>2, <1>5, CorrelationsGrow DEF InsertAssertion, InsertUnknownAssertion, CorrelationsResolve
<1>6. CASE InsertAssertionFailure
  <2>1. PICK a \in assertions :
           assertion_failures' = Append(assertion_failures,
               [assertion |-> a, test |-> target, run |-> target.run, src |-> File.path,
                message |-> BundleEvents[Event].message])
    BY <1>6, AssertionKnown DEF InsertAssertionFailure
  <2> DEFINE new == [assertion |-> a, test |-> target, run |-> target.run, src |-> File.path,
                     message |-> BundleEvents[Event].message]
  <2>2. target \in Ids(tests)
    BY <1>6 DEF InsertAssertionFailure, HandlerInv
  <2>3. new.assertion \in assertions /\ new.test \in Ids(tests) /\ new.run = new.test.run
    BY <2>2
  <2>4. assertion_failures \in Seq(AssertionFailureRows \cup {new})
    BY DEF TypeOK
  <2> HIDE DEF new
  <2>5. \A n \in DOMAIN assertion_failures' :
           assertion_failures'[n] = new
             \/ (n \in DOMAIN assertion_failures /\ assertion_failures'[n] = assertion_failures[n])
    BY <2>1, <2>4, AppendCases DEF new
  <2>6. \A n \in DOMAIN assertion_failures' :
           LET b == assertion_failures'[n] IN
           b.assertion \in assertions' /\ b.test \in Ids(tests)' /\ b.run = b.test.run
    BY <1>2, <1>6, <2>3, <2>5 DEF CorrelationsResolve, InsertAssertionFailure
  <2> QED BY <1>2, <1>6, <2>6, CorrelationsGrow DEF InsertAssertionFailure, CorrelationsResolve
<1>7. CASE InsertCoverageSummary
  <2> DEFINE new == [run |-> IF target = None THEN RunIdOf(File.path, File.build) ELSE target.run,
                     test |-> target, src |-> File.path]
  <2>1. coverage' = Append(coverage, new) /\ coverage \in Seq(CoverageRows \cup {new})
    BY <1>7 DEF InsertCoverageSummary, TypeOK
  <2>2. IF target = None THEN RunIdOf(File.path, File.build) \in Ids(runs)
                         ELSE target \in Ids(tests)
    BY <1>7 DEF InsertCoverageSummary, At, MidInv
  <2>3. \A t \in Ids(tests) : t.run \in Ids(runs)
    BY DEF ResultsResolve, Ids
  <2>4. new.run \in Ids(runs) /\ (new.test # None => new.test \in Ids(tests) /\ new.run = new.test.run)
    BY <2>2, <2>3
  <2> HIDE DEF new
  <2>5. \A n \in DOMAIN coverage' :
           coverage'[n] = new \/ (n \in DOMAIN coverage /\ coverage'[n] = coverage[n])
    BY <2>1, AppendCases
  <2>6. \A n \in DOMAIN coverage' :
           LET v == coverage'[n] IN
           /\ v.run \in Ids(runs)'
           /\ v.test # None => v.test \in Ids(tests)' /\ v.run = v.test.run
    BY <1>2, <2>4, <2>5 DEF CorrelationsResolve
  <2> QED BY <1>2, <1>7, <2>6, CorrelationsGrow DEF InsertCoverageSummary, CorrelationsResolve
<1>8. CASE InsertSvaRunStatus
  <2>1. PICK a \in AssertionIds \cup {None} :
           /\ a # None => a \in assertions
           /\ sva' = Append(sva, [assertion |-> a, test |-> target,
                                  run |-> IF target = None THEN None ELSE target.run,
                                  src |-> File.path])
    BY <1>8 DEF InsertSvaRunStatus, AssertionsNamed, TypeOK
  <2> DEFINE new == [assertion |-> a, test |-> target,
                     run |-> IF target = None THEN None ELSE target.run, src |-> File.path]
  <2>2. sva' = Append(sva, new) /\ sva \in Seq(SvaRows \cup {new})
    BY <2>1 DEF TypeOK
  <2>3. target \in Ids(tests) \cup {None}
    BY <1>8 DEF InsertSvaRunStatus, At, MidInv
  <2>4. /\ new.assertion # None => new.assertion \in assertions
        /\ new.test # None => new.test \in Ids(tests)
    BY <2>1, <2>3
  <2> HIDE DEF new
  <2>5. \A n \in DOMAIN sva' : sva'[n] = new \/ (n \in DOMAIN sva /\ sva'[n] = sva[n])
    BY <2>2, AppendCases
  <2>6. assertions' = assertions
    BY <1>8 DEF InsertSvaRunStatus
  <2>7. \A n \in DOMAIN sva' :
           /\ sva'[n].assertion # None => sva'[n].assertion \in assertions'
           /\ sva'[n].test # None => sva'[n].test \in Ids(tests)'
    BY <1>2, <2>4, <2>5, <2>6 DEF CorrelationsResolve
  <2> QED BY <1>2, <1>8, <2>7, CorrelationsGrow DEF InsertSvaRunStatus, CorrelationsResolve
<1> QED BY <1>3, <1>4, <1>5, <1>6, <1>7, <1>8, CorrelatedSteps

(***************************************************************************)
(* Evidence: its owner is written before it.                               *)
(***************************************************************************)
OwnersThere ==
    \A e \in evidence :
        /\ e.owner.kind = "failure" => e.owner.id \in Ids(failures)
        /\ e.owner.kind = "assertion_failure" => e.owner.id \in DOMAIN assertion_failures
        /\ e.owner.kind = "coverage" => e.owner.id \in DOMAIN coverage

LEMMA EvidenceKinds ==
    /\ TypeOK => (EvidenceResolves <=> OwnersThere)
    /\ TypeOK' => (EvidenceResolves' <=> OwnersThere')
<1>1. \A e \in EvidenceRows : e.owner.kind \in {"failure", "assertion_failure", "coverage"}
  BY DEF EvidenceRows
<1>2. ASSUME TypeOK PROVE EvidenceResolves <=> OwnersThere
  <2>1. \A e \in evidence : e.owner.kind \in {"failure", "assertion_failure", "coverage"}
    BY <1>1, <1>2 DEF TypeOK
  <2> QED BY <2>1 DEF EvidenceResolves, OwnersThere
<1>3. ASSUME TypeOK' PROVE EvidenceResolves' <=> OwnersThere'
  <2>1. \A e \in evidence' : e.owner.kind \in {"failure", "assertion_failure", "coverage"}
    BY <1>1, <1>3 DEF TypeOK, EvidenceRows
  <2> QED BY <2>1 DEF EvidenceResolves, OwnersThere
<1> QED BY <1>2, <1>3

\* The actions that write evidence.
LEMMA EvidenceSteps ==
    ASSUME [Next]_vars
    PROVE  \/ UNCHANGED evidence
           \/ Unlink \/ DeleteEvidence \/ InsertEvidence
           \/ InsertAssertionEvidence \/ InsertCoverageEvidence
<1> USE DEF tables
<1>1. CASE UNCHANGED vars \/ Export \/ Scan \/ Crash
  BY <1>1 DEF vars, Export, Scan, Crash, Stop
<1>2. CASE Connect \/ NextPhase \/ SkipFile \/ Close \/ AbortOnFile \/ AbortOnSva
  BY <1>2 DEF Connect, NextPhase, SkipFile, Close, AbortOnFile, AbortOnSva, Stop
<1>3. CASE \/ IndexUvmLog \/ IndexCocotbXml \/ InsertTest \/ InsertTopology \/ InsertFailure
           \/ EndFailure \/ EndTest
  BY <1>3 DEF IndexUvmLog, IndexCocotbXml, OpenResults, InsertTest, InsertTopology, InsertFailure,
              EndFailure, EndTest
<1>4. CASE \/ IndexWaveformSummary \/ IndexAssertionArtifact \/ IndexLogAssertions
           \/ InsertAssertion \/ InsertUnknownAssertion \/ InsertAssertionFailure \/ EndBundle
           \/ IndexCoverageArtifact \/ InsertCoverageSummary
           \/ IndexSvaStatusArtifact \/ InsertSvaRunStatus \/ EndSva
  BY <1>4 DEF IndexWaveformSummary, IndexAssertionArtifact, IndexLogAssertions, ResolveBundle,
              InsertAssertion, InsertUnknownAssertion, InsertAssertionFailure, EndBundle,
              IndexCoverageArtifact, InsertCoverageSummary, IndexSvaStatusArtifact,
              InsertSvaRunStatus, EndSva
<1> QED BY <1>1, <1>2, <1>3, <1>4 DEF Next, Proceed, IndexResults, Correlate

\* Rows with a sequence number are only added.
LEMMA NumberedRowsStay ==
    ASSUME TypeOK, [Next]_vars, ~Unlink
    PROVE  /\ DOMAIN assertion_failures \subseteq DOMAIN assertion_failures'
           /\ DOMAIN coverage \subseteq DOMAIN coverage'
<1>1. CASE InsertAssertionFailure
  <2>1. PICK x : assertion_failures' = Append(assertion_failures, x)
    BY <1>1 DEF InsertAssertionFailure
  <2>2. assertion_failures \in Seq(AssertionFailureRows \cup {x})
    BY DEF TypeOK
  <2> QED BY <1>1, <2>1, <2>2, AppendCases DEF InsertAssertionFailure
<1>2. CASE InsertCoverageSummary
  <2>1. PICK x : coverage' = Append(coverage, x)
    BY <1>2 DEF InsertCoverageSummary
  <2>2. coverage \in Seq(CoverageRows \cup {x})
    BY DEF TypeOK
  <2> QED BY <1>2, <2>1, <2>2, AppendCases DEF InsertCoverageSummary
<1>3. CASE \/ UNCHANGED correlated \/ IndexWaveformSummary \/ InsertAssertion
           \/ InsertUnknownAssertion \/ InsertSvaRunStatus
  BY <1>3 DEF correlated, IndexWaveformSummary, InsertAssertion, InsertUnknownAssertion,
              InsertSvaRunStatus
<1> QED BY <1>1, <1>2, <1>3, CorrelatedSteps

LEMMA EvidenceStep ==
    ASSUME RInv, [Next]_vars
    PROVE  EvidenceResolves'
<1> USE DEF RInv, IInv
<1>1. TypeOK' /\ OwnersThere
  BY TypeStep, EvidenceKinds
<1> SUFFICES OwnersThere'
  BY <1>1, EvidenceKinds
<1>2. CASE Unlink
  BY <1>2 DEF Unlink, OwnersThere
<1> SUFFICES ASSUME ~Unlink PROVE OwnersThere'
  BY <1>2
<1>3. /\ Ids(failures) \subseteq Ids(failures)'
      /\ DOMAIN assertion_failures \subseteq DOMAIN assertion_failures'
      /\ DOMAIN coverage \subseteq DOMAIN coverage'
  BY RowsStay, NumberedRowsStay
<1>4. CASE UNCHANGED evidence \/ DeleteEvidence
  <2>1. evidence' \subseteq evidence
    BY <1>4 DEF DeleteEvidence
  <2> QED BY <1>1, <1>3, <2>1 DEF OwnersThere
<1>5. CASE InsertEvidence
  <2>1. PICK k \in Least(left) :
           evidence' = evidence \cup {[owner |-> FailureOwner(FailureIdAt(k)),
                                       ref |-> File.fails[k].refs[ref]]}
    BY <1>5 DEF InsertEvidence, AddEvidence
  <2>2. FailureIdAt(k) \in Ids(failures)
    BY <1>5, <2>1 DEF InsertEvidence, At, MidInv
  <2> QED BY <1>1, <1>3, <2>1, <2>2 DEF OwnersThere, FailureOwner
<1>6. CASE InsertAssertionEvidence
  <2>1. evidence' = evidence \cup {[owner |-> RowOwner("assertion_failure", Len(assertion_failures)),
                                    ref |-> File.path]}
    BY <1>6 DEF InsertAssertionEvidence, AddEvidence
  <2>2. Len(assertion_failures) \in DOMAIN assertion_failures
    BY <1>6 DEF InsertAssertionEvidence, MidInv, InBundle, TypeOK
  <2> QED BY <1>1, <1>3, <2>1, <2>2 DEF OwnersThere, RowOwner
<1>7. CASE InsertCoverageEvidence
  <2>1. evidence' = evidence \cup {[owner |-> RowOwner("coverage", Len(coverage)), ref |-> File.path]}
    BY <1>7 DEF InsertCoverageEvidence, AddEvidence
  <2>2. Len(coverage) \in DOMAIN coverage
    BY <1>7 DEF InsertCoverageEvidence, At, MidInv, TypeOK
  <2> QED BY <1>1, <1>3, <2>1, <2>2 DEF OwnersThere, RowOwner
<1> QED BY <1>4, <1>5, <1>6, <1>7, EvidenceSteps

(***************************************************************************)
(* What a handler's later statements rely on.                              *)
(***************************************************************************)
LEMMA MidSteps ==
    ASSUME TypeOK, [Next]_vars
    PROVE  \/ stage' = "open"
           \/ UNCHANGED <<scan, cursor, tables>>
           \/ IndexResults
           \/ IndexAssertionArtifact \/ IndexLogAssertions
           \/ InsertAssertion \/ InsertUnknownAssertion
           \/ InsertAssertionFailure \/ InsertAssertionEvidence
           \/ IndexCoverageArtifact \/ InsertCoverageSummary
           \/ IndexSvaStatusArtifact \/ InsertSvaRunStatus
<1>1. CASE UNCHANGED vars \/ Export
  BY <1>1 DEF vars, Export, cursor, tables
<1>2. CASE Scan \/ Crash \/ Unlink \/ Connect \/ NextPhase \/ Close \/ SkipFile
           \/ AbortOnFile \/ AbortOnSva
  BY <1>2 DEF Scan, Crash, Unlink, Connect, NextPhase, Close, SkipFile, AbortOnFile, AbortOnSva,
              Stop, NextFile, Open, Goto
<1>3. CASE IndexWaveformSummary \/ EndBundle \/ InsertCoverageEvidence \/ EndSva
  BY <1>3 DEF IndexWaveformSummary, EndBundle, InsertCoverageEvidence, EndSva, NextFile, Open, Goto
<1> QED BY <1>1, <1>2, <1>3 DEF Next, Proceed, Correlate

LEMMA BundleTyped ==
    ASSUME TypeOK, pos \in DOMAIN Work(phase), phase \in {"assertions", "log_assertions"}
    PROVE  BundleDefs \in Seq(Defs) /\ BundleEvents \in Seq(AssertionEvents)
<1>1. \A S : << >> \in Seq(S)
  OBVIOUS
<1> QED BY <1>1, CurrentFile DEF BundleDefs, BundleEvents, AssertFiles, ResultFiles

\* An assertion's identity depends on the file and the test, not on the cursor in the file.
LEMMA SameAssertion ==
    ASSUME UNCHANGED <<scan, phase, pos, target>>
    PROVE  \A k : AssertionOf(k)' = AssertionOf(k)
<1>1. BundleDefs' = BundleDefs /\ BundleEvents' = BundleEvents
  BY SameFile
<1> QED BY <1>1 DEF AssertionOf, DefsNamed, Namesakes, Greatest, Least

\* The steps of a bundle: before a failure is stored its assertion is.
LEMMA BundleStep ==
    ASSUME TypeOK, HandlerInv, MidInv,
           \/ InsertAssertion \/ InsertUnknownAssertion
           \/ InsertAssertionFailure \/ InsertAssertionEvidence
    PROVE  MidInv'
<1>1. /\ stage \in {"bundle", "event", "event_evidence"}
      /\ UNCHANGED <<scan, phase, pos, target>>
      /\ stage' \in {"bundle", "event", "event_evidence"}
  BY DEF InsertAssertion, InsertUnknownAssertion, InsertAssertionFailure,
         InsertAssertionEvidence, Stay, Goto
<1>2. phase \in {"assertions", "log_assertions"} /\ pos \in DOMAIN Work(phase) /\ InBundle
  BY <1>1 DEF TypeOK, StagesOf, Phases, HandlerInv, MidInv
<1>3. /\ BundleDefs \in Seq(Defs) /\ BundleEvents \in Seq(AssertionEvents)
      /\ Len(BundleDefs) \in Nat /\ item \in Nat
  BY <1>2, BundleTyped DEF TypeOK
<1>4. /\ BundleDefs' = BundleDefs /\ BundleEvents' = BundleEvents
      /\ \A k : AssertionOf(k)' = AssertionOf(k)
  BY <1>1, SameFile, SameAssertion
<1> SUFFICES InBundle'
  BY <1>1 DEF MidInv
<1>5. CASE InsertAssertion
  <2>1. /\ stage' = "bundle" /\ item' = item + 1 /\ item \in 1..Len(BundleDefs)
        /\ assertions' = assertions \cup {[def |-> BundleDefs[item]]}
    BY <1>3, <1>5 DEF InsertAssertion, Stay, Goto
  <2>2. Event' <= 1
    BY <1>3, <1>4, <2>1 DEF Event
  <2>3. Event' \in Int /\ \A k \in DOMAIN BundleEvents : ~(k < Event')
    BY <1>3, <1>4, <2>1, <2>2 DEF Event
  <2>4. \A d \in DOMAIN BundleDefs : d < item' => d < item \/ d = item
    BY <1>3, <2>1
  <2>5. \A d \in DOMAIN BundleDefs : d < item' => [def |-> BundleDefs[d]] \in assertions'
    BY <1>2, <2>1, <2>4 DEF InBundle
  <2> QED BY <1>4, <2>1, <2>3, <2>5 DEF InBundle
<1>6. CASE InsertUnknownAssertion
  <2>1. /\ stage' = "event" /\ item' = item /\ Event \in DOMAIN BundleEvents
        /\ assertions' = assertions \cup AssertionOf(Event)
    BY <1>6 DEF InsertUnknownAssertion, Stay, Goto
  <2>2. Event' = Event
    BY <1>4, <2>1 DEF Event
  <2>3. \A k \in DOMAIN BundleEvents :
           k < Event \/ k = Event => AssertionOf(k) \subseteq assertions'
    BY <1>2, <2>1 DEF InBundle
  <2>4. \A d \in DOMAIN BundleDefs : d < item' => [def |-> BundleDefs[d]] \in assertions'
    BY <1>2, <2>1 DEF InBundle
  <2> QED BY <1>4, <2>1, <2>2, <2>3, <2>4 DEF InBundle
<1>7. CASE InsertAssertionFailure
  <2>1. stage' = "event_evidence" /\ item' = item /\ assertions' = assertions
    BY <1>7 DEF InsertAssertionFailure, Stay, Goto
  <2>2. Event' = Event
    BY <1>4, <2>1 DEF Event
  <2>3. assertion_failures' # << >>
    <3>1. PICK x : assertion_failures' = Append(assertion_failures, x)
      BY <1>7 DEF InsertAssertionFailure
    <3>2. assertion_failures \in Seq(AssertionFailureRows \cup {x})
      BY DEF TypeOK
    <3> QED BY <3>1, <3>2, AppendCases
  <2>4. \A k \in DOMAIN BundleEvents :
           k < Event \/ k = Event => AssertionOf(k) \subseteq assertions
    BY <1>2, <1>7, AssertionKnown DEF InBundle
  <2>5. \A d \in DOMAIN BundleDefs : d < item => [def |-> BundleDefs[d]] \in assertions
    BY <1>2 DEF InBundle
  <2> QED BY <1>4, <1>7, <2>1, <2>2, <2>3, <2>4, <2>5, AssertionKnown DEF InBundle
<1>8. CASE InsertAssertionEvidence
  <2>1. /\ stage = "event_evidence" /\ stage' = "bundle" /\ item' = item + 1
        /\ assertions' = assertions
    BY <1>8 DEF InsertAssertionEvidence, Stay, Goto, correlated
  <2>2. Event \in DOMAIN BundleEvents /\ Event' = Event + 1 /\ Event \in Int
    BY <1>2, <1>3, <1>4, <2>1 DEF InBundle, Event
  <2>3. \A k \in DOMAIN BundleEvents : k < Event' => k < Event \/ k = Event
    BY <1>3, <2>2
  <2>4. \A k \in DOMAIN BundleEvents : k < Event' => AssertionOf(k) \subseteq assertions'
    BY <1>2, <2>1, <2>3 DEF InBundle
  <2>5. \A d \in DOMAIN BundleDefs : d < item
    BY <1>3, <2>2 DEF Event
  <2>6. \A d \in DOMAIN BundleDefs : d < item' => [def |-> BundleDefs[d]] \in assertions'
    BY <1>2, <2>1, <2>5 DEF InBundle
  <2> QED BY <1>4, <2>1, <2>4, <2>6 DEF InBundle
<1> QED BY <1>5, <1>6, <1>7, <1>8

LEMMA ResultsMidStep ==
    ASSUME TypeOK, HandlerInv, MidInv, IndexResults
    PROVE  MidInv'
<1>1. /\ phase = "results" /\ stage' \in {"open", "test", "topology", "failure", "purge", "evidence"}
  BY DEF IndexResults, IndexUvmLog, IndexCocotbXml, OpenResults, Opening, At, InsertTest,
         InsertTopology, InsertFailure, DeleteEvidence, InsertEvidence, EndFailure, EndTest, Stay,
         NextFile, Open, Goto, TypeOK, StagesOf
<1> SUFFICES ASSUME stage' \in {"purge", "evidence"}, NEW k \in Least(left')
             PROVE  FailureIdAt(k)' \in Ids(failures)'
  BY <1>1 DEF MidInv, Least
<1>2. InsertFailure \/ DeleteEvidence \/ InsertEvidence
  BY DEF IndexResults, IndexUvmLog, IndexCocotbXml, OpenResults, InsertTest, InsertTopology,
         EndFailure, EndTest, Stay, NextFile, Open, Goto
<1>3. UNCHANGED <<scan, phase, pos, item, left>>
  BY <1>2 DEF InsertFailure, DeleteEvidence, InsertEvidence, Stay, Goto
<1>4. FailureIdAt(k)' = FailureIdAt(k) /\ k \in Least(left)
  BY <1>3, SameFile DEF FailureIdAt, Least, TestIdOf, RunOf, FailureIdOf
<1>5. CASE InsertFailure
  <2>1. PICK j \in Least(left) :
           failures' = Upsert(failures, [id |-> FailureIdAt(j), run |-> RunOf(File),
                                         occ |-> File.fails[j].occ])
    BY <1>5 DEF InsertFailure
  <2>2. j = k
    BY <1>4, <2>1 DEF Least, TypeOK
  <2>3. FailureIdAt(j) \in Ids(failures')
    BY <2>1, UpsertIds
  <2> QED BY <1>4, <2>2, <2>3 DEF Ids
<1>6. CASE DeleteEvidence \/ InsertEvidence
  <2>1. stage \in {"purge", "evidence"} /\ failures' = failures
    BY <1>6 DEF DeleteEvidence, InsertEvidence, At, results
  <2> QED BY <1>4, <2>1 DEF MidInv, Ids
<1> QED BY <1>2, <1>5, <1>6

LEMMA MidStep ==
    ASSUME RInv, [Next]_vars
    PROVE  MidInv'
<1> USE DEF RInv, IInv
<1>1. CASE stage' = "open"
  BY <1>1 DEF MidInv
<1>2. CASE UNCHANGED <<scan, cursor, tables>>
  <2>1. UNCHANGED <<scan, phase, pos, stage, item, left, target, runs, tests, failures,
                    assertions, assertion_failures, coverage>>
    BY <1>2 DEF cursor, tables, results, correlated
  <2>2. /\ File' = File /\ BundleDefs' = BundleDefs /\ BundleEvents' = BundleEvents
        /\ \A k : AssertionOf(k)' = AssertionOf(k)
    BY <2>1, SameFile, SameAssertion
  <2>3. InBundle => InBundle'
    BY <2>1, <2>2 DEF InBundle, Event
  <2>4. \A k : FailureIdAt(k)' = FailureIdAt(k)
    BY <2>1, <2>2 DEF FailureIdAt
  <2> QED BY <2>1, <2>2, <2>3, <2>4 DEF MidInv, Ids, Least
<1>3. CASE IndexResults
  BY <1>3, ResultsMidStep
<1>4. CASE IndexAssertionArtifact \/ IndexLogAssertions
  <2>1. /\ phase \in {"assertions", "log_assertions"} /\ pos \in DOMAIN Work(phase)
        /\ \E q, fw : ResolveBundle(q, fw)
    BY <1>4 DEF IndexAssertionArtifact, IndexLogAssertions, Opening
  <2>2. UNCHANGED <<scan, phase, pos>> /\ stage' = "bundle" /\ item' = 1
    BY <2>1 DEF ResolveBundle, Goto
  <2>3. /\ BundleDefs' \in Seq(Defs) /\ BundleEvents' \in Seq(AssertionEvents)
        /\ Len(BundleDefs') \in Nat
    BY <2>1, <2>2, BundleTyped, SameFile
  <2>4. \A d \in DOMAIN BundleDefs' : ~(d < item')
    BY <2>2, <2>3
  <2>5. \A k \in DOMAIN BundleEvents' : ~(k < Event')
    BY <2>2, <2>3 DEF Event
  <2> QED BY <2>2, <2>4, <2>5 DEF MidInv, InBundle
<1>5. CASE InsertAssertion \/ InsertUnknownAssertion
           \/ InsertAssertionFailure \/ InsertAssertionEvidence
  BY <1>5, BundleStep
<1>6. CASE IndexCoverageArtifact
  <2> DEFINE t == ResolveTest(File.test, "cocotb")
             id == RunIdOf(File.path, File.build)
  <2>1. /\ IF t = None THEN UpsertRun(id, "pass") ELSE UNCHANGED runs
        /\ UNCHANGED <<scan, phase, pos, tests>> /\ stage' = "summary" /\ target' = t
    BY <1>6 DEF IndexCoverageArtifact, Goto
  <2>2. File \in CoverageFiles
    BY <1>6, CurrentFile DEF IndexCoverageArtifact, Opening
  <2>3. id \in RunIds /\ "pass" \in Statuses
    BY <2>2 DEF CoverageFiles, RunIdOf, RunIds, Statuses
  <2> HIDE DEF id
  <2>4. t = None => id \in Ids(runs)'
    BY <2>1, <2>3, UpsertRunFacts DEF TypeOK, Ids
  <2>5. t # None => t \in Ids(tests)'
    BY <2>1, FindTestTyped DEF Ids
  <2>6. RunIdOf(File.path, File.build)' = id
    BY <2>1, SameFile DEF id, RunIdOf
  <2> QED BY <2>1, <2>4, <2>5, <2>6 DEF MidInv
<1>7. CASE InsertCoverageSummary
  <2>1. stage' = "summary_evidence" /\ \E x : coverage' = Append(coverage, x)
    BY <1>7 DEF InsertCoverageSummary, Stay, Goto
  <2>2. coverage' # << >>
    <3>1. PICK x : coverage' = Append(coverage, x)
      BY <2>1
    <3>2. coverage \in Seq(CoverageRows \cup {x})
      BY DEF TypeOK
    <3> QED BY <3>1, <3>2, AppendCases
  <2> QED BY <2>1, <2>2 DEF MidInv
<1>8. CASE IndexSvaStatusArtifact
  <2>1. stage' = "entry" /\ target' \in Ids(tests) \cup {None} /\ tests' = tests
    BY <1>8, FindTestTyped DEF IndexSvaStatusArtifact, Goto, tables, results
  <2> QED BY <2>1 DEF MidInv, Ids
<1>9. CASE InsertSvaRunStatus
  <2>1. /\ stage = "entry" /\ stage' = "entry" /\ target' = target /\ tests' = tests
    BY <1>9 DEF InsertSvaRunStatus, At, Stay, Goto, results
  <2> QED BY <2>1 DEF MidInv, Ids
<1> QED BY <1>1, <1>2, <1>3, <1>4, <1>5, <1>6, <1>7, <1>8, <1>9, MidSteps

(***************************************************************************)
(* Theorems.                                                               *)
(***************************************************************************)
\* RInv holds of every reachable state: besides IInv, what the statements of a handler
\* that are still to come will name is already stored.
THEOREM ReferencesInductive == Spec => []RInv
<1>1. Init => RInv
  <2>1. Init => IInv
    BY TypeInit, HandlerInit DEF IInv, Init, ResultsResolve, FailedRunNeverPasses
  <2> QED BY <2>1 DEF Init, RInv, MidInv, CorrelationsResolve, EvidenceResolves
<1>2. RInv /\ [Next]_vars => RInv'
  <2>1. ASSUME RInv, [Next]_vars PROVE IInv'
    BY <2>1, TypeStep, HandlerStep, ResolveStep, NeverPassesStep DEF RInv, IInv
  <2> QED BY <2>1, MidStep, CorrelationStep, EvidenceStep DEF RInv
<1> QED BY <1>1, <1>2, PTL DEF Spec

\* A store without foreign keys, filled in autocommitted statements by a process that may
\* stop between any two of them, never shows a row that names a row which is not there.
THEOREM ReferencesAlwaysResolve == Spec => []ReferencesResolve
<1>1. RInv => ReferencesResolve
  BY DEF RInv, IInv, ReferencesResolve
<1> QED BY ReferencesInductive, <1>1, PTL
=============================================================================

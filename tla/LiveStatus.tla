------------------------------ MODULE LiveStatus ------------------------------
(***************************************************************************)
(* sim.status: a server reads the status files that simulator harnesses    *)
(* rewrite under it. LiveSimAdapter stats the candidates one by one, reads *)
(* the newest and stats it again for its age; each is a step of its own    *)
(* here, and harnesses, crashes and the clock run between any two.         *)
(*                                                                         *)
(* A reference harness (examples/live_sim_writer.py) writes a file beside  *)
(* the status file and renames it over; any other harness is external and  *)
(* rewrites the file in place, in the documented format. A file is its     *)
(* mtime and, once it is all there, the number of tests done.              *)
(***************************************************************************)
EXTENDS Naturals, Sequences

CONSTANTS
    Search,       \* the status files' paths, in the order the roots are searched
    Matching,     \* Matching[suite]: the paths that contain the suite's name
    InPlace,      \* the paths whose harness rewrites in place
    TestsTotal,   \* the tests a harness plans
    MaxAge,       \* adapters.live_sim_max_age_seconds
    None,
    MaxTime       \* the clock stops there

Paths == {Search[n] : n \in DOMAIN Search}
Suites == DOMAIN Matching

ASSUME SearchAssumption ==
    /\ Search \in Seq(Paths)
    /\ \A m, n \in DOMAIN Search : Search[m] = Search[n] => m = n
    /\ Matching \in [Suites -> SUBSET Paths] /\ InPlace \subseteq Paths
    /\ TestsTotal \in Nat \ {0} /\ MaxAge \in Nat /\ MaxTime \in Nat

\* None is no suite, no count of tests, no file and no candidate.
ASSUME NoneAssumption ==
    /\ None \notin Suites /\ None \notin 0..(TestsTotal + 1)
    /\ \A d \in 0..(TestsTotal + 1) \cup {None}, t \in 0..MaxTime :
          None # [done |-> d, mtime |-> t]
    /\ \A p \in Paths, t \in 0..MaxTime : None # [path |-> p, mtime |-> t]

VARIABLES
    enabled,  \* adapters.live_sim, as the server's configuration has it
    now,      \* seconds
    file,     \* file[p]: the status file, or None
    harness,  \* harness[p]: "off", "simulating" or "writing"
    draft,    \* draft[p]: the tests harness p has done, by its own count
    deadAt,   \* deadAt[p]: when harness p last stopped for good
    pc,       \* the server: "idle", "stat", "read" or "age"
    suite,    \* the suite of the call, or None when it names a status_path
    next,     \* the place of the next candidate in Search
    best,     \* [path, mtime] of the first of the newest candidates, or None
    text,     \* what was read
    answer,   \* the last answer, or None
    quiet,    \* no file has changed since the call began
    steady    \* a file asked for was there when the call began, and since then none has been
              \* removed or half-written

files == <<file, harness, draft, deadAt>>
call == <<pc, suite, next, best, text, answer>>
vars == <<enabled, now, files, call, quiet, steady>>

Whole(p) == file[p] # None /\ file[p].done # None

(***************************************************************************)
(* Harnesses.                                                              *)
(***************************************************************************)
Touched(p) == quiet' = (pc = "idle")
Asked == IF suite = None THEN {best.path} ELSE Matching[suite]
Broken(p) == steady' = (steady /\ pc # "idle" /\ p \notin Asked)

\* The harness counts on, and past the tests it planned when it retries some. A new
\* regression starts from none.
Count(p) ==
    \E d \in draft[p]..(TestsTotal + 1) :
        /\ harness[p] = "off" => d = 0
        /\ draft' = [draft EXCEPT ![p] = d]

\* LiveStatusWriter.update: a whole file is renamed over the old one. A harness that dies
\* before the rename has written nothing the server looks at.
Update(p) ==
    /\ p \notin InPlace
    /\ Count(p)
    /\ file' = [file EXCEPT ![p] = [done |-> draft'[p], mtime |-> now]]
    /\ harness' = [harness EXCEPT ![p] = "simulating"]
    /\ Touched(p)
    /\ UNCHANGED <<enabled, now, deadAt, call, steady>>

\* A harness that opens the status file for writing, and writes it.
Truncate(p) ==
    /\ p \in InPlace /\ harness[p] # "writing"
    /\ Count(p)
    /\ file' = [file EXCEPT ![p] = [done |-> None, mtime |-> now]]
    /\ harness' = [harness EXCEPT ![p] = "writing"]
    /\ Touched(p) /\ Broken(p)
    /\ UNCHANGED <<enabled, now, deadAt, call>>

Write(p) ==
    /\ harness[p] = "writing"
    /\ file' = [file EXCEPT ![p] = [done |-> draft[p], mtime |-> now]]
    /\ harness' = [harness EXCEPT ![p] = "simulating"]
    /\ Touched(p)
    /\ UNCHANGED <<enabled, now, draft, deadAt, call, steady>>

\* The harness is killed, or its simulation is over.
Die(p) ==
    /\ harness[p] # "off"
    /\ harness' = [harness EXCEPT ![p] = "off"]
    /\ deadAt' = [deadAt EXCEPT ![p] = now] /\ draft' = [draft EXCEPT ![p] = 0]
    /\ UNCHANGED <<enabled, now, file, call, quiet, steady>>

\* The run directory is cleaned.
Remove(p) ==
    /\ harness[p] = "off" /\ file[p] # None
    /\ file' = [file EXCEPT ![p] = None]
    /\ Touched(p) /\ Broken(p)
    /\ UNCHANGED <<enabled, now, harness, draft, deadAt, call>>

Tick ==
    /\ now < MaxTime /\ now' = now + 1
    /\ UNCHANGED <<enabled, files, call, quiet, steady>>

(***************************************************************************)
(* The server: get_sim_status, LiveSimAdapter.read and find_status_file.   *)
(***************************************************************************)
Answer(kind, path, done, stale, vanished) ==
    answer' = [kind |-> kind, path |-> path, done |-> done, stale |-> stale,
               vanished |-> vanished]

Idle ==
    /\ pc' = "idle" /\ suite' = None /\ next' = 1 /\ best' = None /\ text' = None
    /\ quiet' = TRUE /\ steady' = FALSE
NotFound == Idle /\ Answer("NOT_FOUND", None, None, FALSE, FALSE)

Begin(s, asked) ==
    /\ pc = "idle" /\ enabled
    /\ suite' = s /\ answer' = None
    /\ steady' = (/\ \E p \in asked : file[p] # None
                  /\ \A p \in asked : file[p] # None => Whole(p))
    /\ UNCHANGED <<enabled, now, files, next, text, quiet>>

Call(s) == Begin(s, Matching[s]) /\ pc' = "stat" /\ UNCHANGED best

\* An explicit status_path is not searched for.
CallPath(p) == Begin(None, {p}) /\ pc' = "read" /\ best' = [path |-> p, mtime |-> now]

ConfigError ==
    /\ pc = "idle" /\ ~enabled
    /\ Answer("CONFIG_ERROR", None, None, FALSE, FALSE)
    /\ UNCHANGED <<enabled, now, files, pc, suite, next, best, text, quiet, steady>>

BetterOldest(p) == best = None \/ file[p].mtime < best.mtime \* mutant: not reversed

\* sort by mtime, newest first; the sort is stable.
Better(p) == best = None \/ file[p].mtime > best.mtime

StatCandidateAny == \* mutant: the suite's name is not looked for
    /\ pc = "stat" /\ next \in DOMAIN Search
    /\ LET p == Search[next] IN
       best' = IF file[p] # None /\ Better(p)
               THEN [path |-> p, mtime |-> file[p].mtime] ELSE best
    /\ next' = next + 1
    /\ UNCHANGED <<enabled, now, files, pc, suite, text, answer, quiet, steady>>

StatCandidate ==
    /\ pc = "stat" /\ next \in DOMAIN Search
    /\ LET p == Search[next] IN
       best' = IF p \in Matching[suite] /\ file[p] # None /\ Better(p)
               THEN [path |-> p, mtime |-> file[p].mtime] ELSE best
    /\ next' = next + 1
    /\ UNCHANGED <<enabled, now, files, pc, suite, text, answer, quiet, steady>>

Choose ==
    /\ pc = "stat" /\ next \notin DOMAIN Search
    /\ IF best = None THEN NotFound
       ELSE pc' = "read" /\ UNCHANGED <<suite, next, best, text, answer, quiet, steady>>
    /\ UNCHANGED <<enabled, now, files>>

\* read_text and json.loads: a file that is gone or half-written is no file.
ReadText ==
    /\ pc = "read"
    /\ IF Whole(best.path)
       THEN /\ pc' = "age" /\ text' = file[best.path].done
            /\ UNCHANGED <<suite, next, best, answer, quiet, steady>>
       ELSE NotFound
    /\ UNCHANGED <<enabled, now, files>>

ValidBelow(done) == done < TestsTotal \* mutant: lt=100 for le=100

\* percent_done, given or computed, is at most 100, or the answer is no answer.
Valid(done) == done <= TestsTotal

StaleBlind(p) == file[p] = None \* mutant: the branches are swapped

\* The age of the file, which may be a newer one than was read, or gone: then it is fresh.
Stale(p) == IF file[p] = None THEN FALSE ELSE now - file[p].mtime > MaxAge

StatAge ==
    /\ pc = "age"
    /\ IF Valid(text)
       THEN Idle /\ Answer("ok", best.path, text, Stale(best.path), file[best.path] = None)
       ELSE NotFound
    /\ UNCHANGED <<enabled, now, files>>

(***************************************************************************)
(* The specification.                                                      *)
(***************************************************************************)
Init ==
    /\ enabled \in BOOLEAN /\ now = 0
    /\ file = [p \in Paths |-> None]
    /\ harness = [p \in Paths |-> "off"]
    /\ draft = [p \in Paths |-> 0]
    /\ deadAt = [p \in Paths |-> 0]
    /\ pc = "idle" /\ suite = None /\ next = 1 /\ best = None /\ text = None
    /\ answer = None /\ quiet = TRUE /\ steady = FALSE

Server == StatCandidate \/ Choose \/ ReadText \/ StatAge
Harness(p) == Update(p) \/ Truncate(p) \/ Write(p) \/ Die(p) \/ Remove(p)

Next ==
    \/ Tick \/ ConfigError \/ Server
    \/ \E s \in Suites : Call(s)
    \/ \E p \in Paths : CallPath(p) \/ Harness(p)

Spec == Init /\ [][Next]_vars

(***************************************************************************)
(* Properties.                                                             *)
(***************************************************************************)
\* The call is about a file of its suite, and has read one exactly while it looks at its age.
TypeOK ==
    /\ enabled \in BOOLEAN /\ now \in 0..MaxTime
    /\ \A p \in Paths : file[p] # None =>
          file[p].done \in 0..(TestsTotal + 1) \cup {None} /\ file[p].mtime \in 0..now
    /\ harness \in [Paths -> {"off", "simulating", "writing"}]
    /\ draft \in [Paths -> 0..(TestsTotal + 1)] /\ deadAt \in [Paths -> 0..now]
    /\ pc \in {"idle", "stat", "read", "age"} /\ suite \in Suites \cup {None}
    /\ next \in 1..(Len(Search) + 1)
    /\ best # None => best.path \in Asked /\ best.mtime \in 0..now
    /\ pc \in {"read", "age"} => best # None
    /\ text \in 0..(TestsTotal + 1) \cup {None} /\ (text # None <=> pc = "age")
    /\ quiet \in BOOLEAN /\ steady \in BOOLEAN

\* A call during which no file changed answers the newest file of the suite, though its
\* candidates were looked at one after the other, with the staleness of that very file.
NewestAnswered ==
    (pc = "age" /\ quiet /\ suite # None) =>
        /\ text = file[best.path].done
        /\ \A p \in Matching[suite] : file[p] # None => file[p].mtime <= file[best.path].mtime

\* While no matching file is removed or rewritten in place, a call finds one, whatever
\* reference harnesses rename over it, create or finish meanwhile, unless a harness has
\* done more tests than it planned.
FoundIfSteady ==
    [][(steady /\ answer' \notin {answer, None} /\ answer'.kind = "NOT_FOUND") =>
          text # None /\ text > TestsTotal]_vars

\* A harness that stopped more than MaxAge ago, and has not been started again, is never
\* answered for as fresh, whatever it left unfinished; only a file removed under the call
\* is taken for fresh.
DeadIsStale ==
    [][(answer' \notin {answer, None} /\ answer'.kind = "ok" /\ ~answer'.vanished) =>
          LET p == answer'.path IN
          (harness[p] = "off" /\ now > deadAt[p] + MaxAge) => answer'.stale]_vars

=============================================================================

-------------------------------- MODULE TestIds --------------------------------
(***************************************************************************)
(* The deterministic id generators of internal/testids.  A test installs a *)
(* generator of its own as the process-wide default of the SDK, which has  *)
(* no lock, and its cleanup puts the previous one back; between the two it *)
(* holds globalMu.  The goroutines of a test ask the default generator for *)
(* ids, and a generator numbers them under a lock of its own.              *)
(*                                                                         *)
(* A test installs one generator, its goroutines ask for ids only after    *)
(* that, and its cleanup runs when they have ended.                        *)
(***************************************************************************)
EXTENDS Integers, Sequences

CONSTANTS
    Tests,       \* each stands for the generator it makes as well
    Goroutines,
    TestOf,      \* the test a goroutine belongs to
    Original,    \* the SDK's own generator
    Nobody,      \* holds a lock that is free, is used by an idle goroutine
    MaxIDs       \* bound: a test that got so many ids asks for no more

ASSUME TestsAssumption ==
    /\ TestOf \in [Goroutines -> Tests]
    /\ Original \notin Tests /\ Nobody \notin Tests \cup {Original} \cup Goroutines

VARIABLES
    globalMu,    \* the test that holds it
    default,     \* the SDK's default generator
    previous,    \* per test: the generator its cleanup restores
    pc,          \* per test: where it is
    mu,          \* per generator: the goroutine that holds its lock
    next,        \* per generator: the number of the next id
    using,       \* per goroutine: the generator it asks
    number,      \* per goroutine: the number it read, 0 outside generate
    ids          \* per test: the ids it got, each the generator and a number

vars == <<globalMu, default, previous, pc, mu, next, using, number, ids>>

Generators == Tests \cup {Original}

Init ==
    /\ globalMu = Nobody /\ default = Original
    /\ previous = [t \in Tests |-> Original]
    /\ pc = [t \in Tests |-> "new"]
    /\ mu = [g \in Generators |-> Nobody] /\ next = [g \in Generators |-> 1]
    /\ using = [r \in Goroutines |-> Nobody] /\ number = [r \in Goroutines |-> 0]
    /\ ids = [t \in Tests |-> <<>>]

-----------------------------------------------------------------------------
(* WithGenerator and its cleanup. *)

Go(t, from, to) == pc[t] = from /\ pc' = [pc EXCEPT ![t] = to]

(* Mutant: the lock is taken whoever holds it. *)
TakeAnyway(t) == globalMu' = t
Take(t)       == globalMu = Nobody /\ globalMu' = t

Lock(t) ==
    /\ Go(t, "new", "locked") /\ Take(t)
    /\ UNCHANGED <<default, previous, mu, next, using, number, ids>>

Save(t) ==
    /\ Go(t, "locked", "saved") /\ previous' = [previous EXCEPT ![t] = default]
    /\ UNCHANGED <<globalMu, default, mu, next, using, number, ids>>

Install(t) ==
    /\ Go(t, "saved", "running") /\ default' = t
    /\ UNCHANGED <<globalMu, previous, mu, next, using, number, ids>>

Idle(t) == \A r \in Goroutines : TestOf[r] = t => using[r] = Nobody

Restore(t) ==
    /\ Idle(t)
    /\ Go(t, "running", "restored") /\ default' = previous[t]
    /\ UNCHANGED <<globalMu, previous, mu, next, using, number, ids>>

(* Mutant: globalMu stays locked. *)
StaysLocked == globalMu' = globalMu
Release     == globalMu' = Nobody

Unlock(t) ==
    /\ Go(t, "restored", "done") /\ Release
    /\ UNCHANGED <<default, previous, mu, next, using, number, ids>>

-----------------------------------------------------------------------------
(* An id, of whatever kind: the goroutine reads the SDK's default generator *)
(* and calls generate on it.                                                *)

Ask(r) ==
    /\ pc[TestOf[r]] = "running" /\ using[r] = Nobody
    /\ next[TestOf[r]] <= MaxIDs
    /\ using' = [using EXCEPT ![r] = default]
    /\ UNCHANGED <<globalMu, default, previous, pc, mu, next, number, ids>>

(* Mutant: the generator is entered whoever is in it. *)
EnterAnyway(r) == TRUE
Enter(r)       == mu[using[r]] = Nobody

Read(r) ==
    /\ using[r] # Nobody /\ number[r] = 0
    /\ Enter(r) /\ mu' = [mu EXCEPT ![using[r]] = r]
    /\ number' = [number EXCEPT ![r] = next[using[r]]]
    /\ UNCHANGED <<globalMu, default, previous, pc, next, using, ids>>

Count(r) ==
    /\ number[r] # 0 /\ number' = [number EXCEPT ![r] = 0]
    /\ next' = [next EXCEPT ![using[r]] = number[r] + 1]
    /\ ids' = [ids EXCEPT ![TestOf[r]] = Append(@, <<using[r], number[r]>>)]
    /\ mu' = [mu EXCEPT ![using[r]] = Nobody]
    /\ using' = [using EXCEPT ![r] = Nobody]
    /\ UNCHANGED <<globalMu, default, previous, pc>>

-----------------------------------------------------------------------------
TestStep(t)  == Lock(t) \/ Save(t) \/ Install(t) \/ Restore(t) \/ Unlock(t)
Generate(r)  == Ask(r) \/ Read(r) \/ Count(r)

AllDone == (\A t \in Tests : pc[t] = "done") /\ UNCHANGED vars

Next == (\E t \in Tests : TestStep(t)) \/ (\E r \in Goroutines : Generate(r)) \/ AllDone

(* The Go scheduler runs every goroutine that can run. *)
Fairness ==
    /\ \A t \in Tests : WF_vars(TestStep(t))
    /\ \A r \in Goroutines : WF_vars(Read(r) \/ Count(r))

Spec == Init /\ [][Next]_vars /\ Fairness

-----------------------------------------------------------------------------
(* What the installed generator is for: the i-th id a test gets is number i *)
(* of its own generator, whatever other tests and its own goroutines do, so *)
(* that a fixture may name it.                                              *)
IdsAreDeterministic ==
    \A t \in Tests : \A i \in DOMAIN ids[t] : ids[t][i] = <<t, i>>

(* Every test leaves the SDK as it found it: while no test holds globalMu   *)
(* the default generator is the original one.                               *)
OriginalRestored == globalMu = Nobody => default = Original

(* Though globalMu is held for the length of a test, every test that wants  *)
(* a generator gets its turn and ends.                                      *)
EveryTestEnds == \A t \in Tests : <>(pc[t] = "done")
=============================================================================

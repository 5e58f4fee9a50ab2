----------------------------- MODULE TestIdsProofs -----------------------------
(***************************************************************************)
(* IdsAreDeterministic and OriginalRestored for every number of tests,     *)
(* goroutines and ids.  The invariant: globalMu is held exactly by the     *)
(* test between its install and its cleanup, the default generator is that *)
(* test's while it runs, every goroutine in generate uses the generator of *)
(* its own running test, and the one that read the next number holds the   *)
(* generator's lock.                                                       *)
(***************************************************************************)
EXTENDS TestIds, TLAPS

Held == {"locked", "saved", "running", "restored"}

TypeInv ==
    /\ globalMu \in Tests \cup {Nobody} /\ default \in Generators
    /\ previous \in [Tests -> Generators]
    /\ pc \in [Tests -> Held \cup {"new", "done"}]
    /\ mu \in [Generators -> Goroutines \cup {Nobody}]
    /\ next \in [Generators -> Nat \ {0}]
    /\ using \in [Goroutines -> Generators \cup {Nobody}]
    /\ number \in [Goroutines -> Nat]
    /\ ids \in [Tests -> Seq(Generators \X Nat)]

HeldByOne == \A t \in Tests : pc[t] \in Held <=> globalMu = t

DefaultIsInstalled ==
    /\ \A t \in Tests : pc[t] = "running" => default = t
    /\ (\A t \in Tests : pc[t] # "running") => default = Original
    /\ \A t \in Tests : pc[t] \in {"saved", "running"} => previous[t] = Original

OwnGenerator ==
    \A r \in Goroutines : using[r] # Nobody =>
        using[r] = TestOf[r] /\ pc[TestOf[r]] = "running"

OneInGenerate ==
    \A r \in Goroutines : number[r] # 0 =>
        using[r] # Nobody /\ mu[using[r]] = r /\ number[r] = next[using[r]]

Counted ==
    \A t \in Tests : /\ Len(ids[t]) = next[t] - 1
                     /\ \A i \in 1..Len(ids[t]) : ids[t][i] = <<t, i>>

Inv == TypeInv /\ HeldByOne /\ DefaultIsInstalled /\ OwnGenerator /\ OneInGenerate /\ Counted

-----------------------------------------------------------------------------
LEMMA InitInv == Init => Inv
  BY TestsAssumption
     DEF Init, Inv, TypeInv, HeldByOne, DefaultIsInstalled, OwnGenerator, OneInGenerate, Counted,
         Held, Generators

LEMMA TestStepInv ==
    ASSUME Inv, NEW t \in Tests, TestStep(t)
    PROVE  Inv'
<1>1. TypeInv'
  BY ZenonT(60) DEF TestStep, Lock, Save, Install, Restore, Unlock, Go, Take, Release, Inv, TypeInv, Held,
         Generators
<1>2. HeldByOne'
  BY TestsAssumption
     DEF TestStep, Lock, Save, Install, Restore, Unlock, Go, Take, Release, Inv, TypeInv,
         HeldByOne, Held
<1>3. DefaultIsInstalled'
  BY TestsAssumption, ZenonT(60)
     DEF TestStep, Lock, Save, Install, Restore, Unlock, Go, Take, Release, Inv, TypeInv,
         HeldByOne, DefaultIsInstalled, Held
<1>4. OwnGenerator'
  BY TestsAssumption
     DEF TestStep, Lock, Save, Install, Restore, Unlock, Go, Inv, TypeInv, OwnGenerator, Idle, Held
<1>5. OneInGenerate'
  BY DEF TestStep, Lock, Save, Install, Restore, Unlock, Inv, OneInGenerate
<1>6. Counted'
  BY DEF TestStep, Lock, Save, Install, Restore, Unlock, Inv, Counted
<1> QED
  BY <1>1, <1>2, <1>3, <1>4, <1>5, <1>6 DEF Inv

LEMMA AskInv ==
    ASSUME Inv, NEW r \in Goroutines, Ask(r)
    PROVE  Inv'
<1>1. default = TestOf[r] /\ default # Nobody /\ default \in Generators
  BY TestsAssumption DEF Ask, Inv, TypeInv, DefaultIsInstalled, Generators
<1>2. TypeInv'
  BY DEF Ask, Inv, TypeInv
<1>3. HeldByOne' /\ DefaultIsInstalled' /\ Counted'
  BY DEF Ask, Inv, HeldByOne, DefaultIsInstalled, Counted
<1>4. OwnGenerator'
  BY <1>1 DEF Ask, Inv, TypeInv, OwnGenerator
<1>5. OneInGenerate'
  BY <1>1 DEF Ask, Inv, TypeInv, OneInGenerate
<1> QED
  BY <1>2, <1>3, <1>4, <1>5 DEF Inv

LEMMA ReadInv ==
    ASSUME Inv, NEW r \in Goroutines, Read(r)
    PROVE  Inv'
<1>1. using[r] \in Generators /\ next[using[r]] \in Nat
  BY DEF Read, Inv, TypeInv
<1>2. TypeInv'
  BY <1>1 DEF Read, Inv, TypeInv
<1>3. HeldByOne' /\ DefaultIsInstalled' /\ Counted' /\ OwnGenerator'
  BY DEF Read, Inv, HeldByOne, DefaultIsInstalled, Counted, OwnGenerator
<1>4. OneInGenerate'
  BY <1>1, TestsAssumption DEF Read, Enter, Inv, TypeInv, OneInGenerate
<1> QED
  BY <1>2, <1>3, <1>4 DEF Inv

LEMMA CountInv ==
    ASSUME Inv, NEW r \in Goroutines, Count(r)
    PROVE  Inv'
<1> DEFINE t == TestOf[r]
<1>1. /\ t \in Tests /\ using[r] = t /\ t \in Generators /\ mu[t] = r
      /\ number[r] = next[t] /\ next[t] \in Nat \ {0}
  BY TestsAssumption DEF Count, Inv, TypeInv, OwnGenerator, OneInGenerate, Generators
<1>2. ids[t] \in Seq(Generators \X Nat) /\ <<t, number[r]>> \in Generators \X Nat
  BY <1>1 DEF Inv, TypeInv
<1>3. Append(ids[t], <<t, number[r]>>) \in Seq(Generators \X Nat)
  BY <1>2
<1>4. TypeInv'
  BY <1>1, <1>3, SMTT(30) DEF Count, Inv, TypeInv
<1>5. HeldByOne' /\ DefaultIsInstalled'
  BY DEF Count, Inv, HeldByOne, DefaultIsInstalled
<1>6. OwnGenerator'
  BY <1>1 DEF Count, Inv, TypeInv, OwnGenerator
<1>7. OneInGenerate'
  BY <1>1, TestsAssumption DEF Count, Inv, TypeInv, OneInGenerate
<1>8. Counted'
  <2> SUFFICES ASSUME NEW s \in Tests
               PROVE  /\ Len(ids'[s]) = next'[s] - 1
                      /\ \A i \in 1..Len(ids'[s]) : ids'[s][i] = <<s, i>>
    BY DEF Counted
  <2>1. CASE s = t
    <3>1. ids'[s] = Append(ids[t], <<t, number[r]>>) /\ next'[s] = next[t] + 1
      BY <1>1, <2>1 DEF Count, Inv, TypeInv
    <3>2. Len(ids[t]) = next[t] - 1 /\ \A i \in 1..Len(ids[t]) : ids[t][i] = <<t, i>>
      BY <1>1 DEF Inv, Counted
    <3> QED
      BY <1>1, <1>2, <2>1, <3>1, <3>2, SMTT(30)
  <2>2. CASE s # t
    <3>1. ids'[s] = ids[s] /\ next'[s] = next[s]
      BY <1>1, <2>2 DEF Count, Inv, TypeInv, Generators
    <3> QED
      BY <3>1 DEF Inv, Counted
  <2> QED
    BY <2>1, <2>2
<1> QED
  BY <1>4, <1>5, <1>6, <1>7, <1>8 DEF Inv

LEMMA NextInv == Inv /\ [Next]_vars => Inv'
<1> SUFFICES ASSUME Inv, [Next]_vars
             PROVE  Inv'
  OBVIOUS
<1>1. CASE UNCHANGED vars
  BY <1>1 DEF vars, Inv, TypeInv, HeldByOne, DefaultIsInstalled, OwnGenerator, OneInGenerate,
              Counted
<1>2. ASSUME NEW t \in Tests, TestStep(t)
      PROVE  Inv'
  BY <1>2, TestStepInv
<1>3. ASSUME NEW r \in Goroutines, Generate(r)
      PROVE  Inv'
  BY <1>3, AskInv, ReadInv, CountInv DEF Generate
<1> QED
  BY <1>1, <1>2, <1>3 DEF Next, AllDone

(* Whatever tests and goroutines do, and however many there are, the i-th   *)
(* id a test gets is number i of the generator it installed (generate).     *)
THEOREM DeterministicIds == Spec => []IdsAreDeterministic
<1>1. ASSUME Inv, NEW t \in Tests
      PROVE  DOMAIN ids[t] = 1..Len(ids[t])
  <2>1. ids[t] \in Seq(Generators \X Nat)
    BY <1>1 DEF Inv, TypeInv
  <2> QED
    BY <2>1
<1>2. Inv => IdsAreDeterministic
  BY <1>1 DEF Inv, Counted, IdsAreDeterministic
<1> QED
  BY <1>2, InitInv, NextInv, PTL DEF Spec

(* While no test holds globalMu the SDK has its own generator again, after  *)
(* any number of tests (the cleanup of WithGenerator).                      *)
THEOREM RestoredGenerator == Spec => []OriginalRestored
<1>1. Inv => OriginalRestored
  BY TestsAssumption DEF Inv, HeldByOne, DefaultIsInstalled, OriginalRestored, Held
<1> QED
  BY <1>1, InitInv, NextInv, PTL DEF Spec
=============================================================================

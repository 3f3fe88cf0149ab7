---------------------- MODULE DeviceRelations_proofs ----------------------
(***************************************************************************)
(* Proofs about DeviceRelations, for any devices and any machine.          *)
(***************************************************************************)
EXTENDS DeviceRelations, TLAPS

\* The slaves that the frames of a call stack still have to visit.
Pending(stack) == UNION {stack[k] : k \in DOMAIN stack}

From(w) == IF w = "source" THEN source ELSE storage

\* A walk finds nothing that does not lie below its device.
FindsBelow ==
    /\ \A w \in Walks : relations[w] \subseteq Below(From(w))
    /\ phase \in Walks => Pending(work) \subseteq Below(From(phase))

\* Of every device found, what is above is found as well, and so are its
\* slaves, but for those a frame of the running walk still holds.
Explored(w) ==
    \A d \in relations[w] :
        /\ topology.parents[d] \subseteq relations[w]
        /\ topology.slaves[d] \subseteq
               relations[w] \cup (IF phase = w THEN Pending(work) ELSE {})

\* Walks done or running have their own device.
Begun(w) == From(w) \in relations[w]

ExploresAll ==
    Plain /\ ~faulty =>
        /\ phase \in {"source", "storage", "compare"} => Explored("source") /\ Begun("source")
        /\ phase = "storage" => Explored("storage") /\ Begun("storage")

\* The verdicts.
Verdict ==
    /\ phase \in {"start", "source"} => relations["storage"] = {}
    /\ phase = "related" => Below(source) \cap Below(storage) # {}
    /\ Plain /\ ~faulty /\ phase = "unrelated" => Below(source) \cap Below(storage) = {}

IInv == TypeOK /\ FindsBelow /\ ExploresAll /\ Verdict

-----------------------------------------------------------------------------
(* Call stacks and the devices below a device.                             *)

LEMMA StackPop ==
    ASSUME NEW s \in Seq(SUBSET Devices), s # <<>>
    PROVE  /\ Head(s) \in SUBSET Devices /\ Tail(s) \in Seq(SUBSET Devices)
           /\ Pending(s) = Head(s) \cup Pending(Tail(s))
  <1>1. /\ Head(s) = s[1] /\ Tail(s) \in Seq(SUBSET Devices) /\ Len(Tail(s)) = Len(s) - 1
        /\ Len(s) \in Nat \ {0} /\ DOMAIN s = 1..Len(s) /\ DOMAIN Tail(s) = 1..(Len(s) - 1)
        /\ \A k \in 1..(Len(s) - 1) : Tail(s)[k] = s[k + 1]
    OBVIOUS
  <1>2. Head(s) \in SUBSET Devices
    BY <1>1
  <1>3. ASSUME NEW d PROVE d \in Pending(s) <=> d \in Head(s) \/ d \in Pending(Tail(s))
    <2>1. ASSUME NEW k \in DOMAIN s, d \in s[k] PROVE d \in Head(s) \/ d \in Pending(Tail(s))
      <3>1. CASE k = 1
        BY <1>1, <2>1, <3>1
      <3>2. CASE k # 1
        <4>1. k - 1 \in 1..(Len(s) - 1) /\ Tail(s)[k - 1] = s[k]
          BY <1>1, <3>2
        <4> QED
          BY <1>1, <2>1, <4>1 DEF Pending
      <3> QED
        BY <3>1, <3>2
    <2>2. ASSUME NEW k \in DOMAIN Tail(s), d \in Tail(s)[k] PROVE d \in Pending(s)
      <3>1. k + 1 \in DOMAIN s /\ d \in s[k + 1]
        BY <1>1, <2>2
      <3> QED
        BY <3>1 DEF Pending
    <2>3. 1 \in DOMAIN s
      BY <1>1
    <2> QED
      BY <1>1, <2>1, <2>2, <2>3 DEF Pending
  <1> QED
    BY <1>1, <1>2, <1>3

LEMMA StackPush ==
    ASSUME NEW s \in Seq(SUBSET Devices), NEW a \in SUBSET Devices
    PROVE  /\ <<a>> \o s \in Seq(SUBSET Devices)
           /\ Pending(<<a>> \o s) = a \cup Pending(s)
  <1>1. /\ <<a>> \o s \in Seq(SUBSET Devices) /\ <<a>> \o s # <<>>
        /\ Head(<<a>> \o s) = a /\ Tail(<<a>> \o s) = s
    OBVIOUS
  <1> QED
    BY <1>1, StackPop

LEMMA BelowItself ==
    ASSUME NEW d \in Devices
    PROVE  d \in Below(d) /\ Below(d) \subseteq Devices
  BY DEF Below

LEMMA BelowClosed ==
    ASSUME TypeOK, NEW d \in Devices, NEW e \in Below(d)
    PROVE  topology.parents[e] \subseteq Below(d) /\ topology.slaves[e] \subseteq Below(d)
  <1>1. e \in Devices
    BY DEF Below
  <1>2. /\ topology.parents[e] \subseteq Devices /\ topology.slaves[e] \subseteq Devices
    BY <1>1, TopologyAssumption DEF TypeOK
  <1>3. ASSUME NEW S \in SUBSET Devices, d \in S, Closed(S)
        PROVE  topology.parents[e] \cup topology.slaves[e] \subseteq S
    BY <1>3 DEF Below, Closed
  <1> QED
    BY <1>2, <1>3 DEF Below

\* A closed set with d in it holds everything below d.
LEMMA BelowLeast ==
    ASSUME NEW d, NEW S \in SUBSET Devices, d \in S, Closed(S)
    PROVE  Below(d) \subseteq S
  BY DEF Below

\* What one call adds and leaves to visit are devices below its own.
LEMMA CallTypes ==
    ASSUME TypeOK, NEW d \in Devices, NEW found \in SUBSET Devices
    PROVE  Added(d, found) \in SUBSET Devices /\ Slaves(d, found) \in SUBSET Devices
  <1>1. topology.parents[d] \subseteq Devices /\ topology.slaves[d] \subseteq Devices
    BY TopologyAssumption DEF TypeOK
  <1> QED
    BY <1>1 DEF Added, Slaves

LEMMA CallBelow ==
    ASSUME TypeOK, NEW e \in Devices, NEW d \in Below(e), NEW found \in SUBSET Below(e)
    PROVE  Added(d, found) \subseteq Below(e) /\ Slaves(d, found) \subseteq Below(e)
  BY BelowClosed DEF Added, Slaves

\* On a plain machine a call leaves its device explored, but for the slaves it
\* goes on to visit.
LEMMA CallExplores ==
    ASSUME TypeOK, Plain, NEW d \in Devices, NEW found \in SUBSET Devices, NEW rest,
           \A e \in found : /\ topology.parents[e] \subseteq found
                            /\ topology.slaves[e] \subseteq found \cup rest
    PROVE  \A e \in Added(d, found) :
              /\ topology.parents[e] \subseteq Added(d, found)
              /\ topology.slaves[e] \subseteq Added(d, found) \cup Slaves(d, found) \cup (rest \ {d})
  <1>1. topology.parents[d] \subseteq Devices /\ d \in topology.listed
    BY TopologyAssumption DEF TypeOK, Plain
  <1>2. \A e \in topology.parents[d] : topology.slaves[e] = {} /\ topology.parents[e] = {}
    BY <1>1 DEF Plain
  <1>3. d \in Added(d, found) /\ found \subseteq Added(d, found)
    BY DEF Added
  <1> QED
    BY <1>1, <1>2, <1>3 DEF Added, Slaves

-----------------------------------------------------------------------------
LEMMA InitIInv == Init => IInv
  <1> SUFFICES ASSUME Init PROVE IInv
    OBVIOUS
  <1>1. TypeOK
    BY DEF Init, TypeOK, Phases
  <1>2. FindsBelow /\ ExploresAll /\ Verdict
    BY DEF Init, FindsBelow, ExploresAll, Verdict, Walks
  <1> QED
    BY <1>1, <1>2 DEF IInv

LEMMA TypeStep == TypeOK /\ [Next]_vars => TypeOK'
  <1> SUFFICES ASSUME TypeOK, [Next]_vars PROVE TypeOK'
    OBVIOUS
  <1> USE DEF TypeOK, machine, Phases, Walks
  <1>1. CASE UNCHANGED vars
    BY <1>1 DEF vars
  <1>2. CASE SameDevice
    BY <1>2 DEF SameDevice
  <1>3. CASE WalkSource \/ WalkStorage
    <2>1. PICK w \in Walks, d \in Devices : Walk(w, d)
      BY <1>3 DEF WalkSource, WalkStorage
    <2>2. Added(d, {}) \in SUBSET Devices /\ Slaves(d, {}) \in SUBSET Devices
      BY CallTypes
    <2> QED
      BY <2>1, <2>2 DEF Walk
  <1>4. CASE VisitSlave
    <2>1. PICK d \in Head(work) :
             /\ work' = <<Slaves(d, relations[phase])>> \o (<<Head(work) \ {d}>> \o Tail(work))
             /\ relations' = [relations EXCEPT ![phase] = Added(d, relations[phase])]
      BY <1>4 DEF VisitSlave
    <2>2. Head(work) \in SUBSET Devices /\ Tail(work) \in Seq(SUBSET Devices) /\ phase \in Walks
      BY <1>4, StackPop DEF VisitSlave
    <2>3. /\ Added(d, relations[phase]) \in SUBSET Devices
          /\ Slaves(d, relations[phase]) \in SUBSET Devices
      BY <2>2, CallTypes
    <2> QED
      BY <1>4, <2>1, <2>2, <2>3 DEF VisitSlave
  <1>5. CASE SkipSlave
    <2>1. Head(work) \in SUBSET Devices /\ Tail(work) \in Seq(SUBSET Devices)
      BY <1>5, StackPop DEF SkipSlave
    <2> QED
      BY <1>5, <2>1 DEF SkipSlave
  <1>6. CASE Return
    BY <1>6, StackPop DEF Return
  <1>7. CASE Compare
    BY <1>7 DEF Compare
  <1> QED
    BY <1>1, <1>2, <1>3, <1>4, <1>5, <1>6, <1>7 DEF Next

\* Every variable keeps its type.
THEOREM TypeCorrect == Spec => []TypeOK
  BY InitIInv, TypeStep, PTL DEF Spec, IInv

LEMMA BelowStays ==
    ASSUME UNCHANGED machine
    PROVE  /\ \A d : Below(d)' = Below(d)
           /\ Plain' <=> Plain
           /\ \A w : From(w)' = From(w)
  BY DEF machine, Below, Closed, Plain, From

LEMMA WalkStep ==
    ASSUME IInv, TypeOK', NEW w \in Walks, Walk(w, From(w)),
           \/ w = "source" /\ phase = "start"
           \/ w = "storage" /\ phase = "source" /\ work = <<>>
    PROVE  IInv'
  <1> USE DEF IInv
  <1>1. UNCHANGED machine /\ phase' = w
        /\ relations' = [relations EXCEPT ![w] = Added(From(w), {})]
        /\ work' = <<Slaves(From(w), {})>>
    BY DEF Walk
  <1>2. From(w) \in Devices
    BY DEF From, TypeOK
  <1>3. \A v \in Walks : relations'[v] = IF v = w THEN Added(From(w), {}) ELSE relations[v]
    BY <1>1 DEF TypeOK
  <1>4. Pending(work') = Slaves(From(w), {})
    BY <1>1 DEF Pending
  <1>5. Pending(<<>>) = {}
    BY DEF Pending
  <1>6. FindsBelow'
    <2>1. From(w) \in Below(From(w)) /\ {} \in SUBSET Below(From(w))
      BY <1>2, BelowItself
    <2>2. Added(From(w), {}) \subseteq Below(From(w)) /\ Slaves(From(w), {}) \subseteq Below(From(w))
      BY <1>2, <2>1, CallBelow
    <2> QED
      BY <1>1, <1>3, <1>4, <2>2, BelowStays DEF FindsBelow
  <1>7. ExploresAll'
    <2>1. SUFFICES ASSUME Plain, ~faulty
                   PROVE /\ Explored("source")' /\ Begun("source")'
                         /\ w = "storage" => Explored("storage")' /\ Begun("storage")'
      BY <1>1, BelowStays DEF ExploresAll, machine, Walks
    <2>2. \A e \in Added(From(w), {}) :
              /\ topology.parents[e] \subseteq Added(From(w), {})
              /\ topology.slaves[e] \subseteq Added(From(w), {}) \cup Slaves(From(w), {}) \cup ({} \ {From(w)})
      BY <1>2, <2>1, CallExplores
    <2>3. Explored(w)' /\ Begun(w)'
      BY <1>1, <1>3, <1>4, <2>2, BelowStays DEF Explored, Begun, machine, Added
    <2>4. CASE w = "storage"
      <3>1. Explored("source") /\ Begun("source")
        BY <2>1, <2>4 DEF ExploresAll
      <3>2. Explored("source")' /\ Begun("source")'
        BY <1>1, <1>3, <1>5, <2>4, <3>1, BelowStays DEF Explored, Begun, machine, Walks
      <3> QED
        BY <2>3, <2>4, <3>2
    <2> QED
      BY <2>3, <2>4 DEF Walks
  <1>8. Verdict'
    BY <1>1, <1>3 DEF Verdict, Walks
  <1> QED
    BY <1>6, <1>7, <1>8

LEMMA VisitStep ==
    ASSUME IInv, TypeOK', VisitSlave
    PROVE  IInv'
  <1> USE DEF IInv
  <1>1. PICK d \in Head(work) :
           /\ work' = <<Slaves(d, relations[phase])>> \o (<<Head(work) \ {d}>> \o Tail(work))
           /\ relations' = [relations EXCEPT ![phase] = Added(d, relations[phase])]
    BY DEF VisitSlave
  <1>2. phase \in Walks /\ phase' = phase /\ UNCHANGED machine /\ work # <<>>
    BY DEF VisitSlave
  <1> DEFINE found == relations[phase]
             more == Slaves(d, found)
  <1>3. /\ Head(work) \in SUBSET Devices /\ Tail(work) \in Seq(SUBSET Devices)
        /\ Pending(work) = Head(work) \cup Pending(Tail(work))
        /\ d \in Devices /\ found \in SUBSET Devices
    BY <1>2, StackPop DEF TypeOK
  <1>4. Added(d, found) \in SUBSET Devices /\ more \in SUBSET Devices
    BY <1>3, CallTypes
  <1>5. Pending(work') = more \cup (Head(work) \ {d}) \cup Pending(Tail(work))
    <2>1. Head(work) \ {d} \in SUBSET Devices
      BY <1>3
    <2>2. work' = <<more>> \o (<<Head(work) \ {d}>> \o Tail(work))
      BY <1>1
    <2> HIDE DEF more
    <2>3. /\ <<Head(work) \ {d}>> \o Tail(work) \in Seq(SUBSET Devices)
          /\ Pending(<<Head(work) \ {d}>> \o Tail(work)) = (Head(work) \ {d}) \cup Pending(Tail(work))
      BY <1>3, <2>1, StackPush
    <2>4. Pending(work') = more \cup Pending(<<Head(work) \ {d}>> \o Tail(work))
      BY <1>4, <2>2, <2>3, StackPush
    <2> QED
      BY <2>3, <2>4
  <1>6. \A w \in Walks : relations'[w] = IF w = phase THEN Added(d, found) ELSE relations[w]
    BY <1>1 DEF TypeOK
  <1>7. FindsBelow'
    <2>1. From(phase) \in Devices /\ d \in Below(From(phase)) /\ found \in SUBSET Below(From(phase))
      BY <1>2, <1>3 DEF FindsBelow, From, TypeOK
    <2>2. Added(d, found) \subseteq Below(From(phase)) /\ more \subseteq Below(From(phase))
      BY <2>1, CallBelow
    <2> HIDE DEF found, more
    <2> QED
      BY <1>2, <1>3, <1>5, <1>6, <2>2, BelowStays DEF FindsBelow
  <1>8. ExploresAll'
    <2>1. SUFFICES ASSUME Plain, ~faulty
                   PROVE /\ Explored("source")' /\ Begun("source")'
                         /\ phase = "storage" => Explored("storage")' /\ Begun("storage")'
      BY <1>2, BelowStays DEF ExploresAll, machine, Walks
    <2>2. Explored(phase) /\ Begun(phase)
      BY <1>2, <2>1 DEF ExploresAll, Walks
    <2>3. \A e \in Added(d, found) :
              /\ topology.parents[e] \subseteq Added(d, found)
              /\ topology.slaves[e] \subseteq Added(d, found) \cup more \cup (Pending(work) \ {d})
      BY <1>3, <2>1, <2>2, CallExplores DEF Explored
    <2>4. d \in Added(d, found) /\ found \subseteq Added(d, found)
      BY DEF Added
    <2> HIDE DEF found, more
    <2>5. Explored(phase)'
      BY <1>2, <1>3, <1>5, <1>6, <2>3, <2>4 DEF Explored, machine
    <2>6. Begun(phase)'
      BY <1>2, <1>6, <2>2, <2>4, BelowStays DEF Begun, found
    <2>7. phase = "storage" => Explored("source")' /\ Begun("source")'
      BY <1>2, <1>6, <2>1, BelowStays DEF ExploresAll, Explored, Begun, machine, Walks
    <2> QED
      BY <1>2, <2>5, <2>6, <2>7 DEF Walks
  <1>9. Verdict'
    BY <1>2, <1>6 DEF Verdict, Walks
  <1> QED
    BY <1>7, <1>8, <1>9

LEMMA SkipStep ==
    ASSUME IInv, TypeOK', SkipSlave
    PROVE  IInv'
  <1> USE DEF IInv
  <1>1. PICK d \in Head(work) : work' = <<Head(work) \ {d}>> \o Tail(work)
    BY DEF SkipSlave
  <1>2. /\ phase' = phase /\ relations' = relations /\ UNCHANGED machine
        /\ faulty /\ work # <<>> /\ phase \in Walks
    BY DEF SkipSlave
  <1>3. /\ Head(work) \in SUBSET Devices /\ Tail(work) \in Seq(SUBSET Devices)
        /\ Pending(work) = Head(work) \cup Pending(Tail(work))
    BY <1>2, StackPop DEF TypeOK
  <1>4. Pending(work') = (Head(work) \ {d}) \cup Pending(Tail(work))
    <2>1. Head(work) \ {d} \in SUBSET Devices
      BY <1>3
    <2> QED
      BY <1>1, <1>3, <2>1, StackPush
  <1>5. FindsBelow'
    BY <1>2, <1>3, <1>4, BelowStays DEF FindsBelow
  <1>6. ExploresAll' /\ Verdict'
    BY <1>2 DEF ExploresAll, Verdict, machine, Walks
  <1> QED
    BY <1>5, <1>6

LEMMA ReturnStep ==
    ASSUME IInv, TypeOK', Return
    PROVE  IInv'
  <1> USE DEF IInv
  <1>1. /\ phase' = phase /\ relations' = relations /\ UNCHANGED machine
        /\ work # <<>> /\ phase \in Walks /\ Head(work) = {} /\ work' = Tail(work)
    BY DEF Return
  <1>2. Pending(work') = Pending(work)
    BY <1>1, StackPop DEF TypeOK
  <1>3. FindsBelow'
    BY <1>1, <1>2, BelowStays DEF FindsBelow
  <1>4. ExploresAll'
    BY <1>1, <1>2, BelowStays DEF ExploresAll, Explored, Begun, machine
  <1>5. Verdict'
    BY <1>1 DEF Verdict, Walks
  <1> QED
    BY <1>3, <1>4, <1>5

LEMMA CompareStep ==
    ASSUME IInv, TypeOK', Compare
    PROVE  IInv'
  <1> USE DEF IInv
  <1>1. /\ relations' = relations /\ UNCHANGED machine /\ work = <<>> /\ phase = "storage"
        /\ phase' = IF relations["source"] \cap relations["storage"] = {}
                    THEN "unrelated" ELSE "related"
    BY DEF Compare
  <1>2. FindsBelow' /\ ExploresAll'
    BY <1>1, BelowStays DEF FindsBelow, ExploresAll, Walks
  <1>3. phase' = "related" => Below(source) \cap Below(storage) # {}
    BY <1>1 DEF FindsBelow, From, Walks
  <1>4. ASSUME Plain, ~faulty, phase' = "unrelated"
        PROVE  Below(source) \cap Below(storage) = {}
    <2>1. Pending(<<>>) = {}
      BY DEF Pending
    <2>2. ASSUME NEW w \in Walks PROVE Below(From(w)) \subseteq relations[w]
      <3>1. Explored(w) /\ Begun(w)
        BY <1>1, <1>4, <2>2 DEF ExploresAll, Walks
      <3>2. Closed(relations[w])
        BY <1>1, <2>1, <3>1 DEF Explored, Closed
      <3>3. relations[w] \in SUBSET Devices
        BY DEF TypeOK
      <3> QED
        BY <3>1, <3>2, <3>3, BelowLeast DEF Begun
    <2>3. relations["source"] \cap relations["storage"] = {}
      BY <1>1, <1>4
    <2> QED
      BY <2>2, <2>3 DEF From, Walks
  <1>5. Verdict'
    BY <1>1, <1>3, <1>4, BelowStays DEF Verdict, machine
  <1> QED
    BY <1>2, <1>5

LEMMA StepIInv == IInv /\ [Next]_vars => IInv'
  <1> SUFFICES ASSUME IInv, [Next]_vars PROVE IInv'
    OBVIOUS
  <1>1. TypeOK'
    BY TypeStep DEF IInv
  <1>2. CASE UNCHANGED vars
    BY <1>1, <1>2, BelowStays DEF vars, machine, IInv, FindsBelow, ExploresAll, Verdict, Explored, Begun, Pending
  <1>3. CASE SameDevice
    <2>1. source \in Below(source) /\ source = storage /\ UNCHANGED <<machine, relations, work>>
          /\ phase' = "related"
      BY <1>3, BelowItself DEF SameDevice, IInv, TypeOK
    <2> QED
      BY <1>1, <2>1, BelowStays DEF IInv, FindsBelow, ExploresAll, Verdict, Walks, machine
  <1>4. CASE WalkSource
    BY <1>1, <1>4, WalkStep DEF WalkSource, From, Walks
  <1>5. CASE WalkStorage
    BY <1>1, <1>5, WalkStep DEF WalkStorage, From, Walks
  <1>6. CASE VisitSlave \/ SkipSlave \/ Return \/ Compare
    BY <1>1, <1>6, VisitStep, SkipStep, ReturnStep, CompareStep
  <1> QED
    BY <1>2, <1>3, <1>4, <1>5, <1>6 DEF Next

-----------------------------------------------------------------------------
\* Whatever is refused shares a device with the source, whichever sysfs reads
\* failed and in whatever order the slaves came.
THEOREM RefusalsHaveReason == Spec => []RefusedForReason
  <1>1. IInv => RefusedForReason
    BY DEF IInv, Verdict, RefusedForReason
  <1> QED
    BY <1>1, InitIInv, StepIInv, PTL DEF Spec

\* On a plain machine whose sysfs can be read, whatever passes shares none.
THEOREM PassesAreApart == Spec => []PassedIsApart
  <1>1. IInv => PassedIsApart
    BY DEF IInv, Verdict, PassedIsApart
  <1> QED
    BY <1>1, InitIInv, StepIInv, PTL DEF Spec
=============================================================================

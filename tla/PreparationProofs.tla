------------------------- MODULE PreparationProofs --------------------------
(* Theorems about Preparation, for any ports, types, ranges and blocks, and *)
(* any number of builder calls and edits.                                   *)
EXTENDS Preparation, FiniteSetTheorems, WellFoundedInduction, TLAPS

-----------------------------------------------------------------------------
(* The checks. *)

LEMMA LeastOfEleven ==
  ASSUME NEW F \in SUBSET (1 .. 11), F # {} PROVE \E k \in F : \A j \in F : k <= j
<1>1. F \subseteq Nat
  OBVIOUS
<1>2. PICK k \in F : \A j \in F : ~(<<j, k>> \in OpToRel(<, Nat))
  BY <1>1, WFMin, NatLessThanWellFounded
<1>3. \A j \in F : ~(j < k)
  BY <1>1, <1>2 DEF OpToRel
<1>. QED  BY <1>1, <1>3

\* If no problem is found, no check found one; each that is found, some check did.
LEMMA ProblemsFound ==
  /\ Problems = {} => \A k \in 1 .. 11 : Checks[k] = {}
  /\ \A why \in Problems : \E k \in 1 .. 11 : why \in Checks[k]
<1>. DEFINE found == Checks
            failing == {k \in DOMAIN found : found[k] # {}}
            least == CHOOSE k \in failing : \A j \in failing : k <= j
<1>1. DOMAIN found = 1 .. 11
  BY DEF Checks
<1>2. Problems = IF failing = {} THEN {} ELSE found[least]
  BY DEF Problems
<1>. HIDE DEF found
<1>3. failing # {} => least \in failing
  BY <1>1, LeastOfEleven
<1>4. failing \subseteq 1 .. 11 /\ \A k \in 1 .. 11 : k \notin failing => found[k] = {}
  BY <1>1
<1>5. failing # {} => found[least] # {}
  BY <1>3
<1>. QED  BY <1>2, <1>3, <1>4, <1>5 DEF found

\* What a check may find, one name at a time.
LEMMA ProblemNames ==
  \A why \in Problems : why \in Errors /\ why # "binding" /\ why # "unclaimed"
<1>. SUFFICES ASSUME NEW k \in 1 .. 11, NEW why \in Checks[k]
              PROVE  why \in Errors /\ why # "binding" /\ why # "unclaimed"
  BY ProblemsFound
<1>1. /\ Checks[1] = DuplicateProblems /\ Checks[2] = ExportProblems
      /\ Checks[3] = ConstraintProblems /\ Checks[4] = CapacityProblems
      /\ Checks[5] = ConnectionProblems /\ Checks[6] = RangeProblems
      /\ Checks[7] = ProcessProblems /\ Checks[8] = FactoryProblems
      /\ Checks[9] = SizeProblems /\ Checks[10] = WiringProblems
      /\ Checks[11] = ChannelProblems
  BY DEF Checks
<1>2. CASE k \in {1, 2, 3, 4}
  BY <1>1, <1>2 DEF DuplicateProblems, ExportProblems, ConstraintProblems, CapacityProblems, Errors
<1>3. CASE k = 5
  BY <1>1, <1>3 DEF ConnectionProblems, UseProblems, Errors
<1>4. CASE k \in {6, 7, 8, 9}
  BY <1>1, <1>4 DEF RangeProblems, ProcessProblems, FactoryProblems, SizeProblems, Errors
<1>5. CASE k \in {10, 11}
  BY <1>1, <1>5 DEF WiringProblems, ChannelProblems, Errors
<1>. QED  BY <1>2, <1>3, <1>4, <1>5

\* What a definition without problems satisfies.
Sound ==
  /\ Exported \subseteq DeclaredPorts
  /\ \A c \in Connected : EndsOf(c) \subseteq DeclaredPorts
  /\ \A i \in Inputs : Producers(i) # {} => Possible(i) # {}
  /\ \A p \in Sized : capacities[p] <= MaxPermits
  /\ \A c \in Connected : EndsOf(c) \cap Exported = {} /\ connections[c] \in Constructible
  /\ \A p \in Exported : exports[p] \in Constructible

LEMMA NoProblemsSound == DefinitionTypes /\ Problems = {} => Sound
<1>. SUFFICES ASSUME DefinitionTypes, Problems = {} PROVE Sound
  OBVIOUS
<1>1. /\ ExportProblems = {} /\ ConnectionProblems = {} /\ RangeProblems = {}
      /\ SizeProblems = {} /\ WiringProblems = {} /\ ChannelProblems = {}
  BY ProblemsFound DEF Checks
<1>2. Exported \subseteq DeclaredPorts
  BY <1>1 DEF ExportProblems
<1>3. \A c \in Connected : EndsOf(c) \subseteq DeclaredPorts
  BY <1>1 DEF ConnectionProblems, UseProblems
<1>4. \A i \in Inputs : Producers(i) # {} => Possible(i) # {}
  BY <1>1 DEF RangeProblems
<1>5. \A p \in Sized : capacities[p] <= MaxPermits
  <2>1. \A p \in Sized : ~(capacities[p] > MaxPermits)
    BY <1>1 DEF SizeProblems
  <2>2. \A p \in Sized : capacities[p] \in Nat
    BY PreparationAssumption DEF Sized, DefinitionTypes
  <2>. QED  BY <2>1, <2>2, PreparationAssumption
<1>6. \A c \in Connected : EndsOf(c) \cap Exported = {} /\ connections[c] \in Constructible
  BY <1>1 DEF WiringProblems
<1>7. \A p \in Exported : exports[p] \in Constructible
  BY <1>1 DEF ChannelProblems
<1>. QED  BY <1>2, <1>3, <1>4, <1>5, <1>6, <1>7 DEF Sound

-----------------------------------------------------------------------------
(* What is installed. *)

LEMMA EffectiveType == \A p \in Ports : Effective(p) \in Ranges
<1>1. Unlimited \in Ranges
  BY PreparationAssumption DEF Unlimited, Ranges
<1>. QED  BY <1>1, PreparationAssumption DEF Effective, Ranges

LEMMA QueuesType ==
  ASSUME DefinitionTypes, NEW c, NEW senders \in SUBSET Ports
  PROVE  Queues(c, senders) \in UNION {[os -> Capacities \cup {1}] : os \in SUBSET Ports}
<1>1. Queues(c, senders) \in [senders -> Capacities \cup {1}]
  BY DEF Queues, DefinitionTypes
<1>2. [senders -> Capacities \cup {1}] \in {[os -> Capacities \cup {1}] : os \in SUBSET Ports}
  BY Zenon
<1>. QED  BY <1>1, <1>2, Zenon

LEMMA EndpointType ==
  ASSUME DefinitionTypes, NEW c \in Ports, NEW type \in Constructible, NEW range \in Ranges,
         NEW senders \in SUBSET Ports
  PROVE  Endpoint(c, type, range, senders) \in Endpoints
<1>1. Payload(type) \in Types
  BY DEF Constructible, Payload, DefinitionTypes
<1>. QED  BY <1>1, QueuesType DEF Endpoint, Endpoints

\* An endpoint that preparation installs is one, has a place in the table, and
\* its queues can be made.
LEMMA InstalledFits ==
  ASSUME DefinitionTypes, Sound, NEW s \in Slots, NEW e \in Installs(s)
  PROVE  e \in Endpoints /\ InTable(s) /\ ~Panics(e)
<1>. DEFINE p == s[2]
<1>0. p \in Ports /\ s[1] \in {"inner", "outer"} /\ Ports = Inputs \cup Outputs
  BY DEF Slots, Ports
<1>1. \E c, type, range, senders :
        /\ e = Endpoint(c, type, range, senders) /\ InTable(s)
        /\ c \in Ports /\ type \in Constructible /\ range \in Ranges /\ senders \in SUBSET Ports
  <2>1. CASE e \in {Endpoint(p, exports[p], Effective(p), {p}) : q \in {p} \cap Exported}
    <3>1. p \in Exported /\ e = Endpoint(p, exports[p], Effective(p), {p})
      BY <2>1
    <3>2. InTable(s)
      BY <1>0, <3>1 DEF InTable, Sound
    <3>3. exports[p] \in Constructible /\ Effective(p) \in Ranges
      BY <1>0, <3>1, EffectiveType DEF Sound
    <3>. QED  BY <1>0, <3>1, <3>2, <3>3
  <2>2. ASSUME s[1] = "inner", NEW c \in Connected, c[1] = p,
               e = Endpoint(c[2], connections[c], {f[p] : f \in Possible(c[2])}, {p})
        PROVE  \E d, type, range, senders :
                 /\ e = Endpoint(d, type, range, senders) /\ InTable(s)
                 /\ d \in Ports /\ type \in Constructible /\ range \in Ranges
                 /\ senders \in SUBSET Ports
    <3>. DEFINE admitted == {f[p] : f \in Possible(c[2])}
    <3>1. c = <<c[1], c[2]>> /\ c[1] \in Outputs /\ c[2] \in Inputs
      BY DEF Connected, DefinitionTypes
    <3>2. InTable(s)
      BY <2>2 DEF InTable, Sound, EndsOf
    <3>3. p \in Producers(c[2])
      BY <2>2, <3>1 DEF Producers
    <3>4. Possible(c[2]) # {}
      BY <3>1, <3>3 DEF Sound
    <3>5. \A f \in Possible(c[2]) : f[p] \in Unlimited
      BY <3>3 DEF Possible
    <3>6. admitted \in Ranges
      BY <3>4, <3>5 DEF Ranges
    <3>7. connections[c] \in Constructible
      BY DEF Sound
    <3>8. e = Endpoint(c[2], connections[c], admitted, {p})
      BY <2>2
    <3>. HIDE DEF admitted
    <3>. WITNESS c[2], connections[c], admitted, {p}
    <3>. QED  BY <1>0, <3>1, <3>2, <3>6, <3>7, <3>8
  <2>3. ASSUME s[1] = "inner", NEW c \in Connected, c[2] = p,
               e = Endpoint(p, connections[c], {Total(f) : f \in Possible(p)}, Producers(p))
        PROVE  \E d, type, range, senders :
                 /\ e = Endpoint(d, type, range, senders) /\ InTable(s)
                 /\ d \in Ports /\ type \in Constructible /\ range \in Ranges
                 /\ senders \in SUBSET Ports
    <3>. DEFINE admitted == {Total(f) : f \in Possible(p)}
    <3>1. c = <<c[1], c[2]>> /\ c[1] \in Outputs /\ c[2] \in Inputs
      BY DEF Connected, DefinitionTypes
    <3>2. InTable(s)
      BY <2>3 DEF InTable, Sound, EndsOf
    <3>3. c[1] \in Producers(p) /\ Producers(p) \in SUBSET Ports
      BY <1>0, <2>3, <3>1 DEF Producers
    <3>4. Possible(p) # {}
      BY <2>3, <3>1, <3>3 DEF Sound
    <3>5. \A f \in Possible(p) : Total(f) \in Effective(p)
      BY DEF Possible
    <3>6. Effective(p) \subseteq Unlimited
      BY <1>0, EffectiveType DEF Ranges
    <3>7. admitted \in Ranges
      BY <3>4, <3>5, <3>6 DEF Ranges
    <3>8. connections[c] \in Constructible
      BY DEF Sound
    <3>9. e = Endpoint(p, connections[c], admitted, Producers(p))
      BY <2>3
    <3>. HIDE DEF admitted
    <3>. WITNESS p, connections[c], admitted, Producers(p)
    <3>. QED  BY <1>0, <3>2, <3>3, <3>7, <3>8, <3>9
  <2>. QED
    BY <1>0, <2>1, <2>2, <2>3 DEF Installs
<1>2. PICK c, type, range, senders :
        /\ e = Endpoint(c, type, range, senders) /\ InTable(s)
        /\ c \in Ports /\ type \in Constructible /\ range \in Ranges /\ senders \in SUBSET Ports
  BY <1>1
<1>3. e \in Endpoints
  BY <1>2, EndpointType
<1>4. ~Panics(e)
  <2>1. e.queues = Queues(c, senders)
    BY <1>2 DEF Endpoint
  <2>2. ASSUME NEW o \in senders PROVE ~(Queues(c, senders)[o] > MaxPermits)
    <3>1. Queues(c, senders)[o] = IF capacities[o] = None THEN 1 ELSE capacities[o]
      BY DEF Queues
    <3>2. CASE capacities[o] = None
      BY <3>1, <3>2, PreparationAssumption
    <3>3. CASE capacities[o] # None
      <4>1. o \in Sized /\ capacities[o] \in Nat /\ MaxPermits \in Nat
        BY <1>2, <3>3, PreparationAssumption DEF Sized, DefinitionTypes
      <4>. QED  BY <3>1, <3>3, <4>1 DEF Sound
    <3>. QED  BY <3>2, <3>3
  <2>3. DOMAIN Queues(c, senders) = senders
    BY DEF Queues
  <2>. QED  BY <2>1, <2>2, <2>3 DEF Panics
<1>. QED  BY <1>2, <1>3, <1>4

-----------------------------------------------------------------------------
(* Type correctness. *)

\* The factory that runs is that of a block.
TurnValid ==
  /\ stage \in {"building", "built"} => turn = 1
  /\ stage = "binding" => turn \in 1 .. Len(blocks)

LEMMA PreparationTypeInit == Init => TypeOK /\ TurnValid
<1>. SUFFICES ASSUME Init PROVE TypeOK /\ TurnValid
  OBVIOUS
<1>1. 0 \in 0 .. Calls
  BY PreparationAssumption
<1>5. StageTypes /\ TurnValid
  BY <1>1 DEF Init, StageTypes, TurnValid
<1>2. <<>> \in Seq(Definitions)
  OBVIOUS
<1>3. DefinitionTypes
  BY <1>2 DEF Init, DefinitionTypes
<1>4. RuntimeTypes
  BY DEF Init, RuntimeTypes
<1>. QED  BY <1>3, <1>4, <1>5 DEF TypeOK

\* What an export names.
LEMMA ExportParts ==
  \A x \in PortExports : /\ x.id \in Ports /\ x.type \in Types
                         /\ x.constructor \in Types \cup {None}
                         /\ x.capacity \in Capacities \cup {None}
BY DEF PortExports

\* What a call of the builder leaves in the definition.
LEMMA RecordType ==
  ASSUME DefinitionTypes
  PROVE  /\ \A ports \in SUBSET Ports : \A ranged : Constrain(ports, ranged) \in SUBSET Ports
         /\ \A p \in Ports, size \in Capacities \cup {None} :
              Size(p, size) \in [Ports -> Capacities \cup {None}]
         /\ \A type \in Types : Construct(type) \in [Types -> Types \cup {None}]
BY DEF DefinitionTypes, Constrain, Size, Construct

LEMMA BuilderTypes == TypeOK /\ Builder => TypeOK'
<1>. SUFFICES ASSUME TypeOK, Builder PROVE TypeOK'
  OBVIOUS
<1>. USE DEF Call, builderVars, defVars, runtimeVars
<1>0. StageTypes /\ DefinitionTypes /\ RuntimeTypes /\ Ports = Inputs \cup Outputs
  BY DEF TypeOK, Ports
<1>1. RuntimeTypes'
  BY <1>0 DEF Builder, Register, RegisterPort, Export, Connect, RegisterMessageType, RuntimeTypes
<1>2. calls' \in 0 .. Calls
  <2>1. calls < Calls /\ calls' = calls + 1
    BY DEF Builder, Register, RegisterPort, Export, Connect, RegisterMessageType
  <2>. QED  BY <1>0, <2>1, PreparationAssumption DEF StageTypes
<1>3. ASSUME NEW name \in Names, NEW executable \in BOOLEAN, Register(name, executable)
      PROVE  TypeOK'
  <2>1. Owned[name] \in SUBSET Ports
    BY PreparationAssumption
  <2>2. Append(blocks, [name |-> name, executable |-> executable]) \in Seq(Definitions)
    <3>1. [name |-> name, executable |-> executable] \in Definitions
      BY DEF Definitions
    <3>. QED  BY <1>0, <3>1 DEF DefinitionTypes
  <2>3. StageTypes' /\ DefinitionTypes'
    BY <1>0, <1>2, <1>3, <2>1, <2>2 DEF Register, StageTypes, DefinitionTypes
  <2>. QED  BY <1>1, <2>3 DEF TypeOK
<1>4. ASSUME NEW x \in Registrations, RegisterPort(x) PROVE TypeOK'
  <2>1. x.id \in Ports
    BY DEF Registrations
  <2>2. StageTypes' /\ DefinitionTypes'
    BY <1>0, <1>2, <1>4, <2>1, RecordType DEF RegisterPort, StageTypes, DefinitionTypes
  <2>. QED  BY <1>1, <2>2 DEF TypeOK
<1>5. ASSUME NEW x \in PortExports, Export(x) PROVE TypeOK'
  <2>1. /\ x.id \in Ports /\ x.type \in Types
        /\ x.constructor \in Types \cup {None} /\ x.capacity \in Capacities \cup {None}
    BY ExportParts
  <2>2. exports' \in [Ports -> Types \cup {None}]
    BY <1>0, <1>5, <2>1 DEF Export, DefinitionTypes
  <2>3. factories' \in [Types -> Types \cup {None}]
    BY <1>0, <1>5, <2>1 DEF Export, DefinitionTypes
  <2>4. StageTypes'
    <3>1. UNCHANGED <<stage, error, edited>> /\ UNCHANGED builderVars
      BY <1>5 DEF Export
    <3>. QED  BY <1>0, <1>2, <3>1 DEF StageTypes
  <2>5. constrained' \in SUBSET Ports /\ capacities' \in [Ports -> Capacities \cup {None}]
    <3>1. constrained' = Constrain({x.id}, x.ranged) /\ capacities' = Size(x.id, x.capacity)
      BY <1>5 DEF Export
    <3>2. {x.id} \in SUBSET Ports
      BY <2>1
    <3>. QED  BY <1>0, <2>1, <3>1, <3>2, RecordType
  <2>6. DefinitionTypes'
    BY <1>0, <1>5, <2>2, <2>3, <2>5 DEF Export, DefinitionTypes
  <2>. QED  BY <1>1, <2>4, <2>6 DEF TypeOK
<1>6. ASSUME NEW o \in Outputs, NEW i \in Inputs, NEW size \in Capacities \cup {None},
             Connect(o, i, size)
      PROVE  TypeOK'
  <2>1. Type[o] \in Types /\ {o, i} \in SUBSET Ports /\ o \in Ports
    BY <1>0, PreparationAssumption
  <2>2. connections' \in [Outputs \X Inputs -> Types \cup {None}]
    BY <1>0, <1>6, <2>1 DEF Connect, DefinitionTypes
  <2>3. StageTypes' /\ DefinitionTypes'
    BY <1>0, <1>2, <1>6, <2>1, <2>2, RecordType DEF Connect, StageTypes, DefinitionTypes
  <2>. QED  BY <1>1, <2>3 DEF TypeOK
<1>7. ASSUME NEW type \in Types, RegisterMessageType(type) PROVE TypeOK'
  <2>1. StageTypes' /\ DefinitionTypes'
    BY <1>0, <1>2, <1>7, RecordType DEF RegisterMessageType, StageTypes, DefinitionTypes
  <2>. QED  BY <1>1, <2>1 DEF TypeOK
<1>. QED  BY <1>3, <1>4, <1>5, <1>6, <1>7 DEF Builder

LEMMA EditTypes == TypeOK /\ Edit => TypeOK'
<1>. SUFFICES ASSUME TypeOK, Edit PROVE TypeOK'
  OBVIOUS
<1>. USE DEF Call, builderVars, runtimeVars
<1>0. StageTypes /\ DefinitionTypes /\ RuntimeTypes
  BY DEF TypeOK
<1>1. RuntimeTypes' /\ StageTypes'
  BY <1>0, PreparationAssumption DEF Edit, RuntimeTypes, StageTypes
<1>2. connections' \in [Outputs \X Inputs -> Types \cup {None}]
  BY <1>0 DEF Edit, DefinitionTypes
<1>3. exports' \in [Ports -> Types \cup {None}] /\ factories' \in [Types -> Types \cup {None}]
  BY <1>0 DEF Edit, DefinitionTypes
<1>4. registered' \in SUBSET Ports /\ constrained' \in SUBSET Ports
  BY <1>0 DEF Edit, DefinitionTypes
<1>5. capacities' \in [Ports -> Capacities \cup {None}]
  BY <1>0 DEF Edit, DefinitionTypes
<1>6. blocks' \in Seq(Definitions)
  <2>1. UNCHANGED blocks \/ (blocks # <<>> /\ blocks' = Tail(blocks))
    BY Zenon DEF Edit
  <2>2. blocks \in Seq(Definitions)
    BY <1>0 DEF DefinitionTypes
  <2>3. blocks # <<>> => Tail(blocks) \in Seq(Definitions)
    BY <2>2
  <2>. QED  BY <2>1, <2>2, <2>3
<1>. QED  BY <1>1, <1>2, <1>3, <1>4, <1>5, <1>6 DEF TypeOK, DefinitionTypes

\* The slots of the table that preparation sets up.
LEMMA EmptySlotType ==
  ASSUME DefinitionTypes, NEW p \in Ports
  PROVE  /\ EmptySlot(p) \in Slot
         /\ EmptySlot(p).endpoint = None /\ EmptySlot(p).connected = FALSE
         /\ EmptySlot(p).claimed = FALSE /\ EmptySlot(p).range = Effective(p)
<1>1. TypesOf(p) \subseteq Types
  <2>1. BlockType[p] \in Types \cup {None} /\ exports[p] \in Types \cup {None}
    BY PreparationAssumption DEF DefinitionTypes
  <2>2. \A c \in Connected : connections[c] \in Types \cup {None}
    BY DEF Connected, DefinitionTypes
  <2>. QED  BY <2>1, <2>2 DEF TypesOf
<1>2. (IF TypesOf(p) = {} THEN None ELSE CHOOSE t \in TypesOf(p) : TRUE) \in Types \cup {None}
  BY <1>1
<1>. QED  BY <1>2, EffectiveType DEF EmptySlot, Slot

LEMMA FullSlotType ==
  ASSUME DefinitionTypes, NEW p \in Ports, NEW e \in Endpoints
  PROVE  /\ FullSlot(p, e) \in Slot
         /\ FullSlot(p, e).endpoint = e /\ FullSlot(p, e).range = e.range
         /\ FullSlot(p, e).connected = TRUE /\ FullSlot(p, e).claimed = FALSE
BY EmptySlotType DEF FullSlot, Slot, Endpoints

LEMMA PreparedTable ==
  ASSUME TypeOK, Prepare, table' # table
  PROVE  /\ table' \in [Slots -> Slot \cup {None}]
         /\ \A s \in Slots : table'[s] # None =>
              /\ ~table'[s].claimed
              /\ \/ ~table'[s].connected /\ table'[s].range = Effective(s[2])
                 \/ table'[s].endpoint \in Endpoints /\ table'[s].endpoint.range = table'[s].range
                    /\ table'[s].connected
<1>. DEFINE chosen(s) == CHOOSE e \in Installs(s) : TRUE
<1>0. DefinitionTypes
  BY DEF TypeOK
<1>1. /\ Problems = {}
      /\ table' = [s \in Slots |-> IF ~InTable(s) THEN None
                                   ELSE IF Installs(s) = {} THEN EmptySlot(s[2])
                                   ELSE FullSlot(s[2], chosen(s))]
  BY DEF Prepare
<1>2. Sound
  BY <1>0, <1>1, NoProblemsSound
<1>3. ASSUME NEW s \in Slots
      PROVE  /\ table'[s] \in Slot \cup {None}
             /\ table'[s] # None =>
                  /\ ~table'[s].claimed
                  /\ \/ ~table'[s].connected /\ table'[s].range = Effective(s[2])
                     \/ table'[s].endpoint \in Endpoints /\ table'[s].endpoint.range = table'[s].range
                        /\ table'[s].connected
  <2>0. s[2] \in Ports
    BY DEF Slots
  <2>1. CASE ~InTable(s)
    BY <1>1, <2>1
  <2>2. CASE InTable(s) /\ Installs(s) = {}
    <3>1. table'[s] = EmptySlot(s[2])
      BY <1>1, <2>2
    <3>. QED  BY <1>0, <2>0, <3>1, EmptySlotType
  <2>3. CASE InTable(s) /\ Installs(s) # {}
    <3>1. table'[s] = FullSlot(s[2], chosen(s)) /\ chosen(s) \in Installs(s)
      BY <1>1, <2>3
    <3>2. chosen(s) \in Endpoints
      BY <1>0, <1>2, <3>1, InstalledFits
    <3>. HIDE DEF chosen
    <3>3. /\ FullSlot(s[2], chosen(s)) \in Slot
          /\ FullSlot(s[2], chosen(s)).endpoint = chosen(s)
          /\ FullSlot(s[2], chosen(s)).range = chosen(s).range
          /\ FullSlot(s[2], chosen(s)).connected = TRUE /\ FullSlot(s[2], chosen(s)).claimed = FALSE
      BY <1>0, <2>0, <3>2, FullSlotType
    <3>. QED  BY <3>1, <3>2, <3>3
  <2>. QED  BY <2>1, <2>2, <2>3
<1>4. table' = [s \in Slots |-> table'[s]]
  BY <1>1
<1>. QED  BY <1>3, <1>4

\* A slot that is taken.
LEMMA TakeType ==
  ASSUME RuntimeTypes, NEW s \in Slots, NEW by \in Names \cup {"user"}, Take(s, by)
  PROVE  /\ table' \in [Slots -> Slot \cup {None}]
         /\ held' \in SUBSET Claims
         /\ table'[s].claimed /\ table'[s].connected = table[s].connected
         /\ \A r \in Slots \ {s} : table'[r] = table[r]
<1>. DEFINE range == table[s].range \cap Declared[s[2]]
<1>1. s[2] \in Ports /\ Type[s[2]] \in Types
  BY PreparationAssumption DEF Slots
<1>2. table[s] \in Slot
  BY DEF Take, Claimable, RuntimeTypes
<1>3. range \in Ranges
  BY <1>2 DEF Take, Claimable, Slot, Ranges
<1>4. table' = [table EXCEPT ![s] = [@ EXCEPT !.type = Type[s[2]], !.range = range,
                                              !.endpoint = None, !.claimed = TRUE]]
  BY DEF Take
<1>. HIDE DEF range
<1>5. [table[s] EXCEPT !.type = Type[s[2]], !.range = range, !.endpoint = None, !.claimed = TRUE] \in Slot
  BY <1>1, <1>2, <1>3 DEF Slot
<1>6. held' = held \cup {[by |-> by, slot |-> s, endpoint |-> table[s].endpoint, range |-> range]}
  BY DEF Take, range
<1>7. table[s].endpoint \in Endpoints \cup {None}
  BY <1>2 DEF Slot
<1>8. held' \in SUBSET Claims
  BY <1>3, <1>6, <1>7 DEF RuntimeTypes, Claims
<1>. QED  BY <1>2, <1>4, <1>5, <1>8 DEF RuntimeTypes, Slot

\* Every step keeps the types.
LEMMA PreparationTypeStep == TypeOK /\ TurnValid /\ [Next]_vars => TypeOK'
<1>. SUFFICES ASSUME TypeOK, TurnValid, [Next]_vars PROVE TypeOK'
  OBVIOUS
<1>. USE DEF builderVars, defVars, runtimeVars
<1>0. StageTypes /\ DefinitionTypes /\ RuntimeTypes
  BY DEF TypeOK
<1>1. CASE Build
  BY <1>0, <1>1 DEF Build, TypeOK, StageTypes, DefinitionTypes, RuntimeTypes
<1>2. CASE Prepare
  <2>1. stage' \in {"building", "built", "binding", "prepared", "refused", "panicked"}
    BY <1>2 DEF Prepare, Refuse
  <2>2. error' \in Errors \cup {None}
    BY <1>0, <1>2, ProblemNames DEF Prepare, Refuse, StageTypes
  <2>3. StageTypes' /\ DefinitionTypes'
    BY <1>0, <1>2, <2>1, <2>2 DEF Prepare, StageTypes, DefinitionTypes
  <2>4. RuntimeTypes'
    <3>1. table' \in [Slots -> Slot \cup {None}]
      BY <1>0, <1>2, PreparedTable DEF RuntimeTypes
    <3>. QED  BY <1>0, <1>2, <3>1 DEF Prepare, RuntimeTypes
  <2>. QED  BY <2>3, <2>4 DEF TypeOK
<1>3. ASSUME NEW p \in Ports, Claim(p) \/ TakeBoundary(p) PROVE TypeOK'
  <2>1. StageTypes' /\ DefinitionTypes' /\ turn' = turn
    BY <1>0, <1>3 DEF Claim, TakeBoundary, StageTypes, DefinitionTypes
  <2>2. UNCHANGED <<table, held>> \/ \E s \in Slots, by \in Names \cup {"user"} : Take(s, by)
    <3>1. CASE Claim(p)
      <4>1. /\ UNCHANGED <<table, held>> \/ Take(<<"inner", p>>, blocks[turn].name)
            /\ <<"inner", p>> \in Slots
        BY <3>1 DEF Claim, TakeFails, Slots
      <4>2. blocks[turn].name \in Names
        <5>1. blocks[turn] \in Definitions
          BY <1>0, <3>1 DEF Claim, TurnValid, DefinitionTypes
        <5>. QED  BY <5>1 DEF Definitions
      <4>. QED  BY <4>1, <4>2
    <3>2. CASE TakeBoundary(p)
      BY <3>2 DEF TakeBoundary, TakeFails, Slots
    <3>. QED  BY <1>3, <3>1, <3>2
  <2>3. RuntimeTypes'
    BY <1>0, <2>1, <2>2, TakeType DEF RuntimeTypes
  <2>. QED  BY <2>1, <2>3 DEF TypeOK
<1>4. CASE FactoryFails
  BY <1>0, <1>4 DEF FactoryFails, Refuse, Release, TypeOK, StageTypes, DefinitionTypes,
                    RuntimeTypes, Errors
<1>5. CASE FactoryReturns
  <2>1. StageTypes' /\ DefinitionTypes'
    BY <1>0, <1>5 DEF FactoryReturns, Refuse, StageTypes, DefinitionTypes, Errors
  <2>2. RuntimeTypes'
    BY <1>0, <1>5 DEF FactoryReturns, Release, RuntimeTypes
  <2>. QED  BY <2>1, <2>2 DEF TypeOK
<1>6. CASE UNCHANGED vars
  BY <1>0, <1>6 DEF vars, TypeOK, StageTypes, DefinitionTypes, RuntimeTypes
<1>. QED  BY <1>1, <1>2, <1>3, <1>4, <1>5, <1>6, BuilderTypes, EditTypes DEF Next

LEMMA TurnStep == TypeOK /\ TurnValid /\ [Next]_vars => TurnValid'
<1>. SUFFICES ASSUME TypeOK, TurnValid, [Next]_vars PROVE TurnValid'
  OBVIOUS
<1>. USE DEF TurnValid, Call, builderVars, defVars, runtimeVars
<1>0. Len(blocks) \in Nat /\ (Len(blocks) = 0 <=> blocks = <<>>)
  BY DEF TypeOK, DefinitionTypes
<1>1. CASE Builder
  BY <1>1 DEF Builder, Register, RegisterPort, Export, Connect, RegisterMessageType
<1>2. CASE Build \/ Edit
  BY <1>2 DEF Build, Edit
<1>3. CASE Prepare
  BY <1>0, <1>3 DEF Prepare, Refuse
<1>4. ASSUME NEW p \in Ports, Claim(p) \/ TakeBoundary(p) PROVE TurnValid'
  BY <1>4 DEF Claim, TakeBoundary
<1>5. CASE FactoryFails \/ FactoryReturns
  BY <1>0, <1>5 DEF FactoryFails, FactoryReturns, Refuse
<1>6. CASE UNCHANGED vars
  BY <1>6 DEF vars
<1>. QED  BY <1>1, <1>2, <1>3, <1>4, <1>5, <1>6 DEF Next

\* Every variable has its type, in every state and for any ports and blocks.
THEOREM PreparationTypeCorrect == Spec => []TypeOK
<1>1. Init => TypeOK /\ TurnValid
  BY PreparationTypeInit
<1>2. (TypeOK /\ TurnValid) /\ [Next]_vars => (TypeOK /\ TurnValid)'
  BY PreparationTypeStep, TurnStep
<1>. QED  BY <1>1, <1>2, PTL DEF Spec

-----------------------------------------------------------------------------
(* No panic. *)

\* Preparation never fails an expect() nor makes a queue that Tokio refuses,
\* whatever definition it is given.
THEOREM PreparationNeverPanics == Spec => []NeverPanics
<1>1. Init => NeverPanics
  BY DEF Init, NeverPanics
<1>2. TypeOK /\ NeverPanics /\ [Next]_vars => NeverPanics'
  <2>. SUFFICES ASSUME TypeOK, NeverPanics, [Next]_vars PROVE NeverPanics'
    OBVIOUS
  <2>. USE DEF NeverPanics
  <2>1. CASE Prepare
    <3>1. Problems = {} =>
            \A s \in Slots : \A e \in Installs(s) : InTable(s) /\ ~Panics(e)
      BY NoProblemsSound, InstalledFits DEF TypeOK
    <3>. QED  BY <2>1, <3>1 DEF Prepare, Refuse
  <2>2. CASE Builder
    BY <2>2 DEF Builder, Call, Register, RegisterPort, Export, Connect, RegisterMessageType
  <2>3. CASE Build \/ Edit
    BY <2>3 DEF Build, Edit, Call
  <2>4. ASSUME NEW p \in Ports, Claim(p) \/ TakeBoundary(p) PROVE NeverPanics'
    BY <2>4 DEF Claim, TakeBoundary
  <2>5. CASE FactoryFails \/ FactoryReturns
    BY <2>5 DEF FactoryFails, FactoryReturns, Refuse
  <2>6. CASE UNCHANGED vars
    BY <2>6 DEF vars
  <2>. QED  BY <2>1, <2>2, <2>3, <2>4, <2>5, <2>6 DEF Next
<1>. QED  BY <1>1, <1>2, PreparationTypeCorrect, PTL DEF Spec

-----------------------------------------------------------------------------
(* Claims. *)

\* There is nothing to claim before the first factory runs; what is claimed
\* stays marked; and a connected slot that is not claimed has its endpoint.
ClaimInv ==
  /\ stage \in {"building", "built"} => held = {} /\ \A s \in Slots : table[s] = None
  /\ \A h \in held : table[h.slot] # None /\ table[h.slot].claimed
  /\ \A s \in Slots :
       table[s] # None /\ table[s].connected /\ ~table[s].claimed =>
         table[s].endpoint \in Endpoints /\ table[s].endpoint.range = table[s].range
  /\ ClaimsAreLive

\* The range of a slot that is neither claimed nor connected is its port's.
LEMMA EffectiveStays ==
  ASSUME UNCHANGED defVars PROVE \A p : Effective(p)' = Effective(p)
BY DEF defVars, Effective, BlockRanged, PortsOf

\* The claim of a slot.
LEMMA TakeKeepsClaims ==
  ASSUME TypeOK, ClaimInv, UNCHANGED defVars,
         NEW s \in Slots, NEW by \in Names \cup {"user"}, Take(s, by),
         stage' \notin {"building", "built"}
  PROVE  ClaimInv'
<1>. DEFINE range == table[s].range \cap Declared[s[2]]
            claim == [by |-> by, slot |-> s, endpoint |-> table[s].endpoint, range |-> range]
<1>0. table[s] \in Slot /\ table[s] # None
  BY DEF Take, Claimable, TypeOK, RuntimeTypes
<1>1. /\ ~table[s].claimed /\ held' = held \cup {claim}
      /\ table[s].connected => range = table[s].range
  BY DEF Take, Claimable
<1>2. /\ table' \in [Slots -> Slot \cup {None}]
      /\ table'[s].claimed /\ table'[s].connected = table[s].connected
      /\ \A r \in Slots \ {s} : table'[r] = table[r]
  BY TakeType DEF TypeOK
<1>3. table'[s] # None
  <2>1. table' = [table EXCEPT ![s] = [@ EXCEPT !.type = Type[s[2]], !.range = range,
                                                !.endpoint = None, !.claimed = TRUE]]
    BY DEF Take
  <2>2. s[2] \in Ports /\ Type[s[2]] \in Types /\ range \in Ranges
    BY <1>0, PreparationAssumption DEF Take, Claimable, Slots, Slot, Ranges
  <2>. HIDE DEF range
  <2>3. [table[s] EXCEPT !.type = Type[s[2]], !.range = range, !.endpoint = None, !.claimed = TRUE] \in Slot
    BY <1>0, <2>2 DEF Slot
  <2>. QED  BY <2>1, <2>3, NoneAssumption DEF TypeOK, RuntimeTypes
<1>4. \A h \in held : h.slot \in Slots /\ h.slot # s
  BY <1>1 DEF ClaimInv, TypeOK, RuntimeTypes, Claims
<1>5. claim.slot = s /\ claim.endpoint = table[s].endpoint /\ claim.range = range
  OBVIOUS
<1>6. table[s].connected => claim.endpoint # None /\ claim.endpoint.range = claim.range
  BY <1>0, <1>1, <1>5, NoneAssumption DEF ClaimInv
<1>7. range \subseteq Declared[s[2]]
  OBVIOUS
<1>. HIDE DEF range, claim
<1>8. \A h \in held' : table'[h.slot] # None /\ table'[h.slot].claimed
  BY <1>1, <1>2, <1>3, <1>4, <1>5 DEF ClaimInv
<1>9. ClaimsAreLive'
  <2>1. ASSUME NEW h \in held'
        PROVE  /\ table'[h.slot].connected => h.endpoint # None /\ h.endpoint.range = h.range
               /\ h.range \subseteq Declared[h.slot[2]]
    <3>1. CASE h \in held
      BY <1>2, <1>4, <3>1 DEF ClaimInv, ClaimsAreLive
    <3>2. CASE h = claim
      BY <1>2, <1>5, <1>6, <1>7, <3>2
    <3>. QED  BY <1>1, <3>1, <3>2
  <2>2. \A g, h \in held' : g.slot = h.slot => g = h
    BY <1>1, <1>4, <1>5 DEF ClaimInv, ClaimsAreLive
  <2>3. ASSUME NEW r \in Slots, table'[r] # None
        PROVE  /\ table'[r].claimed <=> \E h \in held' : h.slot = r
               /\ ~table'[r].claimed =>
                    IF table'[r].connected
                    THEN table'[r].endpoint # None /\ table'[r].endpoint.range = table'[r].range
                    ELSE table'[r].range = Effective(r[2])'
    <3>1. CASE r = s
      BY <1>1, <1>2, <1>5, <3>1
    <3>2. CASE r # s
      <4>1. table'[r] = table[r] /\ Effective(r[2])' = Effective(r[2])
        BY <1>2, <3>2, EffectiveStays
      <4>2. (\E h \in held' : h.slot = r) <=> (\E h \in held : h.slot = r)
        BY <1>1, <1>5, <3>2
      <4>. QED  BY <2>3, <4>1, <4>2 DEF ClaimInv, ClaimsAreLive
    <3>. QED  BY <3>1, <3>2
  <2>. QED  BY <2>1, <2>2, <2>3 DEF ClaimsAreLive
<1>10. \A r \in Slots :
         table'[r] # None /\ table'[r].connected /\ ~table'[r].claimed =>
           table'[r].endpoint \in Endpoints /\ table'[r].endpoint.range = table'[r].range
  BY <1>2 DEF ClaimInv
<1>. QED  BY <1>8, <1>9, <1>10 DEF ClaimInv

\* What is prepared for a port is there, and nobody holds it.
LEMMA PreparedClaims ==
  ASSUME TypeOK, ClaimInv, Prepare PROVE ClaimInv'
<1>1. held = {} /\ held' = {} /\ UNCHANGED defVars /\ \A s \in Slots : table[s] = None
  BY DEF Prepare, ClaimInv
<1>2. CASE table' = table
  BY <1>1, <1>2 DEF ClaimInv, ClaimsAreLive
<1>3. CASE table' # table
  <2>1. \A s \in Slots : table'[s] # None =>
          /\ ~table'[s].claimed
          /\ \/ ~table'[s].connected /\ table'[s].range = Effective(s[2])
             \/ table'[s].endpoint \in Endpoints /\ table'[s].endpoint.range = table'[s].range
                /\ table'[s].connected
    BY <1>3, PreparedTable
  <2>2. stage' \notin {"building", "built"}
    BY <1>3 DEF Prepare, Refuse
  <2>3. \A s \in Slots : Effective(s[2])' = Effective(s[2])
    BY <1>1, EffectiveStays
  <2>4. \A s \in Slots : table'[s] # None =>
          /\ ~table'[s].claimed
          /\ IF table'[s].connected
             THEN table'[s].endpoint # None /\ table'[s].endpoint.range = table'[s].range
             ELSE table'[s].range = Effective(s[2])'
    BY <2>1, <2>3, NoneAssumption
  <2>5. ClaimsAreLive'
    BY <1>1, <2>4 DEF ClaimsAreLive
  <2>. QED  BY <1>1, <2>1, <2>2, <2>5 DEF ClaimInv
<1>. QED  BY <1>2, <1>3

LEMMA ClaimInit == Init => ClaimInv
BY DEF Init, ClaimInv, ClaimsAreLive

LEMMA ClaimStep == TypeOK /\ TurnValid /\ ClaimInv /\ [Next]_vars => ClaimInv'
<1>. SUFFICES ASSUME TypeOK, TurnValid, ClaimInv, [Next]_vars PROVE ClaimInv'
  OBVIOUS
<1>. USE DEF builderVars, runtimeVars
<1>1. ASSUME UNCHANGED <<table, held, defVars>>,
             stage' \in {"building", "built"} => stage \in {"building", "built"}
      PROVE  ClaimInv'
  BY <1>1, EffectiveStays DEF ClaimInv, ClaimsAreLive
<1>2. ASSUME Release, stage' \notin {"building", "built"} PROVE ClaimInv'
  BY <1>2 DEF Release, ClaimInv, ClaimsAreLive
<1>3. CASE Builder \/ Build \/ Edit
  <2>1. UNCHANGED <<table, held>> /\ stage \in {"building", "built"}
    BY <1>3 DEF Builder, Call, Register, RegisterPort, Export, Connect, RegisterMessageType, Build, Edit
  <2>. QED  BY <2>1 DEF ClaimInv, ClaimsAreLive
<1>4. CASE Prepare
  BY <1>4, PreparedClaims
<1>5. ASSUME NEW p \in Ports, Claim(p) PROVE ClaimInv'
  <2>1. /\ UNCHANGED <<table, held>>
           \/ (p \in PortsOf(turn) /\ Take(<<"inner", p>>, blocks[turn].name))
        /\ stage = "binding" /\ stage' = "binding" /\ UNCHANGED defVars
    BY <1>5 DEF Claim, TakeFails
  <2>2. blocks[turn].name \in Names
    <3>1. blocks[turn] \in Definitions
      BY <2>1 DEF TurnValid, TypeOK, DefinitionTypes
    <3>. QED  BY <3>1 DEF Definitions
  <2>3. <<"inner", p>> \in Slots
    BY DEF Slots
  <2>. QED  BY <1>1, <2>1, <2>2, <2>3, TakeKeepsClaims
<1>6. ASSUME NEW p \in Ports, TakeBoundary(p) PROVE ClaimInv'
  <2>1. <<"outer", p>> \in Slots
    BY DEF Slots
  <2>2. /\ UNCHANGED <<table, held>> \/ Take(<<"outer", p>>, "user")
        /\ stage' = "prepared" /\ UNCHANGED defVars
    BY <1>6 DEF TakeBoundary, TakeFails
  <2>. QED  BY <1>1, <2>1, <2>2, TakeKeepsClaims
<1>7. CASE FactoryFails \/ FactoryReturns
  <2>1. Release \/ UNCHANGED <<table, held, defVars>>
    BY <1>7 DEF FactoryFails, FactoryReturns
  <2>2. stage' \notin {"building", "built"}
    BY <1>7 DEF FactoryFails, FactoryReturns, Refuse
  <2>. QED  BY <1>1, <1>2, <2>1, <2>2
<1>8. CASE UNCHANGED vars
  BY <1>1, <1>8 DEF vars
<1>. QED  BY <1>3, <1>4, <1>5, <1>6, <1>7, <1>8 DEF Next

\* A port is claimed once, and its holder gets the connection's own endpoint
\* if there is one, never a dead stand-in; what nobody holds stays as it was
\* prepared, however many claims fail.
THEOREM ClaimsStayLive == Spec => []ClaimsAreLive
<1>1. Init => TypeOK /\ TurnValid /\ ClaimInv
  BY PreparationTypeInit, ClaimInit
<1>2. (TypeOK /\ TurnValid /\ ClaimInv) /\ [Next]_vars => (TypeOK /\ TurnValid /\ ClaimInv)'
  BY PreparationTypeStep, TurnStep, ClaimStep
<1>3. ClaimInv => ClaimsAreLive
  BY DEF ClaimInv
<1>. QED  BY <1>1, <1>2, <1>3, PTL DEF Spec

-----------------------------------------------------------------------------
(* What the builder keeps. *)

BuilderErrors == {"unregistered", "alreadyConnected", "unexportedCapacity"}

\* The builder's own sets cover what it wrote to the definition, and no output
\* is used twice: what the checks that find these errors ask.
Covered ==
  /\ known \subseteq DeclaredPorts
  /\ Exported \cup constrained \cup Sized \subseteq known
  /\ \A c \in Connected : EndsOf(c) \subseteq known

OneUse ==
  /\ Sized \cap Inputs \subseteq Exported
  /\ \A c \in Connected : c[1] \in joined
  /\ \A c, d \in Connected : c[1] = d[1] => c = d

BuilderInv == ~edited => Covered /\ OneUse /\ error \notin BuilderErrors

LEMMA BuilderInit == Init => BuilderInv
<1>. SUFFICES ASSUME Init PROVE BuilderInv
  OBVIOUS
<1>1. Connected = {} /\ Exported = {} /\ Sized = {}
  BY DEF Init, Connected, Exported, Sized
<1>3. known = {} /\ constrained = {} /\ error = None
  BY DEF Init
<1>4. None \notin BuilderErrors
  BY NoneAssumption DEF BuilderErrors, Errors
<1>. QED  BY <1>1, <1>3, <1>4 DEF BuilderInv, Covered, OneUse

\* A registered block declares its ports, whatever is registered before it.
LEMMA RegisterDeclares ==
  ASSUME TypeOK, NEW name \in Names, NEW executable \in BOOLEAN, Register(name, executable)
  PROVE  DeclaredPorts' = DeclaredPorts \cup Owned[name]
<1>1. blocks \in Seq(Definitions) /\ Len(blocks) \in Nat
  BY DEF TypeOK, DefinitionTypes
<1>2. /\ DOMAIN blocks' = DOMAIN blocks \cup {Len(blocks) + 1}
      /\ \A k \in DOMAIN blocks : blocks'[k] = blocks[k]
      /\ blocks'[Len(blocks) + 1].name = name
      /\ registered' = registered
  BY <1>1 DEF Register
<1>. QED  BY <1>2 DEF DeclaredPorts, PortsOf

\* A call of the builder.
LEMMA CallsAreCovered == TypeOK /\ BuilderInv /\ ~edited /\ Builder => (Covered /\ OneUse)'
<1>. SUFFICES ASSUME TypeOK, Covered, OneUse, Builder PROVE Covered' /\ OneUse'
  BY DEF BuilderInv
<1>0. DefinitionTypes /\ Ports = Inputs \cup Outputs
  BY DEF TypeOK, Ports
<1>1. ASSUME NEW name \in Names, NEW executable \in BOOLEAN, Register(name, executable)
      PROVE  Covered' /\ OneUse'
  <2>1. DeclaredPorts' = DeclaredPorts \cup Owned[name]
    BY <1>1, RegisterDeclares
  <2>2. /\ known' = known \cup Owned[name] /\ constrained' = constrained /\ joined' = joined
        /\ Connected' = Connected /\ Exported' = Exported /\ Sized' = Sized
    BY <1>1 DEF Register, Connected, Exported, Sized
  <2>. QED  BY <2>1, <2>2 DEF Covered, OneUse
<1>2. ASSUME NEW x \in Registrations, RegisterPort(x) PROVE Covered' /\ OneUse'
  <2>1. DeclaredPorts' = DeclaredPorts \cup {x.id}
    BY <1>2 DEF RegisterPort, DeclaredPorts, PortsOf
  <2>2. /\ known' = known \cup {x.id} /\ joined' = joined
        /\ constrained' \subseteq constrained \cup {x.id}
        /\ Connected' = Connected /\ Exported' = Exported /\ Sized' = Sized
    BY <1>2 DEF RegisterPort, Constrain, Connected, Exported, Sized
  <2>. QED  BY <2>1, <2>2 DEF Covered, OneUse
<1>3. ASSUME NEW x \in PortExports, Export(x) PROVE Covered' /\ OneUse'
  <2>1. x.id \in known /\ x.id \in Ports /\ x.type \in Types /\ None \notin Types
    BY <1>3, ExportParts, PreparationAssumption DEF Export
  <2>2. Exported' = Exported \cup {x.id}
    BY <1>0, <1>3, <2>1 DEF Export, Exported, DefinitionTypes
  <2>3. Sized' \subseteq Sized \cup {x.id}
    BY <1>0, <1>3, <2>1 DEF Export, Size, Sized, DefinitionTypes
  <2>4. /\ DeclaredPorts' = DeclaredPorts /\ known' = known /\ joined' = joined
        /\ Connected' = Connected /\ constrained' \subseteq constrained \cup {x.id}
    BY <1>3 DEF Export, builderVars, Constrain, Connected, DeclaredPorts, PortsOf
  <2>. QED  BY <2>1, <2>2, <2>3, <2>4 DEF Covered, OneUse
<1>4. ASSUME NEW o \in Outputs, NEW i \in Inputs, NEW size \in Capacities \cup {None},
             Connect(o, i, size)
      PROVE  Covered' /\ OneUse'
  <2>1. {o, i} \subseteq known /\ o \notin joined /\ Type[o] \in Types /\ None \notin Types
    BY <1>0, <1>4, PreparationAssumption DEF Connect
  <2>2. Connected' = Connected \cup {<<o, i>>}
    BY <1>0, <1>4, <2>1 DEF Connect, Connected, DefinitionTypes
  <2>3. Sized' \subseteq Sized \cup {o}
    BY <1>0, <1>4 DEF Connect, Size, Sized, DefinitionTypes
  <2>4. /\ DeclaredPorts' = DeclaredPorts /\ known' = known /\ Exported' = Exported
        /\ constrained' \subseteq constrained \cup {o, i}
    BY <1>4 DEF Connect, Constrain, Exported, DeclaredPorts, PortsOf
  <2>6. connections[<<o, i>>] = None
    BY <1>0, <2>1 DEF OneUse, Connected, DefinitionTypes
  <2>7. joined' = joined \cup {o}
    BY <1>4, <2>6 DEF Connect
  <2>8. o \notin Inputs
    BY PreparationAssumption
  <2>9. Covered'
    BY <2>1, <2>2, <2>3, <2>4 DEF Covered, EndsOf
  <2>10. \A c, d \in Connected' : c[1] = d[1] => c = d
    BY <2>1, <2>2 DEF OneUse
  <2>. QED  BY <2>2, <2>3, <2>4, <2>7, <2>8, <2>9, <2>10 DEF OneUse
<1>5. ASSUME NEW type \in Types, RegisterMessageType(type) PROVE Covered' /\ OneUse'
  <2>1. /\ DeclaredPorts' = DeclaredPorts /\ known' = known /\ constrained' = constrained
        /\ joined' = joined /\ Connected' = Connected /\ Exported' = Exported /\ Sized' = Sized
    BY <1>5 DEF RegisterMessageType, builderVars, DeclaredPorts, PortsOf, Connected, Exported, Sized
  <2>. QED  BY <2>1 DEF Covered, OneUse
<1>. QED  BY <1>1, <1>2, <1>3, <1>4, <1>5 DEF Builder

\* What is covered gives the checks nothing to find.
LEMMA CoveredChecks ==
  TypeOK /\ Covered /\ OneUse => \A why \in Problems : why \notin BuilderErrors
<1>. SUFFICES ASSUME TypeOK, Covered, OneUse, NEW k \in 1 .. 11, NEW why \in Checks[k]
              PROVE  why \notin BuilderErrors
  BY ProblemsFound
<1>. USE DEF BuilderErrors
<1>0. /\ Checks[1] = DuplicateProblems /\ Checks[2] = ExportProblems
      /\ Checks[3] = ConstraintProblems /\ Checks[4] = CapacityProblems
      /\ Checks[5] = ConnectionProblems /\ Checks[6] = RangeProblems
      /\ Checks[7] = ProcessProblems /\ Checks[8] = FactoryProblems
      /\ Checks[9] = SizeProblems /\ Checks[10] = WiringProblems
      /\ Checks[11] = ChannelProblems
  BY DEF Checks
<1>1. CASE k \in {1, 6, 7, 8, 9, 10, 11}
  BY <1>0, <1>1 DEF DuplicateProblems, RangeProblems, ProcessProblems, FactoryProblems,
                    SizeProblems, WiringProblems, ChannelProblems
<1>2. CASE k = 2
  BY <1>0, <1>2 DEF ExportProblems, Covered
<1>3. CASE k = 3
  BY <1>0, <1>3 DEF ConstraintProblems, Covered
<1>4. CASE k = 4
  BY <1>0, <1>4 DEF CapacityProblems, Covered, OneUse
<1>5. CASE k = 5
  <2>1. UNION {EndsOf(c) : c \in Connected} \subseteq DeclaredPorts
    BY DEF Covered
  <2>2. ~ \E c, d \in Connected : d # c /\ d[1] = c[1]
    BY DEF OneUse
  <2>. QED  BY <1>0, <1>5, <2>1, <2>2 DEF ConnectionProblems, UseProblems
<1>. QED  BY <1>1, <1>2, <1>3, <1>4, <1>5

LEMMA BuilderStep == TypeOK /\ BuilderInv /\ [Next]_vars => BuilderInv'
<1>. SUFFICES ASSUME TypeOK, BuilderInv, [Next]_vars, ~edited' PROVE BuilderInv'
  BY DEF BuilderInv
<1>1. ASSUME ~edited, UNCHANGED <<builderVars, defVars>>, error' \notin BuilderErrors
      PROVE  BuilderInv'
  <2>1. /\ Connected' = Connected /\ Exported' = Exported /\ Sized' = Sized
        /\ DeclaredPorts' = DeclaredPorts /\ known' = known /\ joined' = joined
        /\ constrained' = constrained
    BY <1>1 DEF builderVars, defVars, Connected, Exported, Sized, DeclaredPorts, PortsOf
  <2>. QED  BY <1>1, <2>1 DEF BuilderInv, Covered, OneUse
<1>2. CASE Builder
  <2>1. UNCHANGED edited /\ UNCHANGED error
    BY <1>2, Zenon DEF Builder, Call, Register, RegisterPort, Export, Connect, RegisterMessageType
  <2>. QED  BY <1>2, <2>1, CallsAreCovered DEF BuilderInv
<1>3. CASE Build
  BY <1>1, <1>3 DEF Build, BuilderInv
<1>4. CASE Edit
  BY <1>4 DEF Edit
<1>5. CASE Prepare
  <2>1. ~edited /\ UNCHANGED <<builderVars, defVars>>
    BY <1>5 DEF Prepare
  <2>2. error' \in Problems \cup {error}
    BY <1>5 DEF Prepare, Refuse
  <2>3. error' \notin BuilderErrors
    BY <2>1, <2>2, CoveredChecks DEF BuilderInv
  <2>. QED  BY <1>1, <2>1, <2>3
<1>6. ASSUME NEW p \in Ports, Claim(p) \/ TakeBoundary(p) PROVE BuilderInv'
  BY <1>1, <1>6 DEF Claim, TakeBoundary, BuilderInv
<1>7. CASE FactoryFails \/ FactoryReturns
  <2>1. error' \in {"binding", "unclaimed", error} /\ edited' = edited
        /\ UNCHANGED <<builderVars, defVars>>
    BY <1>7 DEF FactoryFails, FactoryReturns, Refuse
  <2>2. error' \notin BuilderErrors
    BY <2>1 DEF BuilderInv, BuilderErrors
  <2>. QED  BY <1>1, <2>1, <2>2
<1>8. CASE UNCHANGED vars
  BY <1>1, <1>8 DEF vars, BuilderInv, builderVars, defVars
<1>. QED  BY <1>2, <1>3, <1>4, <1>5, <1>6, <1>7, <1>8 DEF Next

\* No definition the builder made, however it was called, is refused for what
\* the builder itself checks.
THEOREM BuilderStaysConsistent == Spec => []BuilderIsConsistent
<1>1. Init => TypeOK /\ TurnValid /\ BuilderInv
  BY PreparationTypeInit, BuilderInit
<1>2. (TypeOK /\ TurnValid /\ BuilderInv) /\ [Next]_vars => (TypeOK /\ TurnValid /\ BuilderInv)'
  BY PreparationTypeStep, TurnStep, BuilderStep
<1>3. BuilderInv => BuilderIsConsistent
  BY DEF BuilderInv, BuilderErrors, BuilderIsConsistent
<1>. QED  BY <1>1, <1>2, <1>3, PTL DEF Spec

-----------------------------------------------------------------------------
(* The wiring. *)

\* What else a definition without problems satisfies: no port is used twice, and
\* no constructor is filed under another type.
Coherent ==
  /\ \A c, d \in Connected : c[1] = d[1] => c = d
  /\ \A c, d \in Connected : c[2] = d[2] => connections[c] = connections[d]
  /\ \A t \in Types : factories[t] \in {None, t}
  /\ \A j, k \in DOMAIN blocks : j # k => PortsOf(j) \cap PortsOf(k) = {}

LEMMA ConnectedType ==
  ASSUME DefinitionTypes, NEW c \in Connected
  PROVE  /\ c = <<c[1], c[2]>> /\ c[1] \in Outputs /\ c[2] \in Inputs
         /\ c[1] \in Ports /\ c[2] \in Ports /\ connections[c] \in Types
BY DEF Connected, DefinitionTypes, Ports

\* The types a port is given are finitely many.
LEMMA TypesFinite ==
  ASSUME DefinitionTypes, NEW p \in Ports
  PROVE  IsFiniteSet(TypesOf(p))
<1>. DEFINE joins == {d \in Connected : p \in EndsOf(d)}
            fromBlocks == {BlockType[p] : k \in {j \in DOMAIN blocks : p \in PortsOf(j)}}
            fromJoins  == {connections[c] : c \in joins}
<1>1. IsFiniteSet(Outputs \X Inputs)
  <2>1. IsFiniteSet(Ports) /\ Outputs \subseteq Ports /\ Inputs \subseteq Ports
    BY PreparationAssumption DEF Ports
  <2>2. IsFiniteSet(Outputs) /\ IsFiniteSet(Inputs)
    BY <2>1, FS_Subset
  <2>. QED  BY <2>2, FS_Product
<1>2. joins \subseteq Outputs \X Inputs
  BY DEF Connected, DefinitionTypes
<1>3. IsFiniteSet(joins)
  BY <1>1, <1>2, FS_Subset
<1>. HIDE DEF joins
<1>4. IsFiniteSet(fromJoins)
  <2>. DEFINE f == [c \in joins |-> connections[c]]
  <2>1. f \in Surjection(joins, fromJoins)
    BY DEF Surjection
  <2>. QED  BY <1>3, <2>1, FS_Surjection
<1>5. fromBlocks \subseteq {BlockType[p]} /\ IsFiniteSet({BlockType[p]})
  BY FS_Singleton
<1>6. IsFiniteSet(fromBlocks)
  BY <1>5, FS_Subset
<1>7. IsFiniteSet({exports[p]})
  BY FS_Singleton
<1>8. TypesOf(p) = (fromBlocks \cup {exports[p]} \cup fromJoins) \ {None}
  BY DEF TypesOf, joins
<1>. HIDE DEF fromBlocks, fromJoins
<1>9. IsFiniteSet(fromBlocks \cup {exports[p]} \cup fromJoins)
  BY <1>4, <1>6, <1>7, FS_Union
<1>. QED  BY <1>8, <1>9, FS_Subset

\* A set with no more than one element.
LEMMA AtMostOne ==
  ASSUME NEW S, IsFiniteSet(S), ~(Cardinality(S) > 1), NEW a \in S, NEW b \in S
  PROVE  a = b
<1>. SUFFICES ASSUME a # b PROVE FALSE
  OBVIOUS
<1>1. {a} \subseteq S /\ {a} # S
  OBVIOUS
<1>2. Cardinality({a}) = 1
  BY FS_Singleton
<1>3. Cardinality({a}) < Cardinality(S) /\ Cardinality(S) \in Nat
  BY <1>1, FS_Subset, FS_CardinalityType
<1>. QED  BY <1>2, <1>3

LEMMA NoProblemsCoherent == DefinitionTypes /\ Problems = {} => Coherent
<1>. SUFFICES ASSUME DefinitionTypes, Problems = {} PROVE Coherent
  OBVIOUS
<1>1. DuplicateProblems = {} /\ ConnectionProblems = {} /\ FactoryProblems = {}
  BY ProblemsFound DEF Checks
<1>2. \A c, d \in Connected : c[1] = d[1] => c = d
  <2>1. {d \in Connected : \E e \in Connected : d # e /\ d[1] = e[1]} = {}
    BY <1>1, Zenon DEF ConnectionProblems
  <2>. QED  BY <2>1
<1>3. ASSUME NEW c \in Connected, NEW d \in Connected, c[2] = d[2]
      PROVE  connections[c] = connections[d]
  <2>. DEFINE p == c[2]
              used == UNION {EndsOf(e) : e \in Connected}
  <2>1. p \in Ports /\ p \in used
    BY ConnectedType DEF EndsOf
  <2>2. UseProblems(used) = {}
    BY <1>1 DEF ConnectionProblems
  <2>. HIDE DEF used
  <2>3. used \subseteq DeclaredPorts /\ {q \in used \cap DeclaredPorts : Cardinality(TypesOf(q)) > 1} = {}
    BY <2>2 DEF UseProblems
  <2>4. ~(Cardinality(TypesOf(p)) > 1)
    BY <2>1, <2>3
  <2>5. connections[c] \in TypesOf(p) /\ connections[d] \in TypesOf(p)
    <3>1. p \in EndsOf(c) /\ p \in EndsOf(d)
      BY <1>3 DEF EndsOf
    <3>2. connections[c] # None /\ connections[d] # None
      BY DEF Connected
    <3>. HIDE DEF p
    <3>. QED  BY <3>1, <3>2 DEF TypesOf
  <2>. HIDE DEF p
  <2>. QED  BY <2>1, <2>4, <2>5, TypesFinite, AtMostOne
<1>4. \A t \in Types : factories[t] \in {None, t}
  BY <1>1 DEF FactoryProblems
<1>5. ASSUME NEW j \in DOMAIN blocks, NEW k \in DOMAIN blocks, j # k,
             NEW p \in PortsOf(j) \cap PortsOf(k)
      PROVE  FALSE
  <2>1. SharedPorts = {}
    BY <1>1 DEF DuplicateProblems
  <2>2. blocks[j].name \in Names
    <3>1. blocks[j] \in Definitions
      BY DEF DefinitionTypes
    <3>. QED  BY <3>1 DEF Definitions
  <2>3. p \in Ports
    BY <2>2, PreparationAssumption DEF PortsOf
  <2>. QED  BY <1>5, <2>1, <2>3 DEF SharedPorts
<1>. QED  BY <1>2, <1>3, <1>4, <1>5 DEF Coherent

\* The ends that are installed: of an export, of a connection's output, and of
\* its input.
ExportEnd(p)  == Endpoint(p, exports[p], Effective(p), {p})
SendEnd(c)    == Endpoint(c[2], connections[c], {f[c[1]] : f \in Possible(c[2])}, {c[1]})
ReceiveEnd(c) == Endpoint(c[2], connections[c], {Total(f) : f \in Possible(c[2])}, Producers(c[2]))

LEMMA InstallsAre ==
  ASSUME NEW s, NEW e
  PROVE  e \in Installs(s) <=>
           \/ s[2] \in Exported /\ e = ExportEnd(s[2])
           \/ s[1] # "outer" /\ \E c \in Connected : c[1] = s[2] /\ e = SendEnd(c)
           \/ s[1] # "outer" /\ \E c \in Connected : c[2] = s[2] /\ e = ReceiveEnd(c)
<1>. DEFINE p == s[2]
            exported == {Endpoint(p, exports[p], Effective(p), {p}) : q \in {p} \cap Exported}
            sends == {Endpoint(c[2], connections[c], {f[p] : f \in Possible(c[2])}, {p})
                        : c \in {d \in Connected : d[1] = p}}
            receives == {Endpoint(p, connections[c], {Total(f) : f \in Possible(p)}, Producers(p))
                        : c \in {d \in Connected : d[2] = p}}
<1>1. Installs(s) = exported \cup IF s[1] = "outer" THEN {} ELSE sends \cup receives
  BY DEF Installs
<1>2. e \in exported <=> s[2] \in Exported /\ e = ExportEnd(s[2])
  BY DEF ExportEnd
<1>3. e \in sends <=> \E c \in Connected : c[1] = s[2] /\ e = SendEnd(c)
  BY DEF SendEnd
<1>4. e \in receives <=> \E c \in Connected : c[2] = s[2] /\ e = ReceiveEnd(c)
  BY DEF ReceiveEnd
<1>. HIDE DEF exported, sends, receives
<1>. QED  BY <1>1, <1>2, <1>3, <1>4

LEMMA OneInstalled ==
  ASSUME DefinitionTypes, Sound, Coherent, NEW s \in Slots, NEW e \in Installs(s), NEW d \in Installs(s)
  PROVE  e = d
<1>. DEFINE Is(x, how) ==
       \/ how = "export" /\ s[2] \in Exported /\ x = ExportEnd(s[2])
       \/ how = "send" /\ \E c \in Connected : c[1] = s[2] /\ x = SendEnd(c)
       \/ how = "receive" /\ \E c \in Connected : c[2] = s[2] /\ x = ReceiveEnd(c)
<1>0. ASSUME NEW x \in Installs(s) PROVE \E how \in {"export", "send", "receive"} : Is(x, how)
  <2>1. Is(x, "export") \/ Is(x, "send") \/ Is(x, "receive")
    BY InstallsAre
  <2>. QED  BY <2>1, Zenon
<1>1. PICK how \in {"export", "send", "receive"} : Is(e, how)
  BY <1>0
<1>2. PICK too \in {"export", "send", "receive"} : Is(d, too)
  BY <1>0
<1>3. \A c \in Connected : c[1] \notin Exported /\ c[2] \notin Exported
  BY DEF Sound, EndsOf
<1>4. \A b, c \in Connected : b[1] # c[2]
  BY ConnectedType, PreparationAssumption
<1>5. how = too
  BY <1>1, <1>2, <1>3, <1>4
<1>6. CASE how = "export"
  BY <1>1, <1>2, <1>5, <1>6
<1>7. CASE how = "send"
  BY <1>1, <1>2, <1>5, <1>7 DEF Coherent
<1>8. CASE how = "receive"
  <2>1. PICK b \in Connected : b[2] = s[2] /\ e = ReceiveEnd(b)
    BY <1>1, <1>8
  <2>2. PICK c \in Connected : c[2] = s[2] /\ d = ReceiveEnd(c)
    BY <1>2, <1>5, <1>8
  <2>3. connections[b] = connections[c]
    BY <2>1, <2>2 DEF Coherent
  <2>. QED  BY <2>1, <2>2, <2>3 DEF ReceiveEnd
<1>. QED  BY <1>1, <1>6, <1>7, <1>8

\* While the definition stays, so does all that follows from it.
LEMMA SameDefinition ==
  ASSUME UNCHANGED defVars
  PROVE  /\ (Sound /\ Coherent => (Sound /\ Coherent)')
         /\ \A s \in Slots : Installs(s)' = Installs(s)
<1>0. /\ UNCHANGED blocks /\ UNCHANGED registered /\ UNCHANGED exports /\ UNCHANGED connections
      /\ UNCHANGED constrained /\ UNCHANGED capacities /\ UNCHANGED factories
  BY DEF defVars
<1>1. /\ Connected' = Connected /\ Exported' = Exported /\ Sized' = Sized
      /\ \A k : PortsOf(k)' = PortsOf(k)
  BY <1>0 DEF Connected, Exported, Sized, PortsOf
<1>2. DeclaredPorts' = DeclaredPorts /\ BlockRanged' = BlockRanged
  BY <1>0, <1>1 DEF DeclaredPorts, BlockRanged
<1>3. \A p : Producers(p)' = Producers(p) /\ Effective(p)' = Effective(p)
  BY <1>0, <1>1, <1>2 DEF Producers, Effective
<1>4. \A p : Possible(p)' = Possible(p)
  BY <1>3 DEF Possible
<1>5. (\A t : Payload(t)' = Payload(t)) /\ Constructible' = Constructible
  BY <1>0 DEF Payload, Constructible
<1>6. \A c, S : Queues(c, S)' = Queues(c, S)
  BY <1>0 DEF Queues
<1>7. \A c, type, range, S : Endpoint(c, type, range, S)' = Endpoint(c, type, range, S)
  BY <1>5, <1>6 DEF Endpoint
<1>8. Sound /\ Coherent => (Sound /\ Coherent)'
  BY <1>0, <1>1, <1>2, <1>3, <1>4, <1>5 DEF Sound, Coherent
<1>9. ASSUME NEW s \in Slots PROVE Installs(s)' = Installs(s)
  BY <1>0, <1>1, <1>3, <1>4, <1>7 DEF Installs
<1>. QED  BY <1>8, <1>9

InUse == stage \in {"binding", "prepared"}

\* Each slot has what was installed in it, or its claimant has.
SlotsKept ==
  \A s \in Slots :
    /\ EndpointsAt(s) = Installs(s)
    /\ table[s] # None =>
         /\ table[s].claimed => table[s].endpoint = None /\ \E h \in held : h.slot = s
         /\ table[s].endpoint # None => table[s].connected

\* A block's ports are claimed by its own factory, all the connected ones of
\* them before the factory of the next block runs.
ClaimsMade ==
  /\ \A h \in held : h.slot[1] = "inner" =>
       \E k \in DOMAIN blocks : h.by = blocks[k].name /\ h.slot[2] \in PortsOf(k)
  /\ \A k \in DOMAIN blocks : k < turn =>
       \A p \in PortsOf(k) : table[<<"inner", p>>].connected => table[<<"inner", p>>].claimed
  /\ stage = "prepared" => \A k \in DOMAIN blocks : k < turn

WiringInv == InUse => Sound /\ Coherent /\ SlotsKept /\ ClaimsMade

LEMMA EndpointsAre ==
  ASSUME NEW s, NEW e
  PROVE  e \in EndpointsAt(s) <=>
           /\ e # None
           /\ \/ table[s] # None /\ e = table[s].endpoint
              \/ \E h \in held : h.slot = s /\ e = h.endpoint
<1>. DEFINE there == {table[s].endpoint : q \in {x \in {s} : table[x] # None}}
            taken == {h.endpoint : h \in {g \in held : g.slot = s}}
<1>1. EndpointsAt(s) = (there \cup taken) \ {None}
  BY DEF EndpointsAt
<1>2. e \in there <=> table[s] # None /\ e = table[s].endpoint
  OBVIOUS
<1>3. e \in taken <=> \E h \in held : h.slot = s /\ e = h.endpoint
  OBVIOUS
<1>. HIDE DEF there, taken
<1>. QED  BY <1>1, <1>2, <1>3

\* The same in the next state.
LEMMA EndpointsWillBe ==
  ASSUME NEW s, NEW e
  PROVE  e \in EndpointsAt(s)' <=>
           /\ e # None
           /\ \/ table'[s] # None /\ e = table'[s].endpoint
              \/ \E h \in held' : h.slot = s /\ e = h.endpoint
<1>. DEFINE there == {table'[s].endpoint : q \in {x \in {s} : table'[x] # None}}
            taken == {h.endpoint : h \in {g \in held' : g.slot = s}}
<1>1. EndpointsAt(s)' = (there \cup taken) \ {None}
  BY DEF EndpointsAt
<1>2. e \in there <=> table'[s] # None /\ e = table'[s].endpoint
  OBVIOUS
<1>3. e \in taken <=> \E h \in held' : h.slot = s /\ e = h.endpoint
  OBVIOUS
<1>. HIDE DEF there, taken
<1>. QED  BY <1>1, <1>2, <1>3

\* Preparation puts into each slot what is installed there.
LEMMA PrepareWires ==
  ASSUME TypeOK, TurnValid, ClaimInv, Prepare, InUse'
  PROVE  WiringInv'
<1>. DEFINE chosen(s) == CHOOSE e \in Installs(s) : TRUE
<1>0. DefinitionTypes /\ stage = "built"
  BY DEF TypeOK, Prepare
<1>1. /\ Problems = {} /\ stage' = IF blocks = <<>> THEN "prepared" ELSE "binding"
      /\ table' = [s \in Slots |-> IF ~InTable(s) THEN None
                                   ELSE IF Installs(s) = {} THEN EmptySlot(s[2])
                                   ELSE FullSlot(s[2], chosen(s))]
      /\ UNCHANGED defVars /\ UNCHANGED held /\ UNCHANGED turn
  BY DEF Prepare, InUse, Refuse
<1>2. Sound /\ Coherent
  BY <1>0, <1>1, NoProblemsSound, NoProblemsCoherent
<1>3. held' = {} /\ turn' = 1 /\ UNCHANGED blocks
  BY <1>0, <1>1 DEF ClaimInv, TurnValid, defVars
<1>4. (Sound /\ Coherent)' /\ \A s \in Slots : Installs(s)' = Installs(s)
  BY <1>1, <1>2, SameDefinition
<1>5. ASSUME NEW s \in Slots
      PROVE  /\ EndpointsAt(s)' = Installs(s)'
             /\ table'[s] # None => ~table'[s].claimed
                                    /\ (table'[s].endpoint # None => table'[s].connected)
  <2>0. s[2] \in Ports
    BY DEF Slots
  <2>1. CASE ~InTable(s)
    <3>1. table'[s] = None
      BY <1>1, <2>1
    <3>2. Installs(s) = {}
      BY <1>0, <1>2, <2>1, InstalledFits
    <3>. QED  BY <1>3, <1>4, <3>1, <3>2, EndpointsWillBe
  <2>2. CASE InTable(s) /\ Installs(s) = {}
    <3>1. table'[s] = EmptySlot(s[2])
      BY <1>1, <2>2
    <3>2. EmptySlot(s[2]).endpoint = None /\ EmptySlot(s[2]).claimed = FALSE
      BY <1>0, <2>0, EmptySlotType DEF EmptySlot
    <3>. QED  BY <1>3, <1>4, <2>2, <3>1, <3>2, EndpointsWillBe
  <2>3. CASE InTable(s) /\ Installs(s) # {}
    <3>1. table'[s] = FullSlot(s[2], chosen(s)) /\ chosen(s) \in Installs(s)
      BY <1>1, <2>3
    <3>2. chosen(s) \in Endpoints
      BY <1>0, <1>2, <3>1, InstalledFits
    <3>. DEFINE end == chosen(s)
    <3>3. end \in Installs(s) /\ end \in Endpoints /\ table'[s] = FullSlot(s[2], end)
      BY <3>1, <3>2
    <3>. HIDE DEF end, chosen
    <3>4. /\ FullSlot(s[2], end) \in Slot /\ FullSlot(s[2], end).endpoint = end
      BY <1>0, <2>0, <3>3, FullSlotType
    <3>5. FullSlot(s[2], end).connected = TRUE /\ FullSlot(s[2], end).claimed = FALSE
      BY DEF FullSlot, EmptySlot
    <3>6. end # None /\ None \notin Slot
      BY <3>3, NoneAssumption
    <3>7. \A e : e \in EndpointsAt(s)' <=> e = end
      BY <1>3, <3>3, <3>4, <3>6, EndpointsWillBe
    <3>8. \A e : e \in Installs(s) <=> e = end
      BY <1>0, <1>2, <3>3, OneInstalled
    <3>9. EndpointsAt(s)' = Installs(s)
      BY <3>7, <3>8
    <3>. QED  BY <1>4, <3>3, <3>4, <3>5, <3>9
  <2>. QED  BY <2>1, <2>2, <2>3
<1>6. SlotsKept'
  BY <1>5 DEF SlotsKept
<1>7. ClaimsMade'
  <2>1. \A k \in DOMAIN blocks : ~(k < 1)
    BY <1>0 DEF DefinitionTypes
  <2>2. stage' = "prepared" => DOMAIN blocks = {}
    BY <1>1
  <2>. QED  BY <1>3, <2>1, <2>2 DEF ClaimsMade
<1>. QED  BY <1>4, <1>6, <1>7 DEF WiringInv

LEMMA SlotsFrame ==
  ASSUME SlotsKept, UNCHANGED defVars, UNCHANGED table, UNCHANGED held
  PROVE  SlotsKept'
<1>1. \A s \in Slots : Installs(s)' = Installs(s) /\ EndpointsAt(s)' = EndpointsAt(s)
  BY SameDefinition DEF EndpointsAt
<1>. QED  BY <1>1 DEF SlotsKept

\* A claim moves an endpoint from its slot to the claimant.
LEMMA TakeMoves ==
  ASSUME TypeOK, SlotsKept, UNCHANGED defVars,
         NEW s \in Slots, NEW by \in Names \cup {"user"}, Take(s, by)
  PROVE  /\ SlotsKept'
         /\ \A r \in Slots : table'[r].connected = table[r].connected
                             /\ (table[r].claimed => table'[r].claimed)
         /\ \A h \in held' : h \in held \/ (h.by = by /\ h.slot = s)
<1>. DEFINE range == table[s].range \cap Declared[s[2]]
            claim == [by |-> by, slot |-> s, endpoint |-> table[s].endpoint, range |-> range]
<1>0. table \in [Slots -> Slot \cup {None}] /\ table[s] \in Slot
  BY DEF Take, Claimable, TypeOK, RuntimeTypes
<1>1. /\ table[s] # None /\ ~table[s].claimed /\ held' = held \cup {claim}
      /\ table' = [table EXCEPT ![s] = [@ EXCEPT !.type = Type[s[2]], !.range = range,
                                                 !.endpoint = None, !.claimed = TRUE]]
  BY DEF Take, Claimable
<1>2. /\ table' \in [Slots -> Slot \cup {None}]
      /\ table'[s].claimed /\ table'[s].connected = table[s].connected
      /\ \A r \in Slots \ {s} : table'[r] = table[r]
  BY TakeType DEF TypeOK
<1>3. claim.slot = s /\ claim.endpoint = table[s].endpoint /\ claim.by = by
  OBVIOUS
<1>. HIDE DEF range, claim
<1>4. table'[s].endpoint = None
  BY <1>0, <1>1 DEF Slot
<1>5. ASSUME NEW r \in Slots
      PROVE  /\ EndpointsAt(r)' = EndpointsAt(r)
             /\ table'[r] # None => table[r] # None
             /\ table'[r].claimed => r = s \/ table[r].claimed
             /\ table'[r].endpoint # None => r # s
  <2>1. CASE r = s
    <3>1. \A e : e \in EndpointsAt(s)' <=> e \in EndpointsAt(s)
      BY <1>1, <1>3, <1>4, EndpointsAre, EndpointsWillBe
    <3>. QED  BY <1>1, <1>4, <2>1, <3>1
  <2>2. CASE r # s
    <3>1. table'[r] = table[r]
      BY <1>2, <2>2
    <3>2. \A e : e \in EndpointsAt(r)' <=> e \in EndpointsAt(r)
      BY <1>1, <1>3, <2>2, <3>1, EndpointsAre, EndpointsWillBe
    <3>. QED  BY <2>2, <3>1, <3>2
  <2>. QED  BY <2>1, <2>2
<1>6. \A r \in Slots : Installs(r)' = Installs(r)
  BY SameDefinition
<1>7. claim \in held' /\ held \subseteq held'
  BY <1>1
<1>8. SlotsKept'
  <2>. SUFFICES ASSUME NEW r \in Slots
       PROVE  /\ EndpointsAt(r)' = Installs(r)'
              /\ table'[r] # None =>
                   /\ table'[r].claimed => table'[r].endpoint = None /\ \E h \in held' : h.slot = r
                   /\ table'[r].endpoint # None => table'[r].connected
    BY DEF SlotsKept
  <2>1. EndpointsAt(r)' = Installs(r)'
    BY <1>5, <1>6 DEF SlotsKept
  <2>2. CASE r = s
    BY <1>3, <1>4, <1>7, <2>1, <2>2
  <2>3. CASE r # s
    BY <1>2, <1>7, <2>1, <2>3 DEF SlotsKept
  <2>. QED  BY <2>2, <2>3
<1>9. \A r \in Slots : table'[r].connected = table[r].connected
                       /\ (table[r].claimed => table'[r].claimed)
  BY <1>2
<1>10. \A h \in held' : h \in held \/ (h.by = by /\ h.slot = s)
  BY <1>1, <1>3
<1>. QED  BY <1>8, <1>9, <1>10

LEMMA WiringStep == TypeOK /\ TurnValid /\ ClaimInv /\ WiringInv /\ [Next]_vars => WiringInv'
<1>. SUFFICES ASSUME TypeOK, TurnValid, ClaimInv, WiringInv, [Next]_vars PROVE WiringInv'
  OBVIOUS
<1>. USE DEF builderVars, runtimeVars
<1>0. /\ blocks \in Seq(Definitions) /\ Len(blocks) \in Nat /\ DOMAIN blocks = 1 .. Len(blocks)
      /\ turn \in Nat
      /\ \A k \in DOMAIN blocks : \A p \in PortsOf(k) : p \in Ports /\ <<"inner", p>> \in Slots
  <2>1. blocks \in Seq(Definitions) /\ turn \in Nat
    BY DEF TypeOK, DefinitionTypes, RuntimeTypes
  <2>2. ASSUME NEW k \in DOMAIN blocks, NEW p \in PortsOf(k) PROVE p \in Ports
    <3>1. blocks[k] \in Definitions
      BY <2>1
    <3>2. blocks[k].name \in Names
      BY <3>1 DEF Definitions
    <3>. QED  BY <3>2, PreparationAssumption DEF PortsOf
  <2>. QED  BY <2>1, <2>2 DEF Slots
<1>1. ASSUME UNCHANGED defVars
      PROVE  UNCHANGED blocks /\ \A k : PortsOf(k)' = PortsOf(k)
  BY <1>1 DEF defVars, PortsOf
<1>2. ASSUME UNCHANGED <<stage, defVars, table, held, turn>> PROVE WiringInv'
  <2>1. CASE InUse
    <3>1. (Sound /\ Coherent)' /\ SlotsKept'
      BY <1>2, <2>1, SameDefinition, SlotsFrame DEF WiringInv
    <3>2. ClaimsMade'
      BY <1>1, <1>2, <2>1 DEF WiringInv, ClaimsMade
    <3>. QED  BY <3>1, <3>2 DEF WiringInv
  <2>2. CASE ~InUse
    BY <1>2, <2>2 DEF WiringInv, InUse
  <2>. QED  BY <2>1, <2>2
<1>3. CASE Builder \/ Build \/ Edit
  <2>1. stage' \in {"building", "built"}
    BY <1>3 DEF Builder, Call, Register, RegisterPort, Export, Connect, RegisterMessageType, Build, Edit
  <2>. QED  BY <2>1 DEF WiringInv, InUse
<1>4. CASE Prepare
  BY <1>4, PrepareWires DEF WiringInv
<1>5. ASSUME NEW p \in Ports, Claim(p), p \in PortsOf(turn), Take(<<"inner", p>>, blocks[turn].name)
      PROVE  WiringInv'
  <2>1. /\ InUse /\ UNCHANGED stage /\ UNCHANGED defVars /\ UNCHANGED turn
        /\ p \in PortsOf(turn) /\ turn \in DOMAIN blocks /\ stage = "binding"
    BY <1>0, <1>5 DEF Claim, InUse, TurnValid
  <2>2. <<"inner", p>> \in Slots
    BY DEF Slots
  <2>3. blocks[turn].name \in Names
    <3>1. blocks[turn] \in Definitions
      BY <1>0, <2>1
    <3>. QED  BY <3>1 DEF Definitions
  <2>4. /\ SlotsKept'
        /\ \A r \in Slots : table'[r].connected = table[r].connected
                            /\ (table[r].claimed => table'[r].claimed)
        /\ \A h \in held' : h \in held \/ (h.by = blocks[turn].name /\ h.slot = <<"inner", p>>)
    BY <1>5, <2>1, <2>2, <2>3, TakeMoves DEF WiringInv
  <2>5. (Sound /\ Coherent)'
    BY <2>1, SameDefinition DEF WiringInv
  <2>6. ClaimsMade'
    <3>0. ClaimsMade /\ UNCHANGED blocks /\ \A k : PortsOf(k)' = PortsOf(k)
      BY <1>1, <2>1 DEF WiringInv
    <3>1. ASSUME NEW h \in held', h.slot[1] = "inner"
          PROVE  \E k \in DOMAIN blocks : h.by = blocks[k].name /\ h.slot[2] \in PortsOf(k)
      <4>1. CASE h \in held
        BY <3>0, <3>1, <4>1 DEF ClaimsMade
      <4>2. CASE h.by = blocks[turn].name /\ h.slot = <<"inner", p>>
        BY <2>1, <4>2
      <4>. QED  BY <2>4, <4>1, <4>2
    <3>2. \A k \in DOMAIN blocks : k < turn =>
            \A q \in PortsOf(k) : table'[<<"inner", q>>].connected => table'[<<"inner", q>>].claimed
      BY <1>0, <2>4, <3>0 DEF ClaimsMade
    <3>. QED  BY <2>1, <3>0, <3>1, <3>2 DEF ClaimsMade
  <2>. QED  BY <2>4, <2>5, <2>6 DEF WiringInv
<1>6. ASSUME NEW p \in Ports, TakeBoundary(p), Take(<<"outer", p>>, "user") PROVE WiringInv'
  <2>1. InUse /\ UNCHANGED stage /\ UNCHANGED defVars /\ UNCHANGED turn
    BY <1>6 DEF TakeBoundary, InUse
  <2>2. <<"outer", p>> \in Slots
    BY DEF Slots
  <2>4. /\ SlotsKept'
        /\ \A r \in Slots : table'[r].connected = table[r].connected
                            /\ (table[r].claimed => table'[r].claimed)
        /\ \A h \in held' : h \in held \/ (h.by = "user" /\ h.slot = <<"outer", p>>)
    BY <1>6, <2>1, <2>2, TakeMoves DEF WiringInv
  <2>5. (Sound /\ Coherent)'
    BY <2>1, SameDefinition DEF WiringInv
  <2>6. ClaimsMade'
    <3>0. ClaimsMade /\ UNCHANGED blocks /\ \A k : PortsOf(k)' = PortsOf(k)
      BY <1>1, <2>1 DEF WiringInv
    <3>1. ASSUME NEW h \in held', h.slot[1] = "inner"
          PROVE  \E k \in DOMAIN blocks : h.by = blocks[k].name /\ h.slot[2] \in PortsOf(k)
      <4>1. h \in held
        BY <2>4, <3>1
      <4>. QED  BY <3>0, <3>1, <4>1 DEF ClaimsMade
    <3>2. \A k \in DOMAIN blocks : k < turn =>
            \A q \in PortsOf(k) : table'[<<"inner", q>>].connected => table'[<<"inner", q>>].claimed
      BY <1>0, <2>4, <3>0 DEF ClaimsMade
    <3>. QED  BY <2>1, <3>0, <3>1, <3>2 DEF ClaimsMade
  <2>. QED  BY <2>4, <2>5, <2>6 DEF WiringInv
<1>7. CASE FactoryFails \/ FactoryReturns
  <2>. SUFFICES ASSUME InUse' PROVE WiringInv'
    BY DEF WiringInv
  <2>1. /\ \A p \in PortsOf(turn) : table[<<"inner", p>>].connected => table[<<"inner", p>>].claimed
        /\ turn' = turn + 1 /\ stage = "binding"
        /\ stage' = IF turn = Len(blocks) THEN "prepared" ELSE stage
        /\ UNCHANGED table /\ UNCHANGED held /\ UNCHANGED defVars
    BY <1>7 DEF FactoryFails, FactoryReturns, Refuse, InUse
  <2>2. WiringInv /\ InUse
    BY <2>1 DEF InUse
  <2>3. (Sound /\ Coherent)' /\ SlotsKept'
    BY <2>1, <2>2, SameDefinition, SlotsFrame DEF WiringInv
  <2>4. ClaimsMade'
    <3>0. ClaimsMade /\ UNCHANGED blocks /\ \A k : PortsOf(k)' = PortsOf(k)
      BY <1>1, <2>1, <2>2 DEF WiringInv
    <3>1. \A k \in DOMAIN blocks : k < turn + 1 => k < turn \/ k = turn
      BY <1>0
    <3>2. ASSUME stage' = "prepared", NEW k \in DOMAIN blocks PROVE k < turn + 1
      <4>1. turn = Len(blocks)
        BY <2>1, <3>2
      <4>. QED  BY <1>0, <4>1
    <3>. QED  BY <2>1, <3>0, <3>1, <3>2 DEF ClaimsMade
  <2>. QED  BY <2>3, <2>4 DEF WiringInv
<1>8. CASE UNCHANGED vars
  BY <1>2, <1>8 DEF vars
<1>9. ASSUME NEW p \in Ports, Claim(p) \/ TakeBoundary(p), UNCHANGED <<table, held>> PROVE WiringInv'
  BY <1>2, <1>9 DEF Claim, TakeBoundary
<1>10. ASSUME NEW p \in Ports, Claim(p) \/ TakeBoundary(p) PROVE WiringInv'
  BY <1>5, <1>6, <1>9, <1>10 DEF Claim, TakeBoundary, TakeFails
<1>. QED  BY <1>3, <1>4, <1>7, <1>8, <1>10 DEF Next

-----------------------------------------------------------------------------
(* A prepared system. *)

\* Under each type that can be made, it is its own payload.
LEMMA PayloadIs ==
  ASSUME Coherent, NEW type \in Constructible
  PROVE  Payload(type) = type
BY DEF Coherent, Constructible, Payload

\* An end of a channel has its type and its queues; the queue of a port is the
\* only one of its own end.
EndFits(c, e) ==
  /\ e.payload = TypeOfChannel(c)
  /\ \A o \in DOMAIN e.queues :
       /\ \E r \in Slots : \E d \in Installs(r) :
            d.channel = c /\ DOMAIN d.queues = {o} /\ d.queues[o] = e.queues[o]
       /\ IF o \in Sized THEN e.queues[o] = capacities[o] ELSE e.queues[o] = 1

\* The slots of a channel, and what is in them.
LEMMA ChannelIs ==
  ASSUME DefinitionTypes, Sound, Coherent, NEW c \in Ports
  PROVE  /\ {s \in Slots : \E e \in Installs(s) : e.channel = c} = EndsOfChannel(c)
         /\ \A s \in Slots : \A e \in Installs(s) : e.channel = c => EndFits(c, e)
<1>0. \A d \in Connected : d[1] \notin Exported /\ d[2] \notin Exported
  BY DEF Sound, EndsOf
<1>1. ASSUME NEW type, NEW range, NEW S
      PROVE  /\ Endpoint(c, type, range, S).channel = c
             /\ Endpoint(c, type, range, S).payload = Payload(type)
             /\ Endpoint(c, type, range, S).queues = Queues(c, S)
             /\ DOMAIN Queues(c, S) = S
             /\ \A o \in S : Queues(c, S)[o] = IF capacities[o] = None THEN 1 ELSE capacities[o]
  BY DEF Endpoint, Queues
<1>2. \A p, type, range, S : Endpoint(p, type, range, S).channel = p
  BY DEF Endpoint
<1>3. ASSUME NEW o \in Ports
      PROVE  IF o \in Sized THEN capacities[o] # None ELSE capacities[o] = None
  BY DEF Sized
<1>4. CASE c \in Exported
  <2>1. ASSUME NEW s \in Slots, NEW e \in Installs(s), e.channel = c
        PROVE  s[2] = c /\ e = ExportEnd(c)
    <3>1. \A d \in Connected : SendEnd(d).channel # c /\ ReceiveEnd(d).channel # c
      BY <1>0, <1>2, <1>4 DEF SendEnd, ReceiveEnd
    <3>2. s[2] \in Exported /\ e = ExportEnd(s[2])
      BY <2>1, <3>1, InstallsAre
    <3>. QED  BY <1>2, <2>1, <3>2 DEF ExportEnd
  <2>2. \A s \in Slots : s[2] = c => ExportEnd(c) \in Installs(s)
    BY <1>4, InstallsAre
  <2>3. ExportEnd(c).channel = c
    BY <1>1 DEF ExportEnd
  <2>4. \A s \in Slots : (\E e \in Installs(s) : e.channel = c) <=> s[2] = c
    BY <2>1, <2>2, <2>3
  <2>5. EndsOfChannel(c) = {<<"inner", c>>, <<"outer", c>>}
    BY <1>4 DEF EndsOfChannel
  <2>6. \A s \in Slots : s[2] = c <=> s \in EndsOfChannel(c)
    BY <2>5 DEF Slots
  <2>7. EndsOfChannel(c) \subseteq Slots
    BY <2>5 DEF Slots
  <2>8. ExportEnd(c).payload = TypeOfChannel(c)
    <3>1. exports[c] \in Constructible
      BY <1>4 DEF Sound
    <3>. QED  BY <1>1, <1>4, <3>1, PayloadIs DEF ExportEnd, TypeOfChannel
  <2>9. /\ ExportEnd(c).queues = Queues(c, {c}) /\ DOMAIN Queues(c, {c}) = {c}
        /\ Queues(c, {c})[c] = IF capacities[c] = None THEN 1 ELSE capacities[c]
    BY <1>1 DEF ExportEnd
  <2>10. ASSUME NEW s \in Slots, NEW e \in Installs(s), e.channel = c, NEW o \in DOMAIN e.queues
         PROVE  /\ \E r \in Slots : \E d \in Installs(r) :
                     d.channel = c /\ DOMAIN d.queues = {o} /\ d.queues[o] = e.queues[o]
                /\ IF o \in Sized THEN e.queues[o] = capacities[o] ELSE e.queues[o] = 1
    <3>1. e = ExportEnd(c)
      BY <2>1, <2>10
    <3>2. o = c /\ DOMAIN e.queues = {o}
      BY <2>9, <2>10, <3>1
    <3>3. \E r \in Slots : \E d \in Installs(r) :
            d.channel = c /\ DOMAIN d.queues = {o} /\ d.queues[o] = e.queues[o]
      BY <2>10, <3>2
    <3>. QED  BY <1>3, <2>9, <3>1, <3>2, <3>3
  <2>11. ASSUME NEW s \in Slots, NEW e \in Installs(s), e.channel = c PROVE EndFits(c, e)
    BY <2>1, <2>8, <2>10, <2>11 DEF EndFits
  <2>. QED  BY <2>4, <2>6, <2>7, <2>11
<1>5. CASE c \notin Exported
  <2>1. ASSUME NEW s \in Slots, NEW e \in Installs(s), e.channel = c
        PROVE  \E d \in Connected :
                 /\ d[2] = c /\ s[1] # "outer"
                 /\ (s[2] = d[1] /\ e = SendEnd(d)) \/ (s[2] = c /\ e = ReceiveEnd(d))
    <3>1. ~(s[2] \in Exported /\ e = ExportEnd(s[2]))
      BY <1>2, <1>5, <2>1 DEF ExportEnd
    <3>2. \A d \in Connected : SendEnd(d).channel = d[2] /\ ReceiveEnd(d).channel = d[2]
      BY <1>2 DEF SendEnd, ReceiveEnd
    <3>. QED  BY <2>1, <3>1, <3>2, InstallsAre
  <2>2. ASSUME NEW d \in Connected, d[2] = c
        PROVE  /\ c \in Inputs /\ d[1] \in Producers(c) /\ d = <<d[1], c>>
               /\ <<"inner", c>> \in Slots /\ <<"inner", d[1]>> \in Slots
               /\ SendEnd(d) \in Installs(<<"inner", d[1]>>) /\ ReceiveEnd(d) \in Installs(<<"inner", c>>)
    <3>1. d = <<d[1], c>> /\ d[1] \in Outputs /\ c \in Inputs /\ d[1] \in Ports
      BY <2>2, ConnectedType
    <3>2. d[1] \in Producers(c)
      BY <3>1 DEF Producers
    <3>3. SendEnd(d) \in Installs(<<"inner", d[1]>>) /\ ReceiveEnd(d) \in Installs(<<"inner", c>>)
      BY <2>2, InstallsAre
    <3>. QED  BY <3>1, <3>2, <3>3 DEF Slots
  <2>3. \A o \in Producers(c) : <<o, c>> \in Connected /\ o \in Ports /\ o \in Outputs
    BY DEF Producers, Ports
  <2>4. \A d \in Connected : d[2] = c =>
          /\ SendEnd(d).channel = c /\ SendEnd(d).payload = Payload(connections[d])
          /\ SendEnd(d).queues = Queues(c, {d[1]})
          /\ ReceiveEnd(d).channel = c /\ ReceiveEnd(d).payload = Payload(connections[d])
          /\ ReceiveEnd(d).queues = Queues(c, Producers(c))
    BY <1>1 DEF SendEnd, ReceiveEnd
  <2>5. {s \in Slots : \E e \in Installs(s) : e.channel = c} = EndsOfChannel(c)
    <3>1. CASE c \in Inputs /\ Producers(c) # {}
      <4>1. EndsOfChannel(c) = {<<"inner", c>>} \cup {<<"inner", o>> : o \in Producers(c)}
        BY <1>5, <3>1 DEF EndsOfChannel
      <4>2. ASSUME NEW s \in Slots, \E e \in Installs(s) : e.channel = c PROVE s \in EndsOfChannel(c)
        <5>1. PICK d \in Connected : d[2] = c /\ s[1] # "outer" /\ (s[2] = d[1] \/ s[2] = c)
          BY <2>1, <4>2
        <5>2. s = <<"inner", s[2]>>
          <6>1. s = <<s[1], s[2]>> /\ s[1] \in {"inner", "outer"}
            BY DEF Slots
          <6>. QED  BY <5>1, <6>1
        <5>3. d[1] \in Producers(c)
          BY <2>2, <5>1
        <5>. QED  BY <4>1, <5>1, <5>2, <5>3
      <4>3. ASSUME NEW o \in Producers(c)
            PROVE  /\ <<"inner", o>> \in Slots /\ \E e \in Installs(<<"inner", o>>) : e.channel = c
                   /\ <<"inner", c>> \in Slots /\ \E e \in Installs(<<"inner", c>>) : e.channel = c
        <5>1. <<o, c>> \in Connected /\ <<o, c>>[1] = o /\ <<o, c>>[2] = c
          BY <2>3
        <5>. DEFINE d == <<o, c>>
        <5>2. d \in Connected /\ d[1] = o /\ d[2] = c
          BY <5>1
        <5>. HIDE DEF d
        <5>. QED  BY <2>2, <2>4, <5>2
      <4>. QED  BY <3>1, <4>1, <4>2, <4>3
    <3>2. CASE ~(c \in Inputs /\ Producers(c) # {})
      <4>1. EndsOfChannel(c) = {}
        BY <1>5, <3>2 DEF EndsOfChannel
      <4>2. \A d \in Connected : d[2] # c
        BY <2>2, <3>2
      <4>. QED  BY <2>1, <4>1, <4>2
    <3>. QED  BY <3>1, <3>2
  <2>6. ASSUME NEW d \in Connected, d[2] = c PROVE Payload(connections[d]) = TypeOfChannel(c)
    <3>. DEFINE b == CHOOSE x \in Connected : x[2] = c
    <3>1. b \in Connected /\ b[2] = c
      BY <2>6
    <3>2. TypeOfChannel(c) = connections[b]
      BY <1>5 DEF TypeOfChannel
    <3>. HIDE DEF b
    <3>3. connections[b] = connections[d]
      BY <2>6, <3>1 DEF Coherent
    <3>. QED  BY <3>2, <3>3, PayloadIs DEF Sound
  <2>7. ASSUME NEW s \in Slots, NEW e \in Installs(s), e.channel = c
        PROVE  EndFits(c, e)
    <3>1. PICK d \in Connected : d[2] = c /\ (e = SendEnd(d) \/ e = ReceiveEnd(d))
      BY <2>1, <2>7
    <3>2. e.payload = TypeOfChannel(c)
      BY <2>4, <2>6, <3>1
    <3>3. PICK S \in SUBSET Producers(c) : e.queues = Queues(c, S)
      <4>1. d[1] \in Producers(c)
        BY <2>2, <3>1
      <4>2. e.queues = Queues(c, {d[1]}) \/ e.queues = Queues(c, Producers(c))
        BY <2>4, <3>1
      <4>. QED  BY <4>1, <4>2
    <3>4. ASSUME NEW o \in DOMAIN e.queues
          PROVE  /\ \E r \in Slots : \E f \in Installs(r) :
                      f.channel = c /\ DOMAIN f.queues = {o} /\ f.queues[o] = e.queues[o]
                 /\ IF o \in Sized THEN e.queues[o] = capacities[o] ELSE e.queues[o] = 1
      <4>1. o \in S /\ o \in Producers(c) /\ o \in Ports
        BY <1>1, <2>3, <3>3
      <4>2. e.queues[o] = IF capacities[o] = None THEN 1 ELSE capacities[o]
        <5>1. \A q \in S : Queues(c, S)[q] = IF capacities[q] = None THEN 1 ELSE capacities[q]
          BY <1>1
        <5>. QED  BY <3>3, <4>1, <5>1
      <4>. DEFINE x == <<o, c>>
      <4>3. x \in Connected /\ x[1] = o /\ x[2] = c
        BY <2>3, <4>1
      <4>. HIDE DEF x
      <4>4. SendEnd(x) \in Installs(<<"inner", o>>) /\ <<"inner", o>> \in Slots
            /\ SendEnd(x).channel = c /\ SendEnd(x).queues = Queues(c, {o})
        BY <2>2, <2>4, <4>3
      <4>5. DOMAIN Queues(c, {o}) = {o}
            /\ Queues(c, {o})[o] = IF capacities[o] = None THEN 1 ELSE capacities[o]
        BY <1>1
      <4>6. \E r \in Slots : \E f \in Installs(r) :
              f.channel = c /\ DOMAIN f.queues = {o} /\ f.queues[o] = e.queues[o]
        BY <4>2, <4>4, <4>5
      <4>7. IF o \in Sized THEN e.queues[o] = capacities[o] ELSE e.queues[o] = 1
        BY <1>3, <4>1, <4>2
      <4>. QED  BY <4>6, <4>7
    <3>. QED  BY <3>2, <3>4 DEF EndFits
  <2>. QED  BY <2>5, <2>7
<1>. QED  BY <1>4, <1>5

\* A prepared System is wired as it was defined, whatever the definition: every
\* connection and export has its ends and no others, of one type, with queues of
\* the sizes that were asked for; the endpoints of a block are with its process.
THEOREM PreparedAsDefined == Spec => []PreparedIsWired
<1>1. Init => TypeOK /\ TurnValid /\ ClaimInv /\ WiringInv
  BY PreparationTypeInit, ClaimInit DEF Init, WiringInv, InUse
<1>2. (TypeOK /\ TurnValid /\ ClaimInv /\ WiringInv) /\ [Next]_vars
        => (TypeOK /\ TurnValid /\ ClaimInv /\ WiringInv)'
  BY PreparationTypeStep, TurnStep, ClaimStep, WiringStep
<1>3. TypeOK /\ ClaimInv /\ WiringInv => PreparedIsWired
  <2>. SUFFICES ASSUME TypeOK, ClaimInv, WiringInv, stage = "prepared" PROVE PreparedIsWired
    BY DEF PreparedIsWired
  <2>0. DefinitionTypes /\ RuntimeTypes /\ Sound /\ Coherent /\ SlotsKept /\ ClaimsMade
    BY DEF TypeOK, WiringInv, InUse
  <2>1. \A s \in Slots : EndpointsAt(s) = Installs(s)
    BY <2>0 DEF SlotsKept
  <2>2. ASSUME NEW c \in Ports
        PROVE  LET slots == {s \in Slots : \E e \in EndpointsAt(s) : e.channel = c}
                   ends  == UNION {{e \in EndpointsAt(s) : e.channel = c} : s \in slots}
               IN  /\ slots = EndsOfChannel(c)
                   /\ \A e \in ends :
                        /\ e.payload = TypeOfChannel(c)
                        /\ \A o \in DOMAIN e.queues :
                             /\ \E d \in ends : DOMAIN d.queues = {o} /\ d.queues[o] = e.queues[o]
                             /\ IF o \in Sized THEN e.queues[o] = capacities[o] ELSE e.queues[o] = 1
    <3>. DEFINE slots == {s \in Slots : \E e \in EndpointsAt(s) : e.channel = c}
                ends  == UNION {{e \in EndpointsAt(s) : e.channel = c} : s \in slots}
    <3>1. slots = {s \in Slots : \E e \in Installs(s) : e.channel = c}
      BY <2>1
    <3>2. \A e : e \in ends <=> \E s \in Slots : e \in Installs(s) /\ e.channel = c
      BY <2>1
    <3>. HIDE DEF slots, ends
    <3>3. slots = EndsOfChannel(c)
      BY <2>0, <3>1, ChannelIs
    <3>4. ASSUME NEW e \in ends
          PROVE  /\ e.payload = TypeOfChannel(c)
                 /\ \A o \in DOMAIN e.queues :
                      /\ \E d \in ends : DOMAIN d.queues = {o} /\ d.queues[o] = e.queues[o]
                      /\ IF o \in Sized THEN e.queues[o] = capacities[o] ELSE e.queues[o] = 1
      <4>1. PICK s \in Slots : e \in Installs(s) /\ e.channel = c
        BY <3>2
      <4>2. EndFits(c, e)
        BY <2>0, <4>1, ChannelIs
      <4>. QED  BY <3>2, <4>2 DEF EndFits
    <3>. QED  BY <3>3, <3>4 DEF slots, ends
  <2>3. ASSUME NEW k \in DOMAIN blocks, NEW p \in PortsOf(k), NEW e \in EndpointsAt(<<"inner", p>>)
        PROVE  \E h \in held : h.slot = <<"inner", p>> /\ h.by = blocks[k].name /\ h.endpoint = e
    <3>. DEFINE s == <<"inner", p>>
    <3>0. s \in Slots /\ s[1] = "inner" /\ s[2] = p
      <4>1. blocks[k] \in Definitions
        BY <2>0 DEF DefinitionTypes
      <4>2. blocks[k].name \in Names
        BY <4>1 DEF Definitions
      <4>3. p \in Ports
        BY <4>2, PreparationAssumption DEF PortsOf
      <4>. QED  BY <4>3 DEF Slots
    <3>1. table[s].connected => table[s].claimed
      BY <2>0 DEF ClaimsMade
    <3>2. e \in EndpointsAt(s)
      BY <2>3
    <3>. HIDE DEF s
    <3>3. ~(table[s] # None /\ e = table[s].endpoint)
      BY <2>0, <3>0, <3>1, <3>2, EndpointsAre DEF SlotsKept
    <3>4. PICK h \in held : h.slot = s /\ e = h.endpoint
      BY <3>2, <3>3, EndpointsAre
    <3>5. PICK j \in DOMAIN blocks : h.by = blocks[j].name /\ p \in PortsOf(j)
      BY <2>0, <3>0, <3>4 DEF ClaimsMade
    <3>6. j = k
      BY <2>0, <3>5 DEF Coherent
    <3>. QED  BY <3>4, <3>5, <3>6 DEF s
  <2>. QED  BY <2>2, <2>3 DEF PreparedIsWired
<1>. QED  BY <1>1, <1>2, <1>3, PTL DEF Spec
=============================================================================

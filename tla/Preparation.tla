---------------------------- MODULE Preparation ----------------------------
(***************************************************************************)
(* From the SystemBuilder to a prepared System: the definition that is     *)
(* built, and possibly edited by hand, its validation, the table of        *)
(* runtime ports, and the process factories that claim their blocks' ports.*)
(*                                                                         *)
(* A cardinality is the set of counts it admits; FanInRanges shows that    *)
(* the code's arithmetic computes with these sets.  Port IDs are values:   *)
(* a typed descriptor owns its ID, so a port has one type and one range    *)
(* in Rust, but its ID can be used without them.                           *)
(***************************************************************************)
EXTENDS Integers, Sequences, FiniteSets, Functions

CONSTANTS
  Inputs, Outputs, \* port IDs
  Types,           \* message types
  Type, Declared,  \* type and range of each port's descriptor
  Names,           \* the block definitions
  Owned,           \* the ports of each
  BlockType,       \* the type a block's metadata gives a port, or None
  BlockRange,      \* the ports whose range is in their block's metadata
  Message,         \* the type with a built-in channel constructor
  None,
  Capacities,      \* the queue sizes that calls and edits give
  MaxPermits,      \* the largest queue that Tokio makes
  Top,             \* bound: the greatest count
  Calls            \* bound: calls of the builder and edits of the definition

Ports     == Inputs \cup Outputs
Unlimited == 0 .. Top
Slots     == {"inner", "outer"} \X Ports

ASSUME PreparationAssumption ==
  /\ IsFiniteSet(Ports) /\ Inputs \cap Outputs = {}
  /\ Top \in Nat /\ Calls \in Nat
  /\ None \notin Types \cup Nat
  /\ Capacities \subseteq Nat \ {0} /\ MaxPermits \in Nat \ {0}
  /\ Type \in [Ports -> Types] /\ BlockType \in [Ports -> Types \cup {None}]
  /\ Declared \in [Ports -> (SUBSET Unlimited) \ {{}}]
  /\ Owned \in [Names -> SUBSET Ports] /\ BlockRange \subseteq Ports

VARIABLES
  stage,       \* how far the definition has got
  error,       \* why it was refused
  calls,
  known,       \* SystemBuilder::registered_inputs, registered_outputs
  joined,      \* SystemBuilder::connected_outputs
  blocks,      \* SystemDefinition::blocks
  registered,  \* ::registered_inputs, ::registered_outputs
  exports,     \* ::inputs, ::outputs
  connections, \* ::connections
  constrained, \* ::cardinalities: the ports that have their descriptor's
  capacities,  \* ::capacities, by the port that sends into the queue
  factories,   \* ::channel_factories: the payload each entry constructs for
  edited,      \* history: the definition was edited by hand
  table,       \* RuntimePorts: blocks' ports are inner, external ones outer
  held,        \* the endpoints that were claimed, by whom
  turn         \* the block whose factory runs

builderVars == <<known, joined>>
defVars     == <<blocks, registered, exports, connections, constrained, capacities, factories>>
runtimeVars == <<table, held, turn>>
vars        == <<stage, error, calls, edited, builderVars, defVars, runtimeVars>>

Init ==
  /\ stage = "building" /\ error = None /\ calls = 0 /\ edited = FALSE
  /\ known = {} /\ joined = {}
  /\ blocks = <<>> /\ registered = {}
  /\ exports = [p \in Ports |-> None]
  /\ connections = [c \in Outputs \X Inputs |-> None]
  /\ constrained = {} /\ capacities = [p \in Ports |-> None]
  /\ factories = [t \in Types |-> None]
  /\ table = [s \in Slots |-> None] /\ held = {} /\ turn = 1

-----------------------------------------------------------------------------
(* What the calls of the builder take. *)

\* PortRegistration: by a descriptor, or a bare ID.
Registrations == [id : Ports, ranged : BOOLEAN]

\* PortExport.  Its fields are public: the constructor it carries, if any, need
\* not be that of its type.  A range, if any, is that of the descriptor.
PortExports == [id : Ports, type : Types, ranged : BOOLEAN,
                constructor : Types \cup {None}, capacity : Capacities \cup {None}]

Constrain(ports, ranged) == IF ranged THEN constrained \cup ports ELSE constrained
Size(p, size)            == IF size = None THEN capacities ELSE [capacities EXCEPT ![p] = size]
Construct(type)          == [factories EXCEPT ![type] = type]

-----------------------------------------------------------------------------
(* SystemBuilder.  A call that fails changes nothing. *)

Call(where) ==
  /\ stage = where /\ calls < Calls
  /\ calls' = calls + 1
  /\ UNCHANGED <<stage, error, runtimeVars>>

Register(name, executable) ==
  /\ Call("building")
  /\ blocks' = Append(blocks, [name |-> name, executable |-> executable])
  /\ known' = known \cup Owned[name]
  /\ UNCHANGED <<edited, joined, registered, exports, connections, constrained, capacities, factories>>

\* (fault) the port is not written to the definition
RegisterPortLocally(x) ==
  /\ Call("building")
  /\ known' = known \cup {x.id}
  /\ constrained' = Constrain({x.id}, x.ranged)
  /\ UNCHANGED <<edited, joined, blocks, registered, exports, connections, capacities, factories>>

RegisterPort(x) ==
  /\ Call("building")
  /\ known' = known \cup {x.id}
  /\ registered' = registered \cup {x.id}
  /\ constrained' = Constrain({x.id}, x.ranged)
  /\ UNCHANGED <<edited, joined, blocks, exports, connections, capacities, factories>>

Export(x) ==
  /\ Call("building") /\ x.id \in known
  /\ exports' = [exports EXCEPT ![x.id] = x.type]
  /\ factories' = IF x.constructor = None THEN factories
                  ELSE [factories EXCEPT ![x.type] = x.constructor]
  /\ constrained' = Constrain({x.id}, x.ranged)
  /\ capacities' = Size(x.id, x.capacity)
  /\ UNCHANGED <<edited, builderVars, blocks, registered, connections>>

\* connect, or connect_with_capacity
Connect(o, i, capacity) ==
  /\ Call("building") /\ {o, i} \subseteq known /\ o \notin joined
  /\ Type[o] = Type[i]
  /\ connections' = [connections EXCEPT ![<<o, i>>] = Type[o]]
  /\ joined' = IF connections[<<o, i>>] = None THEN joined \cup {o} ELSE joined
  /\ factories' = Construct(Type[o])
  /\ constrained' = Constrain({o, i}, TRUE)
  /\ capacities' = Size(o, capacity)
  /\ UNCHANGED <<edited, known, blocks, registered, exports>>

RegisterMessageType(type) ==
  /\ Call("building")
  /\ factories' = Construct(type)
  /\ UNCHANGED <<edited, builderVars, blocks, registered, exports, connections, constrained, capacities>>

Build ==
  /\ stage = "building"
  /\ stage' = "built"
  /\ UNCHANGED <<error, calls, edited, builderVars, defVars, runtimeVars>>

\* The fields of a definition are public: any entry may be set, replaced or
\* removed.  Of the blocks, which are a list, the first is removed.
Edit ==
  /\ Call("built")
  /\ edited' = TRUE
  /\ \/ /\ \E c \in Outputs \X Inputs, type \in Types \cup {None} :
             connections' = [connections EXCEPT ![c] = type]
        /\ UNCHANGED <<blocks, registered, exports, constrained, capacities, factories>>
     \/ /\ \E p \in Ports, type \in Types \cup {None} : exports' = [exports EXCEPT ![p] = type]
        /\ UNCHANGED <<blocks, registered, connections, constrained, capacities, factories>>
     \/ /\ \E p \in Ports : registered' \in {registered \cup {p}, registered \ {p}}
        /\ UNCHANGED <<blocks, exports, connections, constrained, capacities, factories>>
     \/ /\ \E p \in Ports : constrained' \in {constrained \cup {p}, constrained \ {p}}
        /\ UNCHANGED <<blocks, registered, exports, connections, capacities, factories>>
     \/ /\ blocks # <<>> /\ blocks' = Tail(blocks)
        /\ UNCHANGED <<registered, exports, connections, constrained, capacities, factories>>
     \/ /\ \E p \in Ports, size \in Capacities \cup {None} :
             capacities' = [capacities EXCEPT ![p] = size]
        /\ UNCHANGED <<blocks, registered, exports, connections, constrained, factories>>
     \/ /\ \E key \in Types, type \in Types \cup {None} :
             factories' = [factories EXCEPT ![key] = type]
        /\ UNCHANGED <<blocks, registered, exports, connections, constrained, capacities>>
  /\ UNCHANGED builderVars

-----------------------------------------------------------------------------
(* validated_ports, and the checks of preparation. *)

PortsOf(k)    == Owned[blocks[k].name]
DeclaredPorts == registered \cup UNION {PortsOf(k) : k \in DOMAIN blocks}
Exported      == {p \in Ports : exports[p] # None}
Sized         == {p \in Ports : capacities[p] # None}
Connected     == {c \in DOMAIN connections : connections[c] # None}
EndsOf(c)     == {c[1], c[2]}
BlockRanged   == {p \in BlockRange : \E k \in DOMAIN blocks : p \in PortsOf(k)}

\* Who feeds an input, and what they can send between them.
Producers(i) == {o \in Outputs : <<o, i>> \in Connected}
Effective(p) == IF p \in constrained \cup BlockRanged THEN Declared[p] ELSE Unlimited
Total(f)     == FoldFunction(+, 0, f)
Possible(i)  == {f \in [Producers(i) -> Unlimited] :
                   /\ \A o \in Producers(i) : f[o] \in Effective(o)
                   /\ Total(f) \in Effective(i)}

\* Every type the definition gives a port.
TypesOf(p) ==
  ({BlockType[p] : k \in {j \in DOMAIN blocks : p \in PortsOf(j)}}
   \cup {exports[p]} \cup {connections[c] : c \in {d \in Connected : p \in EndsOf(d)}}) \ {None}

SharedPorts == {p \in Ports : \E j, k \in DOMAIN blocks : j # k /\ p \in PortsOf(j) \cap PortsOf(k)}

DuplicateProblems == {"duplicate" : p \in SharedPorts}

\* (fault) exports and connections may name unknown ports
UseProblemsUnchecked(used) == {"type" : p \in {q \in used : Cardinality(TypesOf(q)) > 1}}

UseProblems(used) ==
  {"unregistered" : p \in used \ DeclaredPorts}
  \cup {"type" : p \in {q \in used \cap DeclaredPorts : Cardinality(TypesOf(q)) > 1}}

ExportProblems ==
  {"unregistered" : p \in Exported \ DeclaredPorts}
  \cup {"type" : p \in {q \in Exported : \E k \in DOMAIN blocks :
                          q \in PortsOf(k) /\ BlockType[q] \notin {None, exports[q]}}}

ConstraintProblems == {"unregistered" : p \in constrained \ DeclaredPorts}

CapacityProblems ==
  {"unregistered" : p \in Sized \ DeclaredPorts}
  \cup {"unexportedCapacity" : p \in (Sized \cap DeclaredPorts \cap Inputs) \ Exported}

\* (fault) an output may feed several inputs
ConnectionProblemsShared == UseProblems(UNION {EndsOf(c) : c \in Connected})

ConnectionProblems ==
  UseProblems(UNION {EndsOf(c) : c \in Connected})
  \cup {"alreadyConnected" : c \in {d \in Connected : \E e \in Connected : d # e /\ d[1] = e[1]}}

RangeProblems == {"cardinality" : i \in {j \in Inputs : Producers(j) # {} /\ Possible(j) = {}}}

ProcessProblems == {"missingProcess" : k \in {j \in DOMAIN blocks : ~blocks[j].executable}}

FactoryProblems == {"invalidFactory" : t \in {u \in Types : factories[u] \notin {None, u}}}

SizeProblems == {"tooLarge" : p \in {q \in Sized : capacities[q] > MaxPermits}}

\* The payload of the channels that are made for a type, if they can be.
Payload(type) ==
  IF factories[type] = None /\ type = Message THEN Message ELSE factories[type]
Constructible == {t \in Types : Payload(t) # None}

WiringProblems ==
  {"connectedExport" : c \in {d \in Connected : EndsOf(d) \cap Exported # {}}}
  \cup {"missingFactory" : c \in {d \in Connected : EndsOf(d) \cap Exported = {}
                                                  /\ connections[d] \notin Constructible}}

ChannelProblems == {"missingFactory" : p \in {q \in Exported : exports[q] \notin Constructible}}

\* One after the other; the first that finds something ends the preparation.
\* Within one of them the order is that of the IDs, which is left open.
Checks == <<DuplicateProblems, ExportProblems, ConstraintProblems, CapacityProblems,
            ConnectionProblems, RangeProblems, ProcessProblems, FactoryProblems, SizeProblems,
            WiringProblems, ChannelProblems>>

Problems ==
  LET found   == Checks
      failing == {k \in DOMAIN found : found[k] # {}}
  IN  IF failing = {} THEN {} ELSE found[CHOOSE k \in failing : \A j \in failing : k <= j]

-----------------------------------------------------------------------------
(* The table of runtime ports. *)

\* The queues of a channel, by the port that sends into each.
Queues(c, senders) ==
  [o \in senders |-> IF capacities[o] = None THEN 1 ELSE capacities[o]]

\* One end of the channel that is named after an input or an exported output.
Endpoint(c, type, range, senders) ==
  [channel |-> c, payload |-> Payload(type), range |-> range, queues |-> Queues(c, senders)]

\* What is installed in a slot: one end of a connection, or of an export.
Installs(s) ==
  LET p == s[2] IN
  {Endpoint(p, exports[p], Effective(p), {p}) : q \in {p} \cap Exported}
  \cup IF s[1] = "outer" THEN {}
       ELSE {Endpoint(c[2], connections[c], {f[p] : f \in Possible(c[2])}, {p})
               : c \in {d \in Connected : d[1] = p}}
            \cup {Endpoint(p, connections[c], {Total(f) : f \in Possible(p)}, Producers(p))
               : c \in {d \in Connected : d[2] = p}}

\* mpsc::channel
Panics(e) == \E o \in DOMAIN e.queues : e.queues[o] > MaxPermits

EmptySlot(p) ==
  LET types == TypesOf(p)
  IN  [type |-> IF types = {} THEN None ELSE CHOOSE t \in types : TRUE,
       range |-> Effective(p), endpoint |-> None, connected |-> FALSE, claimed |-> FALSE]

FullSlot(p, e) ==
  [EmptySlot(p) EXCEPT !.range = e.range, !.endpoint = e, !.connected = TRUE]

InTable(s) == IF s[1] = "inner" THEN s[2] \in DeclaredPorts ELSE s[2] \in Exported

Refuse(why) == stage' = "refused" /\ error' = why

\* TryFrom<&SystemDefinition> for System, up to the first factory.
Prepare ==
  /\ stage = "built"
  /\ LET problems  == Problems
         installed == [s \in Slots |-> Installs(s)]
         fits      == \A s \in Slots : \A e \in installed[s] : InTable(s) /\ ~Panics(e)
     IN  \/ \E why \in problems : Refuse(why) /\ UNCHANGED table
         \/ /\ problems = {} /\ ~fits
            /\ stage' = "panicked" /\ UNCHANGED <<error, table>>
         \/ /\ problems = {} /\ fits
            /\ stage' = IF blocks = <<>> THEN "prepared" ELSE "binding"
            /\ table' = [s \in Slots |-> IF ~InTable(s) THEN None
                                         ELSE IF installed[s] = {} THEN EmptySlot(s[2])
                                         ELSE FullSlot(s[2], CHOOSE e \in installed[s] : TRUE)]
            /\ UNCHANGED error
  /\ UNCHANGED <<calls, edited, builderVars, defVars, held, turn>>

-----------------------------------------------------------------------------
(* Claims and factories. *)

\* A claim asks for the type and the range of the port's descriptor.
Claimable(s) ==
  /\ table[s] # None /\ ~table[s].claimed
  /\ table[s].type \in {None, Type[s[2]]}
  /\ table[s].range \cap Declared[s[2]] # {}
  /\ table[s].connected => table[s].range \subseteq Declared[s[2]]
  /\ table[s].endpoint # None => table[s].endpoint.payload = Type[s[2]]

\* PortSlot::take
Take(s, by) ==
  /\ Claimable(s)
  /\ LET range == table[s].range \cap Declared[s[2]] IN
     /\ table' = [table EXCEPT ![s].type = Type[s[2]], ![s].range = range,
                               ![s].endpoint = None, ![s].claimed = TRUE]
     /\ held' = held \cup {[by |-> by, slot |-> s, endpoint |-> table[s].endpoint, range |-> range]}

\* (fault) the slot is negotiated before all is checked
TakeFailsLate(s) ==
  /\ ~Claimable(s)
  /\ table' = IF table[s] = None \/ table[s].claimed \/ table[s].range \cap Declared[s[2]] = {} THEN table
              ELSE [table EXCEPT ![s].range = @ \cap Declared[s[2]]]
  /\ UNCHANGED held

\* A claim that fails returns before it changes anything; it can be repeated.
TakeFails(s) == ~Claimable(s) /\ UNCHANGED <<table, held>>

\* BlockPorts::take_input and take_output
Claim(p) ==
  /\ stage = "binding"
  /\ \/ p \in PortsOf(turn) /\ Take(<<"inner", p>>, blocks[turn].name)
     \/ p \in PortsOf(turn) /\ TakeFails(<<"inner", p>>)
     \/ p \notin PortsOf(turn) /\ UNCHANGED <<table, held>>
  /\ UNCHANGED <<stage, error, calls, edited, builderVars, defVars, turn>>

\* System::take_input_sender and take_output_receiver
TakeBoundary(p) ==
  /\ stage = "prepared"
  /\ Take(<<"outer", p>>, "user") \/ TakeFails(<<"outer", p>>)
  /\ UNCHANGED <<stage, error, calls, edited, builderVars, defVars, turn>>

\* The half-prepared system goes with everything it holds.
Release == table' = [s \in Slots |-> None] /\ held' = {}

\* create_process returns an error.
FactoryFails ==
  /\ stage = "binding"
  /\ Refuse("binding")
  /\ Release
  /\ UNCHANGED <<calls, edited, builderVars, defVars, turn>>

\* create_process returns a future.
FactoryReturns ==
  /\ stage = "binding"
  /\ \/ /\ \E p \in PortsOf(turn) : table[<<"inner", p>>].connected /\ ~table[<<"inner", p>>].claimed
        /\ Refuse("unclaimed")
        /\ Release
        /\ UNCHANGED turn
     \/ /\ \A p \in PortsOf(turn) : table[<<"inner", p>>].connected => table[<<"inner", p>>].claimed
        /\ turn' = turn + 1
        /\ stage' = IF turn = Len(blocks) THEN "prepared" ELSE stage
        /\ UNCHANGED <<error, table, held>>
  /\ UNCHANGED <<calls, edited, builderVars, defVars>>

-----------------------------------------------------------------------------

Builder ==
  \/ \E name \in Names, executable \in BOOLEAN : Register(name, executable)
  \/ \E x \in Registrations : RegisterPort(x)
  \/ \E x \in PortExports : Export(x)
  \/ \E o \in Outputs, i \in Inputs, size \in Capacities \cup {None} : Connect(o, i, size)
  \/ \E type \in Types : RegisterMessageType(type)

Next ==
  \/ Builder \/ Build \/ Edit \/ Prepare
  \/ \E p \in Ports : Claim(p) \/ TakeBoundary(p)
  \/ FactoryFails \/ FactoryReturns

Spec == Init /\ [][Next]_vars

-----------------------------------------------------------------------------
(* Properties. *)

Ranges == (SUBSET Unlimited) \ {{}}

Errors == {"duplicate", "unregistered", "type", "alreadyConnected", "cardinality",
           "unexportedCapacity", "invalidFactory", "tooLarge", "missingProcess",
           "connectedExport", "missingFactory", "binding", "unclaimed"}

Endpoints == [channel : Ports, payload : Types, range : Ranges,
              queues : UNION {[senders -> Capacities \cup {1}] : senders \in SUBSET Ports}]

Slot == [type : Types \cup {None}, range : Ranges, endpoint : Endpoints \cup {None},
         connected : BOOLEAN, claimed : BOOLEAN]

ASSUME NoneAssumption == None \notin Endpoints \cup Errors \cup Slot

Claims == [by : Names \cup {"user"}, slot : Slots, endpoint : Endpoints \cup {None},
           range : Ranges]

Definitions == [name : Names, executable : BOOLEAN]

\* Every variable has its type.
StageTypes ==
  /\ stage \in {"building", "built", "binding", "prepared", "refused", "panicked"}
  /\ error \in Errors \cup {None}
  /\ calls \in 0 .. Calls /\ edited \in BOOLEAN
  /\ known \in SUBSET Ports /\ joined \in SUBSET Outputs

DefinitionTypes ==
  /\ blocks \in Seq(Definitions)
  /\ registered \in SUBSET Ports /\ constrained \in SUBSET Ports
  /\ capacities \in [Ports -> Capacities \cup {None}]
  /\ factories \in [Types -> Types \cup {None}]
  /\ exports \in [Ports -> Types \cup {None}]
  /\ connections \in [Outputs \X Inputs -> Types \cup {None}]

RuntimeTypes ==
  /\ table \in [Slots -> Slot \cup {None}]
  /\ held \in SUBSET Claims
  /\ turn \in Nat

TypeOK == StageTypes /\ DefinitionTypes /\ RuntimeTypes

\* No edit of a definition makes preparation fail an expect(): whatever passes
\* the checks finds a slot for every endpoint (system.rs:326-379).
NeverPanics == stage # "panicked"

\* What the builder accepted step by step is never refused as a whole for an
\* unknown port, an output used twice, or a capacity where no queue is.  (The
\* constructor an export carries is not checked before the preparation.)
BuilderIsConsistent ==
  ~edited => error \notin {"unregistered", "alreadyConnected", "unexportedCapacity"}

\* A port is claimed once, its holder gets the connection's own endpoint if
\* there is one, never a dead stand-in, and no more than its descriptor allows.
\* What nobody holds is still there, at the range it was prepared with, however
\* many claims have failed.
ClaimsAreLive ==
  /\ \A h \in held :
       /\ table[h.slot].connected => h.endpoint # None /\ h.endpoint.range = h.range
       /\ h.range \subseteq Declared[h.slot[2]]
  /\ \A g, h \in held : g.slot = h.slot => g = h
  /\ \A s \in Slots : table[s] # None =>
       /\ table[s].claimed <=> \E h \in held : h.slot = s
       /\ ~table[s].claimed =>
            IF table[s].connected
            THEN table[s].endpoint # None /\ table[s].endpoint.range = table[s].range
            ELSE table[s].range = Effective(s[2])

\* The endpoints in a slot: there, or with the one who claimed it.
EndpointsAt(s) ==
  ({table[s].endpoint : q \in {x \in {s} : table[x] # None}} \cup {h.endpoint : h \in {g \in held : g.slot = s}})
  \ {None}

\* The slots that the ends of a channel belong in.
EndsOfChannel(c) ==
  IF c \in Exported THEN {<<"inner", c>>, <<"outer", c>>}
  ELSE IF c \in Inputs /\ Producers(c) # {}
       THEN {<<"inner", c>>} \cup {<<"inner", o>> : o \in Producers(c)} ELSE {}

\* The type the definition gives a channel.
TypeOfChannel(c) ==
  IF c \in Exported THEN exports[c] ELSE connections[CHOOSE d \in Connected : d[2] = c]

\* A prepared system is wired as it was defined: each connection and export has
\* all its ends and no other, carrying its type through queues that its senders
\* and its receiver agree on, each as large as was asked for its sender; and
\* those of a block are with its process.
PreparedIsWired ==
  stage = "prepared" =>
    /\ \A c \in Ports :
         LET slots == {s \in Slots : \E e \in EndpointsAt(s) : e.channel = c}
             ends  == UNION {{e \in EndpointsAt(s) : e.channel = c} : s \in slots}
         IN  /\ slots = EndsOfChannel(c)
             /\ \A e \in ends :
                  /\ e.payload = TypeOfChannel(c)
                  /\ \A o \in DOMAIN e.queues :
                       /\ \E d \in ends : DOMAIN d.queues = {o} /\ d.queues[o] = e.queues[o]
                       /\ IF o \in Sized THEN e.queues[o] = capacities[o] ELSE e.queues[o] = 1
    /\ \A k \in DOMAIN blocks : \A p \in PortsOf(k) :
         \A e \in EndpointsAt(<<"inner", p>>) :
           \E h \in held : h.slot = <<"inner", p>> /\ h.by = blocks[k].name /\ h.endpoint = e

=============================================================================

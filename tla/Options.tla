------------------------------- MODULE Options -------------------------------
(***************************************************************************)
(* How a loader comes to its consumers: NewLoader applies the options one  *)
(* by one and validates the result (options.go), Bind validates a binding  *)
(* (binding.go), and Start has the driver validate once more and build the *)
(* librdkafka properties of each binding (internal/driver/config.go,       *)
(* consumer.go).                                                           *)
(*                                                                         *)
(* A map and a slice are references.  The service owns the ones it passes, *)
(* may go on changing them whenever NewLoader is not reading them, and may *)
(* pass them to other loaders too.  WithLogger and WithErrorLogging, which *)
(* are about logging alone, are left out.                                  *)
(***************************************************************************)
EXTENDS Integers, FiniteSets

CONSTANTS
    BrokerList, \* lists of broker addresses
    NoBrokers,  \* the empty one
    Blanked,    \* those with an address of nothing but white space
    Tunable,    \* librdkafka properties the library never sets itself
    Written,    \* properties the service puts in the map it passes
    Value,      \* values the service gives: properties, group ids, credentials
    Duration,   \* durations the service gives
    Name,       \* names of bindings
    Topic,      \* topics
    Blank,      \* a string of nothing but white space
    Nil,        \* nil, for a reference, a map and a slice
    Unset,      \* a property that is not set
    MaxOptions  \* bound: options of one NewLoader

\* The properties the semantics of the library rest on.
Pinned ==
    {"bootstrap.servers", "group.id", "auto.offset.reset",
     "enable.auto.commit", "enable.auto.offset.store", "enable.partition.eof"}

SaslKeys == {"security.protocol", "sasl.mechanism", "sasl.username", "sasl.password"}

ReconnectKeys == {"reconnect.backoff.ms", "reconnect.backoff.max.ms"}

Property == Pinned \cup SaslKeys \cup ReconnectKeys \cup Tunable

\* Mutant: one property is forgotten.
ReservedKeys_NoEOF ==
    {"bootstrap.servers", "group.id", "auto.offset.reset",
     "enable.auto.commit", "enable.auto.offset.store"}

\* What the driver does not let a service set.
ReservedKeys ==
    {"bootstrap.servers", "group.id", "auto.offset.reset",
     "enable.auto.commit", "enable.auto.offset.store", "enable.partition.eof"}

ASSUME OptionsAssumption ==
    /\ Written \subseteq Property
    /\ Duration \subseteq Int
    /\ NoBrokers \in BrokerList \ Blanked
    /\ Blanked \subseteq BrokerList
    /\ Blank \notin Value \cup {"easykafka-config-go"}
    /\ Nil \notin {"caller", "loader", "default", "given"}
    /\ Unset \notin Value
    /\ MaxOptions \in Nat

VARIABLES
    stage,      \* where the loader is between NewLoader and the warm-up
    applied,    \* how many options were applied
    cfg,        \* loaderConfig; its slice and its map are references to heap
    heap,       \* the slice and the map of the service, and the loader's own
    regs,       \* Loader.regs: the bindings registered
    outcome,    \* what came of the consumer of each name
    conf        \* what each consumer that was built was built with

vars == <<stage, applied, cfg, heap, regs, outcome, conf>>

Map == [Property -> Value \cup {Unset}]
EmptyMap == [k \in Property |-> Unset]

References == {"detector", "observer", "onFatal", "consumerFactory"}
Timeouts   == {"steadyPollTimeout", "warmupTimeout", "metadataTimeout"}

\* In milliseconds.
DefaultTimeout ==
    [steadyPollTimeout |-> 100, warmupTimeout |-> 0, metadataTimeout |-> 5000]
DefaultErrorLogInterval == 30000

DefaultClientGroupID == "easykafka-config-go"

DefaultLoaderConfig ==
    [brokers   |-> Nil,
     groupID   |-> DefaultClientGroupID,
     kafka     |-> Nil,
     security  |-> Unset,       \* protocol, mechanism and credentials together
     timeout   |-> DefaultTimeout,
     reference |-> [f \in References |-> IF f = "onFatal" THEN Nil ELSE "default"]]

\* Binding, as far as Validate looks at it.
Binding == [name : Name \cup {Blank}, topic : Topic \cup {Blank},
            decodeKey : BOOLEAN, decodeValue : BOOLEAN,
            keyFromValue : BOOLEAN, verifyKeyAgreement : BOOLEAN]

PropertyValue ==
    Value \cup {Unset, DefaultClientGroupID, "earliest", "true", "false", "100", "10000"}
      \cup BrokerList

Built == [props : [Property -> PropertyValue], metadataTimeout : Int,
          errorLogInterval : Int]

NotBuilt == [props |-> EmptyMap, metadataTimeout |-> 0, errorLogInterval |-> 0]

TypeOK ==
    /\ stage \in {"none", "resolving", "rejected", "configured", "building",
                  "running", "failed"}
    /\ applied \in 0..MaxOptions
    /\ cfg \in [brokers : {Nil, "caller", "loader"},
                groupID : Value \cup {DefaultClientGroupID},
                kafka : {Nil, "caller", "loader"},
                security : Value \cup {Unset},
                timeout : [Timeouts -> Int],
                reference : [References -> {Nil, "default", "given"}]]
    /\ heap \in [{"caller", "loader"} -> [brokers : BrokerList, kafka : Map]]
    /\ regs \subseteq Binding
    /\ outcome \in [Name -> {"none", "built", "invalid", "refused"}]
    /\ conf \in [Name -> Built]

Init ==
    /\ stage = "none"
    /\ applied = 0
    /\ cfg = DefaultLoaderConfig
    /\ heap = [owner \in {"caller", "loader"} |->
                 [brokers |-> NoBrokers, kafka |-> EmptyMap]]
    /\ regs = {}
    /\ outcome = [n \in Name |-> "none"]
    /\ conf = [n \in Name |-> NotBuilt]

-----------------------------------------------------------------------------
(***************************************************************************)
(* The service.                                                            *)
(***************************************************************************)

\* It fills the slice or the map it is going to pass, or has passed.
CallerSetsBrokers(s) ==
    /\ stage # "resolving"
    /\ heap' = [heap EXCEPT !["caller"].brokers = s]
    /\ UNCHANGED <<stage, applied, cfg, regs, outcome, conf>>

CallerSetsProperty(k, v) ==
    /\ stage # "resolving"
    /\ heap' = [heap EXCEPT !["caller"].kafka[k] = v]
    /\ UNCHANGED <<stage, applied, cfg, regs, outcome, conf>>

-----------------------------------------------------------------------------
(***************************************************************************)
(* NewLoader.                                                              *)
(***************************************************************************)

NewLoader ==
    /\ stage = "none"
    /\ stage' = "resolving"
    /\ UNCHANGED <<applied, cfg, heap, regs, outcome, conf>>

Reject == stage' = "rejected" /\ UNCHANGED <<cfg, heap>>

\* An option that is accepted changes one field.
Apply(c) == cfg' = c /\ UNCHANGED stage

\* One turn of the loop over the options.
Turn ==
    /\ stage = "resolving"
    /\ applied < MaxOptions
    /\ applied' = applied + 1
    /\ UNCHANGED <<regs, outcome, conf>>

NilOption == Turn /\ Reject

WithBrokers ==
    /\ Turn
    /\ \/ heap["caller"].brokers = NoBrokers /\ Reject
       \/ /\ heap["caller"].brokers # NoBrokers
          /\ Apply([cfg EXCEPT !.brokers = "loader"])
          /\ heap' = [heap EXCEPT !["loader"].brokers = heap["caller"].brokers]

WithClientGroupID(id) ==
    /\ Turn
    /\ \/ id = Blank /\ Reject
       \/ id # Blank /\ Apply([cfg EXCEPT !.groupID = id]) /\ UNCHANGED heap

WithSASL(protocol) ==
    /\ Turn
    /\ \/ protocol = Blank /\ Reject
       \/ protocol # Blank /\ Apply([cfg EXCEPT !.security = protocol]) /\ UNCHANGED heap

\* What src sets overrides what dst has (maps.Copy).
Merge(dst, src) == [k \in Property |-> IF src[k] # Unset THEN src[k] ELSE dst[k]]

\* Mutant: the first map is kept rather than copied.
WithKafkaConfig_Aliased(passed) ==
    /\ Turn
    /\ \/ passed = Nil /\ Reject
       \/ /\ passed # Nil
          /\ Apply([cfg EXCEPT !.kafka = IF @ = Nil THEN "caller" ELSE @])
          /\ heap' = IF cfg.kafka = Nil THEN heap ELSE
               [heap EXCEPT ![cfg.kafka].kafka = Merge(@, heap["caller"].kafka)]

\* The loader makes a map of its own, once, and every map passed is copied to it.
WithKafkaConfig(passed) ==
    /\ Turn
    /\ \/ passed = Nil /\ Reject
       \/ /\ passed # Nil
          /\ Apply([cfg EXCEPT !.kafka = IF @ = Nil THEN "loader" ELSE @])
          /\ heap' = [heap EXCEPT ![cfg'.kafka].kafka = Merge(@, heap["caller"].kafka)]

\* WithInitialLoadDetector, WithObserver, WithFatalHandler and
\* WithConsumerFactory: anything but nil.
WithReference(f, r) ==
    /\ Turn
    /\ \/ r = Nil /\ Reject
       \/ r # Nil /\ Apply([cfg EXCEPT !.reference[f] = r]) /\ UNCHANGED heap

\* Only the bound on the warm-up may be zero.
Acceptable(t, d) == d > 0 \/ (t = "warmupTimeout" /\ d = 0)

WithTimeout(t, d) ==
    /\ Turn
    /\ \/ ~Acceptable(t, d) /\ Reject
       \/ Acceptable(t, d) /\ Apply([cfg EXCEPT !.timeout[t] = d]) /\ UNCHANGED heap

\* A nil slice and a nil map are empty.
Brokers == IF cfg.brokers = Nil THEN NoBrokers ELSE heap[cfg.brokers].brokers
Kafka   == IF cfg.kafka = Nil THEN EmptyMap ELSE heap[cfg.kafka].kafka

\* Mutant: an address is taken as it comes.
Valid_AnyAddress ==
    /\ Brokers # NoBrokers
    /\ cfg.groupID # Blank
    /\ cfg.timeout["steadyPollTimeout"] > 0
    /\ cfg.timeout["warmupTimeout"] >= 0
    /\ \A f \in References \ {"onFatal"} : cfg.reference[f] # Nil

\* loaderConfig.validate.
Valid ==
    /\ Brokers # NoBrokers
    /\ Brokers \notin Blanked
    /\ cfg.groupID # Blank
    /\ cfg.timeout["steadyPollTimeout"] > 0
    /\ cfg.timeout["warmupTimeout"] >= 0
    /\ \A f \in References \ {"onFatal"} : cfg.reference[f] # Nil

NewLoaderReturns ==
    /\ stage = "resolving"
    /\ stage' = IF Valid THEN "configured" ELSE "rejected"
    /\ UNCHANGED <<applied, cfg, heap, regs, outcome, conf>>

-----------------------------------------------------------------------------
(***************************************************************************)
(* Bind, and the consumers Start builds.                                   *)
(***************************************************************************)

\* Binding.Validate.
Validate(b) ==
    /\ b.name # Blank
    /\ b.topic # Blank
    /\ b.decodeKey
    /\ b.decodeValue
    /\ b.verifyKeyAgreement => b.keyFromValue

\* An invalid binding, a name that is taken and a loader that was started
\* panic, which changes nothing.
BindTo(b) ==
    /\ stage = "configured"
    /\ Validate(b)
    /\ \A r \in regs : r.name # b.name
    /\ regs' = regs \cup {b}
    /\ UNCHANGED <<stage, applied, cfg, heap, outcome, conf>>

\* Up to newConsumers; without bindings Start changes nothing.
Start ==
    /\ stage = "configured"
    /\ regs # {}
    /\ stage' = "building"
    /\ UNCHANGED <<applied, cfg, heap, regs, outcome, conf>>

\* consumerConfig, with the defaults the driver fills in.
ConsumerConfig(topic) ==
    [brokers |-> Brokers, topic |-> topic, groupID |-> cfg.groupID,
     security |-> cfg.security, extra |-> Kafka,
     metadataTimeout  |-> IF cfg.timeout["metadataTimeout"] <= 0
                            THEN DefaultTimeout["metadataTimeout"]
                            ELSE cfg.timeout["metadataTimeout"],
     errorLogInterval |-> DefaultErrorLogInterval]

\* Config.validate.
DriverValid(c) ==
    /\ c.brokers # NoBrokers
    /\ c.brokers \notin Blanked
    /\ c.topic # Blank
    /\ c.groupID # Blank
    /\ \A k \in ReservedKeys : c.extra[k] = Unset

\* What buildConfigMap starts from.
BaseProps(c) ==
    [k \in Property |->
       CASE k = "bootstrap.servers"        -> c.brokers
         [] k = "group.id"                 -> c.groupID
         [] k = "auto.offset.reset"        -> "earliest"
         [] k = "enable.auto.commit"       -> "false"
         [] k = "enable.auto.offset.store" -> "false"
         [] k = "enable.partition.eof"     -> "true"
         [] k = "reconnect.backoff.ms"     -> "100"
         [] k = "reconnect.backoff.max.ms" -> "10000"
         [] k \in SaslKeys                 -> c.security
         [] OTHER                          -> Unset]

\* Mutant: the properties of the library override those of the service.
BuildConfigMap_ExtraFirst(c) == Merge(c.extra, BaseProps(c))

\* The extra properties come last.
BuildConfigMap(c) == Merge(BaseProps(c), c.extra)

\* One turn of the loop in newConsumers, around driver.New: a binding that
\* fails does not keep the next one from being tried.  librdkafka refuses
\* properties it does not know, which are the service's own affair.
Build(b) ==
    /\ stage = "building"
    /\ b \in regs
    /\ outcome[b.name] = "none"
    /\ LET c == ConsumerConfig(b.topic) IN
       \/ /\ ~DriverValid(c)
          /\ outcome' = [outcome EXCEPT ![b.name] = "invalid"]
          /\ UNCHANGED conf
       \/ /\ DriverValid(c)
          /\ outcome' = [outcome EXCEPT ![b.name] = "built"]
          /\ conf' = [conf EXCEPT ![b.name] =
               [props |-> BuildConfigMap(c), metadataTimeout |-> c.metadataTimeout,
                errorLogInterval |-> c.errorLogInterval]]
       \/ /\ DriverValid(c)
          /\ outcome' = [outcome EXCEPT ![b.name] = "refused"]
          /\ UNCHANGED conf
    /\ UNCHANGED <<stage, applied, cfg, heap, regs>>

NewConsumersReturns ==
    /\ stage = "building"
    /\ \A b \in regs : outcome[b.name] # "none"
    /\ stage' = IF \A b \in regs : outcome[b.name] = "built" THEN "running" ELSE "failed"
    /\ UNCHANGED <<applied, cfg, heap, regs, outcome, conf>>

-----------------------------------------------------------------------------
ApplyOption ==
    \/ NilOption
    \/ WithBrokers
    \/ \E id \in Value \cup {Blank} : WithClientGroupID(id)
    \/ \E protocol \in Value \cup {Blank} : WithSASL(protocol)
    \/ \E passed \in {Nil, "caller"} : WithKafkaConfig(passed)
    \/ \E f \in References, r \in {Nil, "given"} : WithReference(f, r)
    \/ \E t \in Timeouts, d \in Duration : WithTimeout(t, d)

Next ==
    \/ \E s \in BrokerList : CallerSetsBrokers(s)
    \/ \E k \in Written, v \in Value \cup {Unset} : CallerSetsProperty(k, v)
    \/ NewLoader \/ ApplyOption \/ NewLoaderReturns
    \/ \E b \in Binding : BindTo(b) \/ Build(b)
    \/ Start \/ NewConsumersReturns

Spec == Init /\ [][Next]_vars

-----------------------------------------------------------------------------
Resolved == stage \in {"configured", "building", "running", "failed"}

\* No consumer is ever built in which a property the semantics rest on has
\* another value than the library gives it, however options are combined
\* (options.go:151-154, driver/config.go:75-77).
NothingUnpinned ==
    \A n \in Name : outcome[n] = "built" =>
        /\ conf[n].props["bootstrap.servers"] = Brokers
        /\ conf[n].props["group.id"] = cfg.groupID
        /\ conf[n].props["auto.offset.reset"] = "earliest"
        /\ conf[n].props["enable.auto.commit"] = "false"
        /\ conf[n].props["enable.auto.offset.store"] = "false"
        /\ conf[n].props["enable.partition.eof"] = "true"

\* Every other property the service set is what it set, over the defaults and
\* over WithSASL (driver/config.go:66-68).
ServiceDecides ==
    \A n \in Name, k \in Property \ Pinned :
        outcome[n] = "built" /\ Kafka[k] # Unset => conf[n].props[k] = Kafka[k]

\* NewLoader, Bind and the driver check separately, and what the first two let
\* pass the third finds fault with only for a property that is reserved; the
\* warm-up finds nothing missing that it calls, and no timeout it could not
\* wait for (options.go:61-94, binding.go:69-92, driver/config.go:87-126).
AcceptedIsUsable ==
    /\ \A n \in Name : outcome[n] = "invalid" =>
          \E k \in ReservedKeys : Kafka[k] # Unset
    /\ stage = "running" =>
          /\ \A f \in References \ {"onFatal"} : cfg.reference[f] # Nil
          /\ cfg.timeout["steadyPollTimeout"] > 0
          /\ \A b \in regs : /\ b.decodeKey /\ b.decodeValue
                             /\ conf[b.name].metadataTimeout > 0
                             /\ conf[b.name].errorLogInterval > 0

\* Once NewLoader has returned, nothing the service does to what it passed
\* reaches the loader; and a loader never writes to what it was passed, which
\* other loaders may have been given as well (options.go:27-28, 105, 160-163).
Isolated ==
    [][/\ Resolved => UNCHANGED <<Brokers, Kafka, cfg>>
       /\ stage = "resolving" => UNCHANGED heap["caller"]]_vars

=============================================================================

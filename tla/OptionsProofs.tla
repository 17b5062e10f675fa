---------------------------- MODULE OptionsProofs ----------------------------
(***************************************************************************)
(* What a consumer is built with, for any options in any order, any        *)
(* properties the service passes and whatever it does to them later.       *)
(*                                                                         *)
(* Owned is what keeps the service out: the references of the resolved     *)
(* configuration lead to the loader's own slice and map, so no step after  *)
(* NewLoader changes a setting (Frozen), and what was true of a consumer   *)
(* when it was built stays true (Outcomes).                                *)
(***************************************************************************)
EXTENDS Options, TLAPS

Owned == cfg.brokers \in {Nil, "loader"} /\ cfg.kafka \in {Nil, "loader"}

Sound ==
    /\ cfg.groupID # Blank
    /\ \A f \in References \ {"onFatal"} : cfg.reference[f] # Nil
    /\ cfg.timeout["steadyPollTimeout"] > 0
    /\ cfg.timeout["metadataTimeout"] > 0

Checked == Resolved => Brokers # NoBrokers /\ Brokers \notin Blanked

Registered == \A b \in regs : Validate(b)

\* What the properties of a consumer are made of does not depend on the topic.
Props == BuildConfigMap(ConsumerConfig(Blank))

Outcomes ==
    /\ stage \notin {"building", "running", "failed"} =>
         \A n \in Name : outcome[n] = "none"
    /\ \A n \in Name :
         /\ outcome[n] = "built" =>
              /\ \A k \in ReservedKeys : Kafka[k] = Unset
              /\ conf[n].props = Props
              /\ conf[n].metadataTimeout > 0
              /\ conf[n].errorLogInterval > 0
         /\ outcome[n] = "invalid" => \E k \in ReservedKeys : Kafka[k] # Unset
    /\ stage = "running" => \A b \in regs : outcome[b.name] = "built"

Inv == TypeOK /\ Owned /\ Sound /\ Checked /\ Registered /\ Outcomes

-----------------------------------------------------------------------------
(***************************************************************************)
(* What a step does to the settings.                                       *)
(***************************************************************************)

Settings == <<cfg, heap["loader"]>>

\* Two states with the same settings agree on all that is derived from them.
LEMMA SameSettings ==
    ASSUME Owned, UNCHANGED Settings
    PROVE  /\ Brokers' = Brokers /\ Kafka' = Kafka /\ Props' = Props
           /\ Owned'
BY DEF Owned, Settings, Brokers, Kafka, Props, BuildConfigMap, ConsumerConfig,
       BaseProps, Merge

\* Only an option that is applied changes a setting.
LEMMA Frozen ==
    ASSUME TypeOK, stage # "resolving", [Next]_vars
    PROVE  UNCHANGED Settings
<1> USE DEF Settings
<1>1. CASE \E s \in BrokerList : CallerSetsBrokers(s)
  BY <1>1 DEF CallerSetsBrokers, TypeOK
<1>2. CASE \E k \in Written, v \in Value \cup {Unset} : CallerSetsProperty(k, v)
  BY <1>2 DEF CallerSetsProperty, TypeOK
<1>3. CASE ApplyOption
  BY <1>3 DEF ApplyOption, NilOption, WithBrokers, WithClientGroupID, WithSASL,
              WithKafkaConfig, WithReference, WithTimeout, Turn
<1>4. CASE NewLoader \/ NewLoaderReturns \/ Start \/ NewConsumersReturns
  BY <1>4 DEF NewLoader, NewLoaderReturns, Start, NewConsumersReturns
<1>5. CASE \E b \in Binding : BindTo(b) \/ Build(b)
  BY <1>5 DEF BindTo, Build
<1>6. CASE UNCHANGED vars
  BY <1>6 DEF vars
<1> QED  BY <1>1, <1>2, <1>3, <1>4, <1>5, <1>6 DEF Next

-----------------------------------------------------------------------------
(***************************************************************************)
(* Every step keeps the invariant.                                         *)
(***************************************************************************)

\* The constant records and functions have the types TypeOK gives them.
LEMMA Defaults ==
    /\ DefaultTimeout \in [Timeouts -> Int]
    /\ DefaultLoaderConfig.reference \in [References -> {Nil, "default", "given"}]
    /\ \A f \in References \ {"onFatal"} : DefaultLoaderConfig.reference[f] # Nil
    /\ EmptyMap \in Map
    /\ NotBuilt \in Built
<1>1. DefaultTimeout \in [Timeouts -> Int]
  BY DEF DefaultTimeout, Timeouts
<1>2. EmptyMap \in Map
  BY DEF EmptyMap, Map
<1>3. NotBuilt \in Built
  BY DEF NotBuilt, Built, EmptyMap, PropertyValue
<1>4. /\ DefaultLoaderConfig.reference \in [References -> {Nil, "default", "given"}]
      /\ \A f \in References \ {"onFatal"} : DefaultLoaderConfig.reference[f] # Nil
  BY OptionsAssumption DEF DefaultLoaderConfig
<1> QED  BY <1>1, <1>2, <1>3, <1>4

\* A loader that is not there yet satisfies the invariant.
LEMMA InitInv == Init => Inv
<1> SUFFICES ASSUME Init PROVE Inv
  OBVIOUS
<1>1. TypeOK
  <2>1. cfg \in [brokers : {Nil, "caller", "loader"},
                 groupID : Value \cup {DefaultClientGroupID},
                 kafka : {Nil, "caller", "loader"},
                 security : Value \cup {Unset},
                 timeout : [Timeouts -> Int],
                 reference : [References -> {Nil, "default", "given"}]]
    BY Defaults DEF Init, DefaultLoaderConfig
  <2>2. heap \in [{"caller", "loader"} -> [brokers : BrokerList, kafka : Map]]
    BY Defaults, OptionsAssumption DEF Init
  <2>3. applied \in 0..MaxOptions
    BY OptionsAssumption DEF Init
  <2>4. conf \in [Name -> Built]
    BY Defaults DEF Init
  <2> QED  BY <2>1, <2>2, <2>3, <2>4 DEF Init, TypeOK
<1>2. Owned  BY DEF Init, Owned, DefaultLoaderConfig
<1>3. Sound
  <2>1. cfg.groupID # Blank
    BY OptionsAssumption DEF Init, DefaultLoaderConfig, DefaultClientGroupID
  <2>2. cfg.timeout["steadyPollTimeout"] > 0 /\ cfg.timeout["metadataTimeout"] > 0
    BY DEF Init, DefaultLoaderConfig, DefaultTimeout
  <2> QED  BY <2>1, <2>2, Defaults DEF Init, Sound
<1>4. Checked /\ Registered /\ Outcomes
  BY DEF Init, Checked, Resolved, Registered, Outcomes
<1> QED  BY <1>1, <1>2, <1>3, <1>4 DEF Inv

\* What the service does to what it passes reaches nothing else.
LEMMA CallerInv ==
    ASSUME Inv,
           \/ \E s \in BrokerList : CallerSetsBrokers(s)
           \/ \E k \in Written, v \in Value \cup {Unset} : CallerSetsProperty(k, v)
    PROVE  Inv'
<1>1. UNCHANGED <<stage, applied, cfg, regs, outcome, conf>>
  BY DEF CallerSetsBrokers, CallerSetsProperty
<1>2. UNCHANGED Settings
  BY DEF Inv, TypeOK, Settings, CallerSetsBrokers, CallerSetsProperty
<1>3. TypeOK'
  <2>1. CASE \E s \in BrokerList : CallerSetsBrokers(s)
    BY <2>1 DEF Inv, TypeOK, CallerSetsBrokers
  <2>2. CASE \E k \in Written, v \in Value \cup {Unset} : CallerSetsProperty(k, v)
    <3> PICK k \in Written, v \in Value \cup {Unset} : CallerSetsProperty(k, v)
      BY <2>2
    <3>1. [heap["caller"].kafka EXCEPT ![k] = v] \in Map
      BY DEF Inv, TypeOK, Map
    <3> QED  BY <3>1 DEF Inv, TypeOK, CallerSetsProperty
  <2> QED  BY <2>1, <2>2
<1>4. Brokers' = Brokers /\ Kafka' = Kafka /\ Props' = Props /\ Owned'
  BY <1>2, SameSettings DEF Inv
<1>5. Sound' /\ Registered'
  BY <1>1 DEF Inv, Sound, Registered
<1>6. Checked'
  BY <1>1, <1>4 DEF Inv, Checked, Resolved
<1>7. Outcomes'
  BY <1>1, <1>4 DEF Inv, Outcomes
<1> QED  BY <1>3, <1>4, <1>5, <1>6, <1>7 DEF Inv

\* An option changes one field, to something the option has looked at.
LEMMA OptionInv ==
    ASSUME Inv, ApplyOption
    PROVE  Inv'
<1>1. /\ stage = "resolving" /\ stage' \in {"resolving", "rejected"}
      /\ applied' \in 0..MaxOptions
      /\ UNCHANGED <<regs, outcome, conf>>
  BY OptionsAssumption DEF Inv, TypeOK, ApplyOption, NilOption, WithBrokers,
     WithClientGroupID, WithSASL, WithKafkaConfig, WithReference, WithTimeout,
     Turn, Reject, Apply
<1>2. Registered' /\ Checked' /\ Outcomes'
  BY <1>1 DEF Inv, Registered, Checked, Resolved, Outcomes
<1> SUFFICES TypeOK' /\ Owned' /\ Sound'
  BY <1>2 DEF Inv
<1> USE DEF Inv, Turn, Apply, Reject
<1>3. SUFFICES ASSUME /\ cfg' \in [brokers : {Nil, "caller", "loader"},
                            groupID : Value \cup {DefaultClientGroupID},
                            kafka : {Nil, "caller", "loader"},
                            security : Value \cup {Unset},
                            timeout : [Timeouts -> Int],
                            reference : [References -> {Nil, "default", "given"}]]
                      /\ heap' \in [{"caller", "loader"} ->
                                      [brokers : BrokerList, kafka : Map]]
                      => TypeOK'
               PROVE TypeOK' /\ Owned' /\ Sound'
  BY <1>1 DEF TypeOK
<1>4. CASE UNCHANGED <<cfg, heap>>
  BY <1>3, <1>4 DEF TypeOK, Owned, Sound
<1>5. CASE WithBrokers
  BY <1>3, <1>4, <1>5 DEF WithBrokers, TypeOK, Owned, Sound
<1>6. CASE \E id \in Value \cup {Blank} : WithClientGroupID(id)
  BY <1>3, <1>4, <1>6, OptionsAssumption DEF WithClientGroupID, TypeOK, Owned, Sound
<1>7. CASE \E protocol \in Value \cup {Blank} : WithSASL(protocol)
  BY <1>3, <1>4, <1>7 DEF WithSASL, TypeOK, Owned, Sound
<1>8. CASE \E passed \in {Nil, "caller"} : WithKafkaConfig(passed)
  <2> SUFFICES ASSUME NEW passed, passed # Nil, WithKafkaConfig(passed)
               PROVE  TypeOK' /\ Owned' /\ Sound'
    BY <1>4, <1>8 DEF WithKafkaConfig
  <2>1. cfg' = [cfg EXCEPT !.kafka = "loader"]
    BY DEF WithKafkaConfig, TypeOK, Owned
  <2>2. \A d, s \in Map : Merge(d, s) \in Map
    BY DEF Merge, Map
  <2>3. heap' = [heap EXCEPT !["loader"].kafka = Merge(@, heap["caller"].kafka)]
    BY <2>1 DEF WithKafkaConfig, TypeOK
  <2>4. heap' \in [{"caller", "loader"} -> [brokers : BrokerList, kafka : Map]]
    BY <2>2, <2>3 DEF TypeOK
  <2> QED  BY <1>3, <2>1, <2>4 DEF TypeOK, Owned, Sound
<1>9. CASE \E f \in References, r \in {Nil, "given"} : WithReference(f, r)
  BY <1>3, <1>4, <1>9 DEF WithReference, TypeOK, Owned, Sound
<1>10. CASE \E t \in Timeouts, d \in Duration : WithTimeout(t, d)
  BY <1>3, <1>4, <1>10, OptionsAssumption
  DEF WithTimeout, Acceptable, TypeOK, Owned, Sound, Timeouts
<1> QED  BY <1>4, <1>5, <1>6, <1>7, <1>8, <1>9, <1>10 DEF ApplyOption, NilOption

\* Whatever the settings, every property gets a value of its own kind.
LEMMA PropsType == ASSUME TypeOK PROVE Props \in [Property -> PropertyValue]
<1> DEFINE c == ConsumerConfig(Blank)
<1>1. c.extra \in Map
  BY Defaults DEF ConsumerConfig, Kafka, TypeOK
<1>2. c.brokers \in BrokerList /\ c.groupID \in Value \cup {DefaultClientGroupID}
      /\ c.security \in Value \cup {Unset}
  BY OptionsAssumption DEF ConsumerConfig, Brokers, TypeOK
<1>3. BaseProps(c) \in [Property -> PropertyValue]
  <2> HIDE DEF c
  <2> QED  BY <1>2 DEF BaseProps, PropertyValue
<1>4. Merge(BaseProps(c), c.extra) \in [Property -> PropertyValue]
  <2> DEFINE base == BaseProps(c)
  <2> HIDE DEF c, base
  <2>1. \A k \in Property : base[k] \in PropertyValue /\ c.extra[k] \in PropertyValue
    BY <1>1, <1>3 DEF Map, PropertyValue, base
  <2>2. Merge(base, c.extra) \in [Property -> PropertyValue]
    BY <2>1 DEF Merge
  <2> QED  BY <2>2 DEF base
<1> QED  BY <1>4 DEF Props, BuildConfigMap

\* A consumer is built only from what the driver has looked at.
LEMMA BuildInv ==
    ASSUME Inv, NEW b \in Binding, Build(b)
    PROVE  Inv'
<1> DEFINE c == ConsumerConfig(b.topic)
<1>1. UNCHANGED <<stage, applied, cfg, heap, regs>> /\ UNCHANGED Settings
      /\ stage = "building" /\ b \in regs /\ b.name \in Name
  BY OptionsAssumption DEF Inv, Build, Settings, Registered, Validate, Binding
<1>2. Brokers' = Brokers /\ Kafka' = Kafka /\ Props' = Props /\ Owned'
  BY <1>1, SameSettings DEF Inv
<1>3. Sound' /\ Registered' /\ Checked'
  BY <1>1, <1>2 DEF Inv, Sound, Registered, Checked, Resolved
<1>4. /\ BuildConfigMap(c) = Props
      /\ c.extra = Kafka /\ c.topic = b.topic
      /\ c.brokers = Brokers /\ c.groupID = cfg.groupID
      /\ c.metadataTimeout > 0 /\ c.metadataTimeout \in Int
      /\ c.errorLogInterval = 30000
  <2>1. cfg.timeout["metadataTimeout"] \in Int /\ cfg.timeout["metadataTimeout"] > 0
    BY DEF Inv, TypeOK, Sound, Timeouts
  <2> QED  BY <2>1 DEF ConsumerConfig, Props, BuildConfigMap, BaseProps,
                       DefaultErrorLogInterval
<1>5. TypeOK' /\ Outcomes'
  <2>1. CASE ~DriverValid(c)
    <3>1. outcome' = [outcome EXCEPT ![b.name] = "invalid"] /\ UNCHANGED conf
      BY <2>1 DEF Build
    <3>2. \E k \in ReservedKeys : Kafka[k] # Unset
      <4>1. c.brokers # NoBrokers /\ c.brokers \notin Blanked
        BY <1>1, <1>4 DEF Inv, Checked, Resolved
      <4>2. c.topic # Blank /\ c.groupID # Blank
        BY <1>1, <1>4 DEF Inv, Sound, Registered, Validate
      <4> QED  BY <1>4, <2>1, <4>1, <4>2 DEF DriverValid
    <3> QED  BY <1>1, <1>2, <3>1, <3>2 DEF Inv, TypeOK, Outcomes
  <2>2. CASE DriverValid(c)
    <3>1. \A k \in ReservedKeys : Kafka[k] = Unset
      BY <1>4, <2>2 DEF DriverValid
    <3>2. CASE outcome' = [outcome EXCEPT ![b.name] = "refused"] /\ UNCHANGED conf
      BY <1>1, <1>2, <3>2 DEF Inv, TypeOK, Outcomes
    <3>3. CASE outcome' = [outcome EXCEPT ![b.name] = "built"]
      <4> DEFINE built == [props |-> Props, metadataTimeout |-> c.metadataTimeout,
                           errorLogInterval |-> c.errorLogInterval]
      <4>1. conf' = [conf EXCEPT ![b.name] = built]
        <5>1. [outcome EXCEPT ![b.name] = "refused"][b.name] # outcome'[b.name]
          BY <1>1, <3>3 DEF Inv, TypeOK
        <5>2. outcome' # [outcome EXCEPT ![b.name] = "refused"]
          BY <5>1
        <5>3. conf' = [conf EXCEPT ![b.name] =
                 [props |-> BuildConfigMap(c), metadataTimeout |-> c.metadataTimeout,
                  errorLogInterval |-> c.errorLogInterval]]
          <6> HIDE DEF c
          <6>1. Build(b) => \/ ~DriverValid(c)
                           \/ outcome' = [outcome EXCEPT ![b.name] = "refused"]
                           \/ conf' = [conf EXCEPT ![b.name] =
                                [props |-> BuildConfigMap(c),
                                 metadataTimeout |-> c.metadataTimeout,
                                 errorLogInterval |-> c.errorLogInterval]]
            BY Zenon DEF Build, c
          <6> QED  BY <2>2, <5>2, <6>1
        <5> QED  BY <1>4, <5>3
      <4>2. built \in Built
        BY <1>4, PropsType DEF Inv, Built
      <4>3. TypeOK'
        BY <1>1, <3>3, <4>1, <4>2 DEF Inv, TypeOK
      <4>4. Outcomes'
        BY <1>1, <1>2, <1>4, <3>1, <3>3, <4>1 DEF Inv, TypeOK, Outcomes
      <4> QED  BY <4>3, <4>4
    <3> QED  BY <2>2, <3>2, <3>3 DEF Build
  <2> QED  BY <2>1, <2>2
<1> QED  BY <1>2, <1>3, <1>5 DEF Inv

\* The steps that only move the loader on.
LEMMA MoveInv ==
    ASSUME Inv, NewLoader \/ NewLoaderReturns \/ Start \/ NewConsumersReturns
    PROVE  Inv'
<1>1. UNCHANGED <<applied, cfg, heap, regs, outcome, conf>> /\ UNCHANGED Settings
  BY DEF NewLoader, NewLoaderReturns, Start, NewConsumersReturns, Settings
<1>2. Brokers' = Brokers /\ Kafka' = Kafka /\ Props' = Props /\ Owned'
  BY <1>1, SameSettings DEF Inv
<1>3. Sound' /\ Registered'
  BY <1>1 DEF Inv, Sound, Registered
<1>4. TypeOK'
  BY <1>1 DEF Inv, TypeOK, NewLoader, NewLoaderReturns, Start, NewConsumersReturns
<1>5. Checked'
  BY <1>1, <1>2 DEF Inv, Checked, Resolved, NewLoader, NewLoaderReturns, Start,
                    NewConsumersReturns, Valid
<1>6. Outcomes'
  <2>1. stage' = "running" => \A b \in regs : outcome[b.name] = "built"
    BY DEF NewLoader, NewLoaderReturns, Start, NewConsumersReturns
  <2>2. stage' \notin {"building", "running", "failed"} =>
          stage \notin {"building", "running", "failed"}
    BY DEF NewLoader, NewLoaderReturns, Start, NewConsumersReturns
  <2> QED  BY <1>1, <1>2, <2>1, <2>2 DEF Inv, Outcomes
<1> QED  BY <1>2, <1>3, <1>4, <1>5, <1>6 DEF Inv

\* Only a binding that was validated is registered.
LEMMA BindInv ==
    ASSUME Inv, NEW b \in Binding, BindTo(b)
    PROVE  Inv'
<1>1. UNCHANGED <<stage, applied, cfg, heap, outcome, conf>> /\ UNCHANGED Settings
  BY DEF BindTo, Settings
<1>2. Brokers' = Brokers /\ Kafka' = Kafka /\ Props' = Props /\ Owned'
  BY <1>1, SameSettings DEF Inv
<1>3. Sound' /\ Registered' /\ TypeOK'
  BY <1>1 DEF Inv, Sound, Registered, TypeOK, BindTo
<1>4. Checked' /\ Outcomes'
  BY <1>1, <1>2 DEF Inv, Checked, Resolved, Outcomes, BindTo
<1> QED  BY <1>2, <1>3, <1>4 DEF Inv

\* So does every step.
LEMMA NextInv == Inv /\ [Next]_vars => Inv'
<1> SUFFICES ASSUME Inv, [Next]_vars PROVE Inv'
  OBVIOUS
<1>1. CASE UNCHANGED vars
  BY <1>1 DEF vars, Inv, TypeOK, Owned, Sound, Checked, Registered, Outcomes,
              Resolved, Brokers, Kafka, Props, BuildConfigMap, ConsumerConfig,
              BaseProps, Merge
<1>2. CASE Next
  BY <1>2, CallerInv, OptionInv, MoveInv, BindInv, BuildInv DEF Next
<1> QED  BY <1>1, <1>2

\* The invariant holds throughout.
THEOREM Invariance == Spec => []Inv
BY InitInv, NextInv, PTL DEF Spec

-----------------------------------------------------------------------------
(***************************************************************************)
(* The properties.                                                         *)
(***************************************************************************)

\* Every variable keeps its type, for any options and any properties passed.
THEOREM TypeCorrect == Spec => []TypeOK
<1>1. Inv => TypeOK  BY DEF Inv
<1> QED  BY <1>1, Invariance, PTL

\* No combination of options unpins a property the semantics rest on.
THEOREM Unpinned == Spec => []NothingUnpinned
<1>1. Inv => NothingUnpinned
  <2> SUFFICES ASSUME Inv, NEW n \in Name, outcome[n] = "built"
               PROVE  /\ conf[n].props["bootstrap.servers"] = Brokers
                      /\ conf[n].props["group.id"] = cfg.groupID
                      /\ conf[n].props["auto.offset.reset"] = "earliest"
                      /\ conf[n].props["enable.auto.commit"] = "false"
                      /\ conf[n].props["enable.auto.offset.store"] = "false"
                      /\ conf[n].props["enable.partition.eof"] = "true"
    BY DEF NothingUnpinned
  <2> DEFINE c == ConsumerConfig(Blank)
  <2>1. conf[n].props = BuildConfigMap(c) /\ \A k \in ReservedKeys : c.extra[k] = Unset
    BY DEF Inv, Outcomes, Props, ConsumerConfig
  <2>2. c.brokers = Brokers /\ c.groupID = cfg.groupID
    BY DEF ConsumerConfig
  <2> HIDE DEF c
  <2>3. \A k \in Pinned : k \in Property /\ k \in ReservedKeys
    BY DEF Pinned, Property, ReservedKeys
  <2>4. \A k \in Pinned : conf[n].props[k] = BaseProps(c)[k]
    BY <2>1, <2>3 DEF BuildConfigMap, Merge
  <2>5. /\ BaseProps(c)["bootstrap.servers"] = c.brokers
        /\ BaseProps(c)["group.id"] = c.groupID
        /\ BaseProps(c)["auto.offset.reset"] = "earliest"
        /\ BaseProps(c)["enable.auto.commit"] = "false"
        /\ BaseProps(c)["enable.auto.offset.store"] = "false"
        /\ BaseProps(c)["enable.partition.eof"] = "true"
    BY DEF BaseProps, SaslKeys, Property, Pinned
  <2> QED  BY <2>2, <2>4, <2>5 DEF Pinned
<1> QED  BY <1>1, Invariance, PTL

\* Every other property is the service's to decide.
THEOREM Decides == Spec => []ServiceDecides
<1>1. Inv => ServiceDecides
  BY DEF Inv, Outcomes, ServiceDecides, Props, BuildConfigMap, ConsumerConfig, Merge
<1> QED  BY <1>1, Invariance, PTL

\* What NewLoader and Bind accept, Start can use, but for reserved properties.
THEOREM Usable == Spec => []AcceptedIsUsable
<1>1. Inv => AcceptedIsUsable
  BY OptionsAssumption
  DEF Inv, TypeOK, Outcomes, Sound, Registered, Validate, Binding, AcceptedIsUsable
<1> QED  BY <1>1, Invariance, PTL

\* The service and the loader share nothing once NewLoader has returned.
THEOREM Isolation == Spec => Isolated
<1>1. Inv /\ [Next]_vars =>
        [/\ Resolved => UNCHANGED <<Brokers, Kafka, cfg>>
         /\ stage = "resolving" => UNCHANGED heap["caller"]]_vars
  <2> SUFFICES ASSUME Inv, [Next]_vars
               PROVE  /\ Resolved => UNCHANGED <<Brokers, Kafka, cfg>>
                      /\ stage = "resolving" => UNCHANGED heap["caller"]
    OBVIOUS
  <2>1. Resolved => UNCHANGED <<Brokers, Kafka, cfg>>
    BY Frozen, SameSettings DEF Inv, Resolved, Settings
  <2>2. ASSUME stage = "resolving" PROVE UNCHANGED heap["caller"]
    <3>1. CASE ApplyOption
      BY <3>1 DEF Inv, TypeOK, Owned, ApplyOption, NilOption, WithBrokers,
                  WithClientGroupID, WithSASL, WithKafkaConfig, WithReference,
                  WithTimeout, Turn, Reject, Apply
    <3>2. CASE NewLoaderReturns \/ UNCHANGED vars
      BY <3>2 DEF NewLoaderReturns, vars
    <3> QED  BY <2>2, <3>1, <3>2
             DEF Next, CallerSetsBrokers, CallerSetsProperty, NewLoader, BindTo,
                 Build, Start, NewConsumersReturns
  <2> QED  BY <2>1, <2>2
<1> QED  BY <1>1, Invariance, PTL DEF Spec, Isolated

=============================================================================

--------------------------- MODULE StartupProofs ---------------------------
(***************************************************************************)
(* What a node that comes up runs with, advertises and dials, for every    *)
(* configuration file, command line, list of peers and outcome of a bind.  *)
(***************************************************************************)
EXTENDS Startup, SequenceTheorems, TLAPS

\* A configuration with its two settings; main has one from get_config on.
Settings == [host_address : String, addresses_to_connect : Seq(String)]

\* The inputs are what was given, and once there is a configuration it is
\* one that parses.
StartupTypeOK ==
  /\ file \in {Absent, Broken} \cup FileServerConfig /\ args \in {Broken} \cup Args
  /\ main \in {"config", "bind", "start", "dial", "join", "failed"}
  /\ main \in {"bind", "start", "dial", "join"} => config \in Settings
  /\ fresh \in Nat

\* Nothing is read of the configuration until the listener's address is in
\* it: there is no listener before, and no connection before there is one.
BoundFirst ==
  /\ main \in {"config", "bind"} => advertised = {} /\ fresh = 0
  /\ main \in {"config", "bind", "start"} => listener = "none" /\ fresh = 0
  /\ main \in {"start", "dial", "join"} => config.host_address = bound
  /\ AdvertisedIsBound

\* main has tried the first of the configured addresses, in order, while it
\* dials, and all of them once it joins.
TriedInOrder ==
  /\ main \in {"config", "bind", "start"} => tried = <<>>
  /\ main \in {"dial", "join"} =>
       /\ tried \in Seq(String)
       /\ Len(tried) <= Len(config.addresses_to_connect)
       /\ \A i \in 1 .. Len(tried) : tried[i] = config.addresses_to_connect[i]
  /\ main = "join" => Len(tried) = Len(config.addresses_to_connect)
-----------------------------------------------------------------------------
\* What layer after layer gives is well formed once file and command line
\* are understood: a host that is given or not, and a list of peers.
LEMMA ServerType ==
  ASSUME StartupTypeOK, Broken \notin {file, args}
  PROVE  /\ Server(file).host_address \in String \cup {None}
         /\ Server(file).addresses_to_connect \in PeerLists \cup {None}
         /\ args.host_address \in String \cup {None}
         /\ args.addresses_to_connect \in PeerLists
<1>1. CASE file = Absent
  BY <1>1 DEF StartupTypeOK, Server, Defaults, Args
<1>2. CASE file # Absent
  BY <1>2 DEF StartupTypeOK, Server, FileServerConfig, Args
<1> QED BY <1>1, <1>2

\* resolve always settles on a host and a list of peers.
LEMMA ResolveType ==
  ASSUME StartupTypeOK, Broken \notin {file, args}
  PROVE  resolve(file, args) \in Settings
<1>1. or(args.host_address, or(Server(file).host_address, DEFAULT_HOST_ADDRESS)) \in String
  BY ServerType, StartupAssumption DEF or, String
<1>2. (IF args.addresses_to_connect # <<>> THEN args.addresses_to_connect
       ELSE or(Server(file).addresses_to_connect, <<>>)) \in Seq(String)
  BY ServerType, StartupAssumption DEF or
<1> QED BY <1>1, <1>2 DEF resolve, Settings

\* main and its inputs keep their shape.
LEMMA StartupTypeStep ==
  ASSUME StartupTypeOK, [Next]_vars
  PROVE  StartupTypeOK'
<1>1. CASE get_config
  <2>1. resolve(file, args) \in Settings
    BY <1>1, ResolveType DEF get_config, Understood
  <2> QED BY <1>1, <2>1 DEF get_config, StartupTypeOK, inputs, net
<1>2. ASSUME NEW a \in Address, Bind(a)
      PROVE  StartupTypeOK'
  <2>1. config \in Settings /\ config' = [config EXCEPT !.host_address = a]
    BY <1>2 DEF Bind, StartupTypeOK
  <2>2. config' \in Settings
    BY <2>1 DEF Settings, String
  <2> QED BY <1>2, <2>2 DEF Bind, StartupTypeOK, inputs, net
<1>3. CASE GetConfigFails \/ BindFails \/ MainPanics \/ Join
  BY <1>3 DEF GetConfigFails, BindFails, MainPanics, Join, Fails, StartupTypeOK, inputs, net
<1>4. CASE SpawnListener \/ DialledAll
  BY <1>4 DEF SpawnListener, DialledAll, StartupTypeOK, inputs, net
<1>5. CASE Dial \/ DialFails
  BY <1>5 DEF Dial, DialFails, StartupTypeOK, inputs
<1>6. CASE Accept \/ ListenerPanics \/ Advertise
  BY <1>6 DEF Accept, ListenerPanics, Advertise, StartupTypeOK, inputs
<1>7. CASE Exited \/ UNCHANGED vars
  BY <1>7 DEF Exited, vars, StartupTypeOK, inputs, net
<1> QED BY <1>1, <1>2, <1>3, <1>4, <1>5, <1>6, <1>7 DEF Next, MainStep

\* In every run the inputs stay as given and main's configuration parses.
LEMMA StartupTypeCorrect == Spec => []StartupTypeOK
<1>1. Init => StartupTypeOK
  BY DEF Init, StartupTypeOK
<1>2. StartupTypeOK /\ [Next]_vars => StartupTypeOK'
  BY StartupTypeStep
<1> QED BY <1>1, <1>2, PTL DEF Spec
-----------------------------------------------------------------------------
\* No version ever carries an address that is not the listener's, although
\* connections read the configuration whenever they come to it.
THEOREM AdvertisedHolds == Spec => []AdvertisedIsBound
<1>1. Init => BoundFirst
  BY DEF Init, BoundFirst, AdvertisedIsBound
<1>2. StartupTypeOK /\ BoundFirst /\ [Next]_vars => BoundFirst'
  <2> SUFFICES ASSUME StartupTypeOK, BoundFirst, [Next]_vars
               PROVE  BoundFirst'
    OBVIOUS
  <2> USE DEF BoundFirst, AdvertisedIsBound
  <2>1. CASE get_config
    BY <2>1 DEF get_config, net
  <2>2. ASSUME NEW a \in Address, Bind(a)
        PROVE  BoundFirst'
    <3>1. config'.host_address = a
      BY <2>2 DEF Bind, StartupTypeOK, Settings
    <3> QED BY <2>2, <3>1 DEF Bind, net
  <2>3. CASE GetConfigFails \/ BindFails \/ MainPanics \/ Join
    BY <2>3 DEF GetConfigFails, BindFails, MainPanics, Join, Fails, net
  <2>4. CASE SpawnListener \/ DialledAll
    BY <2>4 DEF SpawnListener, DialledAll, net
  <2>5. CASE Dial \/ DialFails
    BY <2>5 DEF Dial, DialFails
  <2>6. CASE Accept \/ ListenerPanics
    BY <2>6 DEF Accept, ListenerPanics
  <2>7. CASE Advertise
    <3>1. main \in {"start", "dial", "join"}
      BY <2>7 DEF Advertise, StartupTypeOK
    <3> QED BY <2>7, <3>1 DEF Advertise
  <2>8. CASE Exited \/ UNCHANGED vars
    BY <2>8 DEF Exited, vars, net
  <2> QED BY <2>1, <2>2, <2>3, <2>4, <2>5, <2>6, <2>7, <2>8 DEF Next, MainStep
<1>3. BoundFirst => AdvertisedIsBound
  BY DEF BoundFirst
<1> QED BY <1>1, <1>2, <1>3, StartupTypeCorrect, PTL DEF Spec

\* A step keeps what was tried a prefix of what is configured.
LEMMA TriedStep ==
  ASSUME StartupTypeOK, TriedInOrder, [Next]_vars
  PROVE  TriedInOrder'
<1> USE DEF TriedInOrder
<1>1. CASE get_config
  BY <1>1 DEF get_config, net
<1>2. ASSUME NEW a \in Address, Bind(a)
      PROVE  TriedInOrder'
  BY <1>2 DEF Bind, net
<1>3. CASE GetConfigFails \/ BindFails \/ MainPanics \/ Join
  BY <1>3 DEF GetConfigFails, BindFails, MainPanics, Join, Fails
<1>4. CASE SpawnListener
  <2>1. Len(config.addresses_to_connect) \in Nat
    BY <1>4 DEF SpawnListener, StartupTypeOK, Settings
  <2> QED BY <1>4, <2>1 DEF SpawnListener, net
<1>5. CASE DialledAll
  <2>1. Len(config.addresses_to_connect) \in Nat
    BY <1>5 DEF DialledAll, StartupTypeOK, Settings
  <2> QED BY <1>5, <2>1 DEF DialledAll, Undialled, net
<1>6. CASE Dial \/ DialFails
  <2>1. /\ main = "dial" /\ main' = main /\ config' = config
        /\ Len(tried) < Len(config.addresses_to_connect)
        /\ tried' = Append(tried, config.addresses_to_connect[Len(tried) + 1])
    BY <1>6 DEF Dial, DialFails, Undialled, Tries
  <2>2. config.addresses_to_connect \in Seq(String) /\ tried \in Seq(String)
    BY <2>1 DEF StartupTypeOK, Settings
  <2>3. config.addresses_to_connect[Len(tried) + 1] \in String
    BY <2>1, <2>2
  <2>4. /\ tried' \in Seq(String) /\ Len(tried') = Len(tried) + 1
        /\ \A i \in 1 .. Len(tried) : tried'[i] = tried[i]
        /\ tried'[Len(tried) + 1] = config.addresses_to_connect[Len(tried) + 1]
    BY <2>1, <2>2, <2>3, AppendProperties
  <2>5. Len(tried) \in Nat /\ Len(config.addresses_to_connect) \in Nat
    BY <2>2
  <2>6. \A i \in 1 .. Len(tried') : tried'[i] = config.addresses_to_connect[i]
    BY <2>1, <2>4, <2>5
  <2> QED BY <2>1, <2>4, <2>5, <2>6
<1>7. CASE Accept \/ ListenerPanics \/ Advertise
  BY <1>7 DEF Accept, ListenerPanics, Advertise
<1>8. CASE Exited \/ UNCHANGED vars
  BY <1>8 DEF Exited, vars, net
<1> QED BY <1>1, <1>2, <1>3, <1>4, <1>5, <1>6, <1>7, <1>8 DEF Next, MainStep

\* However many peers cannot be reached, main has tried each configured
\* address once and in order before it waits for the listener.
THEOREM EveryPeerHolds == Spec => []EveryPeerIsTried
<1>1. Init => TriedInOrder
  BY DEF Init, TriedInOrder
<1>2. StartupTypeOK /\ TriedInOrder /\ [Next]_vars => TriedInOrder'
  BY TriedStep
<1>3. StartupTypeOK /\ TriedInOrder => EveryPeerIsTried
  <2> SUFFICES ASSUME StartupTypeOK, TriedInOrder, main = "join"
               PROVE  tried = config.addresses_to_connect
    BY DEF EveryPeerIsTried
  <2>1. config.addresses_to_connect \in Seq(String) /\ tried \in Seq(String)
    BY DEF StartupTypeOK, Settings, TriedInOrder
  <2>2. /\ Len(tried) = Len(config.addresses_to_connect)
        /\ \A i \in 1 .. Len(tried) : tried[i] = config.addresses_to_connect[i]
    BY DEF TriedInOrder
  <2> QED BY <2>1, <2>2, SeqEqual
<1> QED BY <1>1, <1>2, <1>3, StartupTypeCorrect, PTL DEF Spec
-----------------------------------------------------------------------------
\* The strongest of three layers, the last of which always says something.
LEMMA StrongestOfThree ==
  ASSUME NEW x, NEW y, NEW z, z # None
  PROVE  Strongest(<<x, y, z>>) = or(x, or(y, z))
<1> DEFINE given == {i \in DOMAIN <<x, y, z>> : <<x, y, z>>[i] # None}
<1>1. given \subseteq 1 .. 3 /\ 3 \in given /\ (1 \in given <=> x # None) /\ (2 \in given <=> y # None)
  OBVIOUS
<1>2. ASSUME NEW n \in given, \A m \in given : n <= m
      PROVE  Min(given) = n
  <2> HIDE DEF given
  <2>1. \A k \in given : (\A m \in given : k <= m) => k = n
    BY <1>1, <1>2
  <2> QED BY <1>2, <2>1 DEF Min
<1>3. CASE x # None
  <2>1. Min(given) = 1
    BY <1>1, <1>2, <1>3
  <2> QED BY <1>3, <2>1 DEF Strongest, or
<1>4. CASE x = None /\ y # None
  <2>1. Min(given) = 2
    BY <1>1, <1>2, <1>4
  <2> QED BY <1>4, <2>1 DEF Strongest, or
<1>5. CASE x = None /\ y = None
  <2>1. Min(given) = 3
    BY <1>1, <1>2, <1>5
  <2> QED BY <1>5, <2>1 DEF Strongest, or
<1> QED BY <1>3, <1>4, <1>5

\* resolve's precedence is that of the layers, setting by setting, and what
\* passes parse_address is an address.
LEMMA ResolveIsStrongest ==
  ASSUME StartupTypeOK, Understood
  PROVE  LET c == resolve(file, args)
         IN  /\ c = [host_address |-> Strongest(Hosts), addresses_to_connect |-> Strongest(Peers)]
             /\ c.host_address \in Address /\ Range(c.addresses_to_connect) \subseteq Address
<1> DEFINE c == resolve(file, args)
<1>1. Broken \notin {file, args} /\ Malformed \notin {c.host_address} \cup Range(c.addresses_to_connect)
  BY DEF Understood, ParsesAll
<1>2. c \in Settings
  BY <1>1, ResolveType
<1>3. c.host_address = Strongest(Hosts)
  BY StrongestOfThree, StartupAssumption DEF Hosts, resolve, String
<1>4. c.addresses_to_connect = Strongest(Peers)
  <2> DEFINE own == IF args.addresses_to_connect = <<>> THEN None ELSE args.addresses_to_connect
  <2>1. <<>> # None /\ args.addresses_to_connect # None
    BY <1>1, ServerType, StartupAssumption
  <2>2. Strongest(Peers) = or(own, or(Server(file).addresses_to_connect, <<>>))
    BY <2>1, StrongestOfThree DEF Peers
  <2>3. c.addresses_to_connect =
          IF args.addresses_to_connect # <<>> THEN args.addresses_to_connect
          ELSE or(Server(file).addresses_to_connect, <<>>)
    BY DEF resolve
  <2> QED BY <2>1, <2>2, <2>3 DEF or
<1>5. c = [host_address |-> c.host_address, addresses_to_connect |-> c.addresses_to_connect]
  BY DEF resolve
<1>6. c.host_address \in Address
  BY <1>1, <1>2 DEF Settings, String
<1>7. Range(c.addresses_to_connect) \subseteq Address
  <2>1. c.addresses_to_connect \in Seq(String)
    BY <1>2 DEF Settings
  <2>2. Range(c.addresses_to_connect) \subseteq String
    BY <2>1 DEF Range
  <2> QED BY <1>1, <2>2 DEF String
<1> HIDE DEF c
<1>8. /\ c = [host_address |-> Strongest(Hosts), addresses_to_connect |-> Strongest(Peers)]
      /\ c.host_address \in Address /\ Range(c.addresses_to_connect) \subseteq Address
  BY <1>3, <1>4, <1>5, <1>6, <1>7
<1> QED BY <1>8 DEF c

\* Whatever file and arguments say, a node that comes to bind runs with the
\* strongest layer that gives each setting, and with addresses only.
THEOREM ConfiguredHolds == Spec => []StartsAsConfigured
<1>1. Init => StartsAsConfigured
  BY DEF Init, StartsAsConfigured
<1>2. StartupTypeOK /\ StartsAsConfigured /\ [Next]_vars => StartsAsConfigured'
  <2> SUFFICES ASSUME StartupTypeOK, StartsAsConfigured, [Next]_vars, main' = "bind"
               PROVE  /\ Broken \notin {file', args'}
                      /\ config' = [host_address |-> Strongest(Hosts)',
                                    addresses_to_connect |-> Strongest(Peers)']
                      /\ config'.host_address \in Address
                      /\ Range(config'.addresses_to_connect) \subseteq Address
    BY DEF StartsAsConfigured
  <2>1. UNCHANGED <<file, args>>
    BY DEF Next, MainStep, get_config, GetConfigFails, Bind, BindFails, SpawnListener, Dial,
           DialFails, DialledAll, MainPanics, Join, Fails, Accept, ListenerPanics, Advertise,
           Exited, vars, inputs
  <2>2. UNCHANGED <<Strongest(Hosts), Strongest(Peers)>>
    BY <2>1 DEF Hosts, Peers, Server, Strongest
  <2>3. CASE get_config
    BY <2>1, <2>2, <2>3, ResolveIsStrongest DEF get_config, Understood
  <2>4. CASE ~ get_config
    <3>1. main = "bind" /\ UNCHANGED config
      BY <2>4
      DEF Next, MainStep, GetConfigFails, Bind, BindFails, SpawnListener, Dial,
          DialFails, DialledAll, MainPanics, Join, Fails, Accept, ListenerPanics, Advertise,
          Exited, vars
    <3> QED BY <2>1, <2>2, <3>1 DEF StartsAsConfigured
  <2> QED BY <2>3, <2>4
<1> QED BY <1>1, <1>2, StartupTypeCorrect, PTL DEF Spec
=============================================================================

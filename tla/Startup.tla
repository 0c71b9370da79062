------------------------------ MODULE Startup ------------------------------
(***************************************************************************)
(* How a node comes up and goes down: the configuration (src/config.rs)    *)
(* from file, arguments and defaults, and main (src/main.rs), which binds, *)
(* publishes the bound address, starts the listener, dials the configured  *)
(* peers and waits for the listener.                                       *)
(*                                                                         *)
(* The environment decides what the file and the arguments say, whether    *)
(* the system has an address, a peer and a thread to give, and whether     *)
(* printing fails.  A connection is modelled up to the moment it takes the *)
(* address its version advertises (Connections has the rest).              *)
(***************************************************************************)
EXTENDS Integers, Sequences, SequencesExt, FiniteSets

CONSTANTS
  Address,                \* strings that are addresses
  Malformed,              \* a string that is not
  None,                   \* a setting that is not given
  Absent,                 \* no config.toml
  Broken,                 \* a file or a command line that cannot be understood
  DEFAULT_HOST_ADDRESS,
  Bindings(_),            \* the addresses a bind may end with (port 0: any)
  PeerLists,              \* the peer lists a layer may give
  MaxAccepts              \* bound: the connections accepted

String == Address \cup {Malformed}

ASSUME StartupAssumption ==
  /\ DEFAULT_HOST_ADDRESS \in Address
  /\ Malformed \notin Address /\ None \notin String
  /\ \A a \in Address : Bindings(a) \subseteq Address /\ Bindings(a) # {}
  /\ PeerLists \subseteq Seq(String) /\ <<>> \in PeerLists /\ None \notin PeerLists
  /\ MaxAccepts \in Nat

VARIABLES
  file,        \* config.toml: Absent, Broken or what its server table gives
  args,        \* the command line: Broken or what it gives
  main,        \* where main is
  config,      \* the node's Config
  bound,       \* the address of the listening socket, or None
  listener,    \* the listener thread: "none", "running" or "dead"
  tried,       \* the addresses dialled, in order
  accepted,    \* how many connections were accepted
  fresh,       \* connection threads that have not yet read the config
  advertised   \* history: the addresses versions carried

vars == <<file, args, main, config, bound, listener, tried, accepted, fresh, advertised>>
inputs == <<file, args>>
net == <<tried, accepted, fresh, advertised>>

FileServerConfig == [host_address : String \cup {None}, addresses_to_connect : PeerLists \cup {None}]
Args == [host_address : String \cup {None}, addresses_to_connect : PeerLists]

-----------------------------------------------------------------------------
(* config.rs.                                                              *)

\* FileConfig::default, of a file that is not there.
Defaults == [host_address |-> None, addresses_to_connect |-> None]

Server(f) == IF f = Absent THEN Defaults ELSE f

or(option, fallback) == IF option # None THEN option ELSE fallback

resolve_FileFirst(f, a) ==
  [host_address |-> or(Server(f).host_address, or(a.host_address, DEFAULT_HOST_ADDRESS)),
   addresses_to_connect |->
     IF a.addresses_to_connect # <<>> THEN a.addresses_to_connect
     ELSE or(Server(f).addresses_to_connect, <<>>)]

\* The strings resolve settles on.
resolve(f, a) ==
  [host_address |-> or(a.host_address, or(Server(f).host_address, DEFAULT_HOST_ADDRESS)),
   addresses_to_connect |->
     IF a.addresses_to_connect # <<>> THEN a.addresses_to_connect
     ELSE or(Server(f).addresses_to_connect, <<>>)]

\* parse_address accepts all of them.
ParsesAll(c) == Malformed \notin {c.host_address} \cup Range(c.addresses_to_connect)

-----------------------------------------------------------------------------
(* main.                                                                   *)

\* main leaves by an error or a panic: the process ends.
Fails(at) ==
  /\ main = at /\ main' = "failed"
  /\ UNCHANGED <<inputs, config, bound, listener, net>>

Understood == Broken \notin {file, args} /\ ParsesAll(resolve(file, args))

get_config ==
  /\ main = "config" /\ main' = "bind"
  /\ Understood
  /\ config' = resolve(file, args)
  /\ UNCHANGED <<inputs, bound, listener, net>>

\* An error of the file or of an address, or clap ends the process itself: an
\* unknown flag, a flag without its value, or --help.
GetConfigFails ==
  /\ ~ Understood
  /\ Fails("config")

Bind_KeepsConfigured(address) ==
  /\ main = "bind" /\ main' = "start"
  /\ address \in Bindings(config.host_address)
  /\ bound' = address
  /\ UNCHANGED <<inputs, config, listener, net>>

\* The bound address replaces the configured one before anyone can read it.
Bind(address) ==
  /\ main = "bind" /\ main' = "start"
  /\ address \in Bindings(config.host_address)
  /\ bound' = address
  /\ config' = [config EXCEPT !.host_address = address]
  /\ UNCHANGED <<inputs, listener, net>>

\* The address is taken, or the bound one cannot be asked for.
BindFails == Fails("bind")

\* The announcements, and the listener's thread.
SpawnListener ==
  /\ main = "start" /\ main' = "dial"
  /\ listener' = "running"
  /\ UNCHANGED <<inputs, config, bound, net>>

Undialled == Len(tried) < Len(config.addresses_to_connect)

Tries == tried' = Append(tried, config.addresses_to_connect[Len(tried) + 1])

\* connect, and the connection's thread with it.
Dial ==
  /\ main = "dial" /\ Undialled
  /\ Tries
  /\ fresh' = fresh + 1
  /\ UNCHANGED <<inputs, main, config, bound, listener, accepted, advertised>>

DialFails_StopsDialling ==
  /\ main = "dial" /\ main' = "join" /\ Undialled
  /\ Tries
  /\ UNCHANGED <<inputs, config, bound, listener, accepted, fresh, advertised>>

\* The error is recorded and the next address dialled.
DialFails ==
  /\ main = "dial" /\ Undialled
  /\ Tries
  /\ UNCHANGED <<inputs, main, config, bound, listener, accepted, fresh, advertised>>

DialledAll ==
  /\ main = "dial" /\ main' = "join" /\ ~ Undialled
  /\ UNCHANGED <<inputs, config, bound, listener, net>>

\* println! panics, or there is no thread to spawn: main unwinds.
MainPanics == Fails("start") \/ (main = "dial" /\ Undialled /\ Fails("dial"))

Join_Parks == main = "join" /\ UNCHANGED vars

Join == listener = "dead" /\ Fails("join")

-----------------------------------------------------------------------------
(* The listener and the connections, while the process lives.              *)

Accept ==
  /\ main # "failed" /\ listener = "running" /\ accepted < MaxAccepts
  /\ accepted' = accepted + 1
  /\ fresh' = fresh + 1
  /\ UNCHANGED <<inputs, main, config, bound, listener, tried, advertised>>

\* An accepted connection finds no thread, or recording a failed accept
\* panics.  A failed accept that is recorded changes nothing.
ListenerPanics ==
  /\ main # "failed" /\ listener = "running"
  /\ listener' = "dead"
  /\ UNCHANGED <<inputs, main, config, bound, tried, accepted, fresh, advertised>>

\* handle_connection takes the address for its version.
Advertise ==
  /\ main # "failed" /\ fresh > 0
  /\ fresh' = fresh - 1
  /\ advertised' = advertised \cup {config.host_address}
  /\ UNCHANGED <<inputs, main, config, bound, listener, tried, accepted>>

Exited == main = "failed" /\ UNCHANGED vars

-----------------------------------------------------------------------------
Init ==
  /\ file \in {Absent, Broken} \cup FileServerConfig
  /\ args \in {Broken} \cup Args
  /\ main = "config" /\ config = Defaults /\ bound = None
  /\ listener = "none" /\ tried = <<>> /\ accepted = 0 /\ fresh = 0 /\ advertised = {}

MainStep ==
  \/ get_config \/ GetConfigFails \/ (\E a \in Address : Bind(a)) \/ BindFails
  \/ SpawnListener
  \/ Dial \/ DialFails \/ DialledAll \/ MainPanics \/ Join

Next == MainStep \/ Accept \/ ListenerPanics \/ Advertise \/ Exited

Spec == Init /\ [][Next]_vars

\* main is scheduled, the system ends every attempt to connect, and printing
\* returns or fails.
FairSpec == Spec /\ WF_vars(MainStep)

-----------------------------------------------------------------------------
(* Properties.                                                             *)

\* A version never carries an address nobody listens on: not the port 0 the
\* configuration asked for, and nothing before the socket is bound.
AdvertisedIsBound == advertised \subseteq {bound}

\* A peer that cannot be reached does not cost the others: by the time main
\* waits for the listener it has tried every configured address, in order.
EveryPeerIsTried == main = "join" => tried = config.addresses_to_connect

\* What layer after layer says about a setting, the strongest first.
Hosts == <<args.host_address, Server(file).host_address, DEFAULT_HOST_ADDRESS>>
Peers == <<IF args.addresses_to_connect = <<>> THEN None ELSE args.addresses_to_connect,
           Server(file).addresses_to_connect, <<>>>>

Strongest(layers) == layers[Min({i \in DOMAIN layers : layers[i] # None})]

\* A node that gets as far as binding runs with the strongest layer that
\* gives each setting, every one of them an address, and with a file and a
\* command line that could be understood.
StartsAsConfigured ==
  main = "bind" =>
    /\ Broken \notin {file, args}
    /\ config = [host_address |-> Strongest(Hosts), addresses_to_connect |-> Strongest(Peers)]
    /\ config.host_address \in Address /\ Range(config.addresses_to_connect) \subseteq Address

\* A node whose listener died does not linger as one that only dials.
NoDeafNode == listener = "dead" ~> main = "failed"
=============================================================================

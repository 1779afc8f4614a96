--------------------------- MODULE CodeGenerator ---------------------------
(***************************************************************************)
(* The code generators (src/codegen): phxrpc_pb2client, phxrpc_pb2service, *)
(* phxrpc_pb2server and phxrpc_pb2tool, and the Makefile that pb2server    *)
(* writes and that runs the other three.  The programmer edits the proto   *)
(* file and the generated files meanwhile, and a generator may die between *)
(* any two of its file operations.                                         *)
(*                                                                         *)
(* The text of a file is abstracted to the methods it declares, defines    *)
(* and calls, and to the entries of the table it holds; it is a function   *)
(* of the version of the proto file it was written from.  A version may    *)
(* add and remove methods and give them other messages; a message that was *)
(* declared once stays declared, so its class never goes away.             *)
(***************************************************************************)
EXTENDS Integers, Sequences, FiniteSetsExt

CONSTANTS
    Protos,   \* the versions of the proto file in the order they are saved,
              \* each the sequence of the methods of its first service; a
              \* method has a name, the two messages it takes and fills, a
              \* CmdID (-1: none) and an OptString or not
    Fold,     \* what is left of a name when case is ignored
    ByHand,   \* the generators the programmer runs without make
    MaxDeaths, \* a bound on the generators that die
    MaxEdits   \* and on the edits of code by hand

Versions == 1..Len(Protos)

\* The names the renderers add by themselves are not used by the proto file
\* (such a method would be declared twice), and no name is used twice.
ASSUME ProtosAssumption ==
    /\ Protos \in Seq(Seq([name : STRING, messages : STRING, id : Int, opt : BOOLEAN])) \ {<<>>}
    /\ \A v \in Versions :
         /\ \A i \in DOMAIN Protos[v] : Protos[v][i].name \notin {"PHXEcho", "PhxBatchEcho"}
         /\ \A i, j \in DOMAIN Protos[v] : Protos[v][i].name = Protos[v][j].name => i = j

ASSUME ByHandAssumption == ByHand \subseteq {"pb2client", "pb2service", "pb2server", "pb2tool"}

-----------------------------------------------------------------------------
(* Parsing. *)

\* The first method of that name, whatever its case.
FindFunc(s, name) == Min({i \in DOMAIN s : Fold[s[i].name] = Fold[name]})

\* The options of a method go to the method FindFunc returns; the last wins.
LoadExtension(s) ==
    [i \in DOMAIN s |->
        LET given == {j \in DOMAIN s : FindFunc(s, s[j].name) = i}
            ids == {j \in given : s[j].id # -1}
        IN  [name     |-> s[i].name,
             messages |-> s[i].messages,
             id       |-> IF ids = {} THEN -1 ELSE s[Max(ids)].id,
             opt      |-> \E j \in given : s[j].opt]]

\* PHXEcho takes and fills a StringValue.
AddEcho(s) ==
    <<[name |-> "PHXEcho", messages |-> "StringValue", id |-> -1, opt |-> TRUE]>> \o s

Parse(v) == AddEcho(LoadExtension(Protos[v]))

Names(s) == {s[i].name : i \in DOMAIN s}

\* What a call must agree on with the function it calls, and a virtual function
\* with the one it overrides.
Signature(m) == [name |-> m.name, messages |-> m.messages]
Methods(s) == {Signature(s[i]) : i \in DOMAIN s}

-----------------------------------------------------------------------------
(* What the renderers write for the methods s. *)

NoText == [decl |-> {}, def |-> {}, call |-> {}, table |-> {}]

\* The names, ids and messages a dispatcher serves or a stub asks for.
Entries(s) ==
    {[name |-> s[i].name, messages |-> s[i].messages, id |-> s[i].id] : i \in DOMAIN s}

ServiceHpp(s) == [NoText EXCEPT !.decl = Methods(s)]

ServiceCpp(s) == [NoText EXCEPT !.def = Methods(s)]

ServiceImplHpp(s) == [NoText EXCEPT !.decl = Methods(s)]

\* Mutant: PHXEcho is not set apart.
ServiceImplCppOfAll(s) == [NoText EXCEPT !.def = Methods(s), !.call = Methods(s)]

\* PHXEcho is answered here, the others by the handler.
Handled(s) == {m \in Methods(s) : m.name # "PHXEcho"}

ServiceImplCpp(s) == [NoText EXCEPT !.def = Methods(s), !.call = Handled(s)]

ServerHandlerHpp(s) == [NoText EXCEPT !.decl = Handled(s)]

ServerHandlerCpp(s) == [NoText EXCEPT !.def = Handled(s)]

\* The functions of the dispatcher all take the HTTP request and its response.
DispatcherHpp(s) == [NoText EXCEPT !.decl = Names(s)]

URIFuncMap(s) == Entries(s)

\* Each method counts the call, unpacks, calls the service and packs.
DispatcherFuncs(s) == [NoText EXCEPT !.def = Names(s), !.call = Methods(s)]

DispatcherCpp(s) == [DispatcherFuncs(s) EXCEPT !.table = URIFuncMap(s)]

StubHpp(s) == [NoText EXCEPT !.decl = Methods(s)]

StubCpp(s) == [NoText EXCEPT !.def = Methods(s), !.table = Entries(s)]

\* PhxBatchEcho is declared with the messages of PHXEcho.
ClientMethods(s) ==
    Methods(s) \union {[m EXCEPT !.name = "PhxBatchEcho"] : m \in Methods(s) \ Handled(s)}

ClientHpp(s) == [NoText EXCEPT !.decl = ClientMethods(s)]

\* A method of the client calls the method of the stub of the same name.
ClientFunc(m) == m

\* PhxBatchEcho calls PHXEcho.
BatchClientFunc(s) == Methods(s) \ Handled(s)

ClientCpp(s) ==
    [NoText EXCEPT !.def = ClientMethods(s),
                   !.call = {ClientFunc(m) : m \in Methods(s)} \union BatchClientFunc(s)]

ClientEtc(s) == NoText

\* The functions of the tool all take its options.
ToolHpp(s) ==
    [NoText EXCEPT !.decl = Names(s),
                   !.table = {e \in Entries(s) :
                                 \E i \in DOMAIN s : s[i].name = e.name /\ s[i].opt}]

ToolCpp(s) == [NoText EXCEPT !.def = Names(s)]

ToolImplHpp(s) == [NoText EXCEPT !.decl = Names(s)]

ToolImplCpp(s) == [NoText EXCEPT !.def = Names(s), !.call = Methods(s)]

ToolMainCpp(s) == NoText

ServerConfigHpp(s) == NoText

ServerConfigCpp(s) == NoText

ServerMainCpp(s) == NoText

ServerEtc(s) == NoText

Makefile(s) == NoText

\* The files a generator goes through, in order.
Proto2Client == <<"stub.h", "stub.cpp", "client.h", "client.cpp", "client.conf">>

Proto2Service ==
    <<"service.h", "service.cpp", "serviceimpl.h", "serviceimpl.cpp",
      "serverhandler.h", "serverhandler.cpp", "dispatcher.h", "dispatcher.cpp">>

Proto2Server ==
    <<"server_config.h", "server_config.cpp", "main.cpp", "server.conf", "Makefile">>

Proto2Tool == <<"tool.h", "tool.cpp", "toolimpl.h", "toolimpl.cpp", "toolmain.cpp">>

Files == {Proto2Client[i] : i \in DOMAIN Proto2Client}
            \union {Proto2Service[i] : i \in DOMAIN Proto2Service}
            \union {Proto2Server[i] : i \in DOMAIN Proto2Server}
            \union {Proto2Tool[i] : i \in DOMAIN Proto2Tool}

\* The files whose first lines say "DO NOT edit"; their names begin with
\* phxrpc_.
Copyright ==
    {"stub.h", "stub.cpp", "service.h", "service.cpp", "dispatcher.h",
     "dispatcher.cpp", "tool.h", "tool.cpp"}

Render(s) ==
    [f \in Files |->
        CASE f = "service.h"         -> ServiceHpp(s)
          [] f = "service.cpp"       -> ServiceCpp(s)
          [] f = "serviceimpl.h"     -> ServiceImplHpp(s)
          [] f = "serviceimpl.cpp"   -> ServiceImplCpp(s)
          [] f = "serverhandler.h"   -> ServerHandlerHpp(s)
          [] f = "serverhandler.cpp" -> ServerHandlerCpp(s)
          [] f = "dispatcher.h"      -> DispatcherHpp(s)
          [] f = "dispatcher.cpp"    -> DispatcherCpp(s)
          [] f = "stub.h"            -> StubHpp(s)
          [] f = "stub.cpp"          -> StubCpp(s)
          [] f = "client.h"          -> ClientHpp(s)
          [] f = "client.cpp"        -> ClientCpp(s)
          [] f = "client.conf"       -> ClientEtc(s)
          [] f = "tool.h"            -> ToolHpp(s)
          [] f = "tool.cpp"          -> ToolCpp(s)
          [] f = "toolimpl.h"        -> ToolImplHpp(s)
          [] f = "toolimpl.cpp"      -> ToolImplCpp(s)
          [] f = "toolmain.cpp"      -> ToolMainCpp(s)
          [] f = "server_config.h"   -> ServerConfigHpp(s)
          [] f = "server_config.cpp" -> ServerConfigCpp(s)
          [] f = "main.cpp"          -> ServerMainCpp(s)
          [] f = "server.conf"       -> ServerEtc(s)
          [] f = "Makefile"          -> Makefile(s)]

\* The text of every file, by the version of the proto file.
Rendered == [v \in Versions |-> Render(Parse(v))]

-----------------------------------------------------------------------------
VARIABLES
    proto,    \* the version of the proto file that is saved
    file,     \* for each file: the version it was written from (0: absent),
              \* whether it is complete, and whether it holds work by hand
    run,      \* the generator that runs: its version of the proto file, the
              \* place in its list of files and whether that file is open
    newer,    \* the headers whose time is later than that of the proto file
    make,     \* 0: make does not run; otherwise its step, 7 when it is done
    deaths,   \* generators that died
    edits,    \* edits of code by hand
    suspect   \* history: the generators that have begun to write, and have not
              \* come to the end with the proto file that was saved by then
vars == <<proto, file, run, newer, make, deaths, edits, suspect>>

Absent == [v |-> 0, whole |-> FALSE, hand |-> FALSE]
NotRunning == [gen |-> "none", v |-> 0, k |-> 0, open |-> FALSE]

Plan == [pb2client |-> Proto2Client, pb2service |-> Proto2Service,
         pb2server |-> Proto2Server, pb2tool |-> Proto2Tool]

Headers == {"stub.h", "service.h", "tool.h"}

Init ==
    /\ proto = 1
    /\ file = [f \in Files \union {"client.hpp"} |-> Absent]
    /\ run = NotRunning
    /\ newer = {}
    /\ make = 0
    /\ deaths = 0
    /\ edits = 0
    /\ suspect = {}

Exists(f) == file[f].v # 0
Text(f) == Rendered[file[f].v][f]
Running == run.gen # "none"
MakeRuns == make \in 1..6

\* The header of the client, which may be kept under another name.
ClientHeader == IF Exists("client.hpp") THEN file["client.hpp"] ELSE file["client.h"]
ClientText == Rendered[ClientHeader.v]["client.h"]

-----------------------------------------------------------------------------
(* The generators. *)

Start(g) ==
    /\ ~Running
    /\ run' = [gen |-> g, v |-> proto, k |-> 1, open |-> FALSE]
    /\ UNCHANGED <<proto, file, newer, make, deaths, edits, suspect>>

\* The programmer runs a generator.
RunByHand(g) == ~MakeRuns /\ Start(g)

\* Mutants: the handler is rewritten each time; the dispatcher is not.
SkipsButHandler(f) == f \notin Copyright \union {"serverhandler.cpp"} /\ Exists(f)
SkipsDispatcher(f) == f \notin Copyright \ {"dispatcher.cpp"} /\ Exists(f)

\* A file that is there is left as it is, unless it is rewritten each time.
Skips(f) ==
    \/ f \notin Copyright /\ Exists(f)
    \/ f = "client.h" /\ Exists("client.hpp")

\* The files the generator still has to write.
Remaining == {k \in run.k..Len(Plan[run.gen]) : ~Skips(Plan[run.gen][k])}

\* fopen with "w" empties the file.
Open ==
    /\ Running /\ ~run.open /\ Remaining # {}
    /\ LET k == Min(Remaining)
           f == Plan[run.gen][k]
       IN  /\ run' = [run EXCEPT !.k = k, !.open = TRUE]
           /\ file' = [file EXCEPT ![f] = [v |-> run.v, whole |-> FALSE, hand |-> FALSE]]
           /\ newer' = newer \union ({f} \intersect Headers)
    /\ suspect' = suspect \union {run.gen}
    /\ UNCHANGED <<proto, make, deaths, edits>>

\* What is printed reaches the file with fclose.
Close ==
    /\ Running /\ run.open
    /\ LET f == Plan[run.gen][run.k]
       IN  /\ file' = [file EXCEPT ![f].whole = TRUE]
           /\ newer' = newer \union ({f} \intersect Headers)
    /\ run' = [run EXCEPT !.k = @ + 1, !.open = FALSE]
    /\ UNCHANGED <<proto, make, deaths, edits, suspect>>

Finish ==
    /\ Running /\ ~run.open /\ Remaining = {}
    /\ run' = NotRunning
    /\ make' = IF MakeRuns THEN make + 1 ELSE make
    /\ suspect' = IF run.v = proto THEN suspect \ {run.gen} ELSE suspect
    /\ UNCHANGED <<proto, file, newer, deaths, edits>>

\* A failed assertion, a full disk, a signal: make stops as well.
Die ==
    /\ Running /\ deaths < MaxDeaths
    /\ deaths' = deaths + 1
    /\ run' = NotRunning
    /\ make' = IF MakeRuns THEN 0 ELSE make
    /\ UNCHANGED <<proto, file, newer, edits, suspect>>

-----------------------------------------------------------------------------
(* make: the client library, the server and the tool, one after the other. *)

MakeSteps == <<"pb2client", "client", "pb2service", "server", "pb2tool", "tool">>

HeaderOf == [pb2client |-> "stub.h", pb2service |-> "service.h", pb2tool |-> "tool.h"]

\* Generated code includes the header of the client under the name it is
\* generated with, code by hand under the name it has.
FindsClientHeader(f) ==
    /\ ClientHeader.whole
    /\ file[f].hand \/ Exists("client.h")

ClientBuilds ==
    /\ \A f \in {"stub.h", "stub.cpp", "client.cpp"} : file[f].whole
    /\ FindsClientHeader("client.cpp")
    /\ Text("stub.cpp").def \subseteq Text("stub.h").decl
    /\ Text("client.cpp").def \subseteq ClientText.decl
    /\ Text("client.cpp").call \subseteq Text("stub.h").decl

\* The methods of the service, its implementation and its handler are virtual:
\* those declared must be defined.
ServerBuilds ==
    /\ \A i \in DOMAIN Proto2Service : file[Proto2Service[i]].whole
    /\ \A f \in {"server_config.h", "server_config.cpp", "main.cpp"} : file[f].whole
    /\ Text("service.cpp").def = Text("service.h").decl
    /\ Text("serviceimpl.cpp").def = Text("serviceimpl.h").decl
    /\ Text("serviceimpl.cpp").call \subseteq Text("serverhandler.h").decl
    /\ Text("serverhandler.cpp").def = Text("serverhandler.h").decl
    /\ Text("dispatcher.cpp").def \subseteq Text("dispatcher.h").decl
    /\ Text("dispatcher.cpp").call \subseteq Text("service.h").decl

ToolBuilds ==
    /\ \A i \in DOMAIN Proto2Tool : file[Proto2Tool[i]].whole
    /\ \A f \in {"tool.cpp", "toolimpl.cpp", "toolmain.cpp"} : FindsClientHeader(f)
    /\ Text("tool.cpp").def = Text("tool.h").decl
    /\ Text("toolimpl.cpp").def = Text("toolimpl.h").decl
    /\ {e.name : e \in Text("tool.h").table} \subseteq Text("tool.h").decl
    /\ Text("toolimpl.cpp").call \subseteq ClientText.decl \intersect Text("client.cpp").def

Builds(target) ==
    CASE target = "client" -> ClientBuilds
      [] target = "server" -> ServerBuilds
      [] target = "tool"   -> ToolBuilds

StartMake ==
    /\ ~MakeRuns /\ ~Running /\ file["Makefile"].whole
    /\ make' = 1
    /\ UNCHANGED <<proto, file, run, newer, deaths, edits, suspect>>

\* A generator runs when its header is older than the proto file.
MakeGenerates ==
    /\ make \in {1, 3, 5} /\ ~Running
    /\ IF HeaderOf[MakeSteps[make]] \in newer
       THEN /\ make' = make + 1
            /\ UNCHANGED <<proto, file, run, newer, deaths, edits, suspect>>
       ELSE Start(MakeSteps[make])

MakeBuilds ==
    /\ make \in {2, 4, 6}
    /\ Builds(MakeSteps[make])
    /\ make' = make + 1
    /\ UNCHANGED <<proto, file, run, newer, deaths, edits, suspect>>

\* The generated code does not compile, or other code of the programmer's.
MakeFails ==
    /\ make \in {2, 4, 6}
    /\ make' = 0
    /\ UNCHANGED <<proto, file, run, newer, deaths, edits, suspect>>

Clean ==
    /\ ~MakeRuns /\ ~Running /\ file["Makefile"].whole
    /\ file' = [f \in DOMAIN file |-> IF f \in Copyright THEN Absent ELSE file[f]]
    /\ newer' = {}
    /\ suspect' = {}
    /\ make' = 0
    /\ UNCHANGED <<proto, run, deaths, edits>>

-----------------------------------------------------------------------------
(* The programmer. *)

\* The next version of the proto file is saved, maybe while a generator that
\* has parsed the version before is still writing.
EditProto ==
    /\ proto < Len(Protos)
    /\ proto' = proto + 1
    /\ newer' = {}
    /\ UNCHANGED <<file, run, make, deaths, edits, suspect>>

Parts == {{"serviceimpl.h", "serviceimpl.cpp", "serverhandler.h", "serverhandler.cpp"},
          {IF Exists("client.hpp") THEN "client.hpp" ELSE "client.h", "client.cpp"},
          {"toolimpl.h", "toolimpl.cpp"}}

\* The files of one part are brought up to the proto file by hand.
EditCode ==
    \E part \in Parts :
        /\ ~MakeRuns /\ ~Running /\ edits < MaxEdits
        /\ edits' = edits + 1
        /\ \A f \in part : Exists(f)
        /\ file' = [f \in DOMAIN file |->
                       IF f \in part THEN [v |-> proto, whole |-> TRUE, hand |-> TRUE]
                       ELSE file[f]]
        /\ make' = 0
        /\ UNCHANGED <<proto, run, newer, deaths, suspect>>

RenameClientHeader ==
    /\ ~MakeRuns /\ ~Running
    /\ file["client.h"].whole
    /\ file' = [file EXCEPT !["client.hpp"] = file["client.h"], !["client.h"] = Absent]
    /\ make' = 0
    /\ UNCHANGED <<proto, run, newer, deaths, edits, suspect>>

Next ==
    \/ \E g \in ByHand : RunByHand(g)
    \/ Open \/ Close \/ Finish \/ Die
    \/ StartMake \/ MakeGenerates \/ MakeBuilds \/ MakeFails \/ Clean
    \/ EditProto \/ EditCode \/ RenameClientHeader

Spec == Init /\ [][Next]_vars

-----------------------------------------------------------------------------
(* Properties. *)

\* What the programmer wrote into a file stays there, whatever is generated,
\* built or cleaned afterwards, and whichever generator dies.
HandWorkSurvives ==
    [][\A f \in DOMAIN file : file[f].hand =>
          \/ file'[f].hand
          \/ f = "client.h" /\ file'["client.hpp"] = file[f]]_vars

\* As long as no generator died, the code that make compiles fits together,
\* whatever methods the proto file gained, lost or changed between the runs.  What
\* breaks it is code that is older than what it uses and is not generated anew: a
\* client or a tool that calls a method the proto file does not have any more, or
\* not with these messages; a tool generated later than the client it calls; and,
\* once the header of the client was renamed, generated code that includes it, of
\* which the tool is written again and again.
OnlyStaleCodeBreaksTheBuild ==
    make \in {2, 4, 6} /\ deaths = 0 =>
        \/ Builds(MakeSteps[make])
        \/ make = 2 /\ ~(Methods(Parse(file["client.cpp"].v)) \subseteq
                           Methods(Parse(file["stub.h"].v)))
        \/ make = 6 /\ ~(Methods(Parse(file["toolimpl.cpp"].v)) \subseteq
                           Methods(Parse(ClientHeader.v)))
        \/ Exists("client.hpp") /\ (make = 6 \/ (make = 2 /\ ~file["client.cpp"].hand))

\* The code main.cpp runs for a call of a client: none that fits it (404, or the
\* function of that name unpacks another message), the default of the service, or
\* the method of the implementation if that overrides the one the dispatcher calls.
HttpDispatch(e) ==
    CASE e \notin Text("dispatcher.cpp").table -> "none"
      [] Signature(e) \in Text("serviceimpl.cpp").def -> "implementation"
      [] OTHER -> "unimplemented"

\* Whenever make takes neither header for old, the server answers every call of
\* the client library, with the same messages and under the same id, by the method
\* of the implementation if it has one with these messages.  Not so while the
\* generator of one of them writes, nor when it died after its header was written,
\* or the proto file was saved while it ran; another run of it or make clean mends
\* both.
RoutesAgree ==
    /\ {"stub.h", "service.h"} \subseteq newer
    /\ suspect \intersect {"pb2client", "pb2service"} = {}
    => \A e \in Text("stub.cpp").table :
          HttpDispatch(e) = IF Signature(e) \in Methods(Parse(file["serviceimpl.cpp"].v))
                            THEN "implementation" ELSE "unimplemented"
=============================================================================

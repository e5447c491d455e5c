------------------------------ MODULE Network ------------------------------
(***************************************************************************)
(* The two requests that internal/network answers: the report of           *)
(* GET /agent/v1/network/state (capabilities.go, parsers.go, reporter.go), *)
(* put together from a look at the PATH and the output of two commands of  *)
(* a host that changes meanwhile, and POST /agent/v1/network/apply         *)
(* (NetworkApply).  Requests share nothing but the host: one is followed.  *)
(*                                                                         *)
(* wg and ip are external: wg prints what the comment of                   *)
(* ParseWireGuardDump documents, the line of an interface followed by      *)
(* those of its peers, and ip prints one entry per interface.              *)
(***************************************************************************)
EXTENDS NetworkApply, Functions

CONSTANTS
    Interfaces, \* what an interface of the host may be: its publicKey, its set of
                \* peers and its set of addresses
    MaxChanges, \* bound: how often the host changes while a request is handled
    Bodies      \* the bodies of apply requests

ASSUME InterfacesAssumption == \A i \in Interfaces : IsFiniteSet(i.peers)
ASSUME BodiesAssumption == Bodies \subseteq ApplyRequest \union NoRequest

VARIABLES
    host,       \* its tools on the PATH and its WireGuard interfaces
    moments,    \* history: what the host has been since the request came
    stage,      \* where the request is: none, or a step of its handler
    ctxEnded,   \* its context has ended: 30 s, or the client is gone
    interfaces, \* listManagedInterfaces: what wg reported
    failed,     \* history: the commands that failed
    hung,       \* the command under way never returns
    body,       \* of an apply request
    answer

vars == <<host, moments, stage, ctxEnded, interfaces, failed, hung, body, answer>>

NoAnswer == [status |-> 0]
Tools == {"wg", "ip"}

(* A host has finitely many interfaces. *)
Hosts == UNION {[tools : SUBSET Tools, wg : [N -> Interfaces]]
                    : N \in {M \in SUBSET Names : IsFiniteSet(M)}}

----------------------------------------------------------------------------
(* The output of the commands, and their parsers *)

(* One line of wg show all dump; its fields beyond the key are left out.   *)
Line(name, kind, key) == [name |-> name, kind |-> kind, key |-> key]

InterfaceLines(h, n) ==
    <<Line(n, "interface", h.wg[n].publicKey)>>
        \o SetToSeq({Line(n, "peer", k) : k \in h.wg[n].peers})

Dump(h) ==
    LET names == SetToSeq(DOMAIN h.wg)
        lines[i \in 0 .. Len(names)] ==
            IF i = 0 THEN <<>> ELSE lines[i - 1] \o InterfaceLines(h, names[i])
    IN  lines[Len(names)]

(* A ManagedInterface as ParseWireGuardDump leaves it, without peers yet.  *)
Parsed(name, key) ==
    [name |-> name, publicKey |-> key, peers |-> <<>>, addresses |-> {}, status |-> ""]

(* Where in the table an interface is; 0: nowhere. *)
At(table, name) == SelectInSeq(table, LAMBDA i : i.name = name)

AddPeerLast(table, i, key) == [table EXCEPT ![i].peers = <<key>>]

AddPeer(table, i, key) == [table EXCEPT ![i].peers = Append(@, key)]

ParseLineAnyName(table, line) ==
    LET i == At(table, line.name)
    IN  CASE line.kind = "interface" /\ i = 0 -> Append(table, Parsed(line.name, line.key))
          [] line.kind = "interface" /\ i # 0 -> [table EXCEPT ![i] = Parsed(line.name, line.key)]
          [] line.kind = "peer" /\ i # 0 -> AddPeer(table, i, line.key)
          [] OTHER -> table

(* A line of a peer that comes first gets a placeholder; a line of the     *)
(* interface replaces whatever there is for it.                            *)
ParseLine(table, line) ==
    LET i == At(table, line.name)
    IN  CASE line.name \notin Prefixed -> table
          [] line.name \in Prefixed /\ line.kind = "interface" ->
                 IF i = 0 THEN Append(table, Parsed(line.name, line.key))
                 ELSE [table EXCEPT ![i] = Parsed(line.name, line.key)]
          [] line.name \in Prefixed /\ line.kind = "peer" ->
                 IF i = 0 THEN AddPeer(Append(table, Parsed(line.name, "")), Len(table) + 1, line.key)
                 ELSE AddPeer(table, i, line.key)

ParseWireGuardDump(lines) ==
    LET table[i \in 0 .. Len(lines)] ==
            IF i = 0 THEN <<>> ELSE ParseLine(table[i - 1], lines[i])
    IN  table[Len(lines)]

(* What ip tells of the managed interfaces; operstate is "unknown" for any *)
(* interface of WireGuard.                                                 *)
ParseIPAddrJSON(h) ==
    [n \in DOMAIN h.wg \intersect Prefixed |->
        [status |-> "UNKNOWN", addresses |-> h.wg[n].addresses]]

EnrichedInOrder(table, entries) ==
    LET names == SetToSeq(DOMAIN entries)
    IN  [i \in DOMAIN table |->
            IF i > Len(names) THEN table[i]
            ELSE [table[i] EXCEPT !.addresses = entries[names[i]].addresses,
                                  !.status = entries[names[i]].status]]

Enriched(table, entries) ==
    [i \in DOMAIN table |->
        LET n == table[i].name
        IN  IF n \notin DOMAIN entries THEN table[i]
            ELSE [table[i] EXCEPT !.addresses = entries[n].addresses, !.status = entries[n].status]]

----------------------------------------------------------------------------
(* The host *)

With(wg, n, i) == [m \in DOMAIN wg \union {n} |-> IF m = n THEN i ELSE wg[m]]

Become(h) == h # host /\ host' = h /\ moments' = moments \union {h}

(* An interface comes, goes or is configured, or a package is installed or *)
(* removed.                                                                *)
HostChanges ==
    /\ stage \in {"detect", "wg", "ip"}
    /\ Cardinality(moments) <= MaxChanges
    /\ \/ \E n \in Names, i \in Interfaces : Become([host EXCEPT !.wg = With(@, n, i)])
       \/ \E n \in DOMAIN host.wg : Become([host EXCEPT !.wg = Restrict(@, DOMAIN @ \ {n})])
       \/ \E t \in SUBSET Tools : Become([host EXCEPT !.tools = t])
    /\ UNCHANGED <<stage, ctxEnded, interfaces, failed, hung, body, answer>>

(* Only the first step of a handler looks at its context. *)
ContextEnds ==
    /\ stage \in {"detect", "apply"} /\ ~ctxEnded
    /\ ctxEnded' = TRUE
    /\ UNCHANGED <<host, moments, stage, interfaces, failed, hung, body, answer>>

CommandHangs ==
    /\ stage \in Tools /\ stage \in host.tools /\ ~hung
    /\ hung' = TRUE
    /\ UNCHANGED <<host, moments, stage, ctxEnded, interfaces, failed, body, answer>>

----------------------------------------------------------------------------
(* The requests *)

(* What the host was before the request does not matter. *)
Init ==
    /\ host = [tools |-> {}, wg |-> <<>>] /\ moments = {host}
    /\ stage = "none" /\ ctxEnded = FALSE
    /\ interfaces = <<>> /\ failed = {} /\ hung = FALSE
    /\ body = [form |-> "missing"] /\ answer = NoAnswer

Answers(a) == stage' = "answered" /\ answer' = a

Asked ==
    /\ stage = "none"
    /\ \/ /\ stage' = "detect"
          /\ host' \in Hosts /\ moments' = {host'}
          /\ UNCHANGED body
       \/ /\ stage' = "apply"
          /\ body' \in Bodies
          /\ UNCHANGED <<host, moments>>
    /\ UNCHANGED <<ctxEnded, interfaces, failed, hung, answer>>

(* handleNetworkApply *)
HandleApply ==
    /\ stage = "apply"
    /\ Answers(Apply(body, ctxEnded))
    /\ UNCHANGED <<host, moments, ctxEnded, interfaces, failed, hung, body>>

Report(tools, table) == [status |-> 200, tools |-> tools, interfaces |-> table]

(* Detect; without wg the report is complete.  answer holds the tools that *)
(* were there until it is.                                                 *)
Detect ==
    /\ stage = "detect"
    /\ CASE ctxEnded -> Answers([status |-> 500])
         [] ~ctxEnded /\ "wg" \notin host.tools -> Answers(Report(host.tools, <<>>))
         [] OTHER -> stage' = "wg" /\ answer' = [status |-> 0, tools |-> host.tools]
    /\ UNCHANGED <<host, moments, ctxEnded, interfaces, failed, hung, body>>

RunWgNeedsTool ==
    /\ stage = "wg" /\ ~hung /\ "wg" \in host.tools
    /\ \/ interfaces' = <<>> /\ failed' = failed \union {"wg"}
       \/ interfaces' = ParseWireGuardDump(Dump(host)) /\ UNCHANGED failed
    /\ IF interfaces' = <<>> THEN Answers(Report(answer.tools, <<>>))
       ELSE stage' = "ip" /\ UNCHANGED answer
    /\ UNCHANGED <<host, moments, ctxEnded, hung, body>>

(* Run("wg", "show", "all", "dump"), with no regard to the context; it may *)
(* fail even though the tool is there.                                     *)
RunWg ==
    /\ stage = "wg" /\ ~hung
    /\ \/ interfaces' = <<>> /\ failed' = failed \union {"wg"}
       \/ /\ "wg" \in host.tools
          /\ interfaces' = ParseWireGuardDump(Dump(host))
          /\ UNCHANGED failed
    /\ IF interfaces' = <<>> THEN Answers(Report(answer.tools, <<>>))
       ELSE stage' = "ip" /\ UNCHANGED answer
    /\ UNCHANGED <<host, moments, ctxEnded, hung, body>>

(* Run("ip", "-json", "addr"); when it fails, or its output is no JSON,    *)
(* the interfaces stay without addresses.                                  *)
RunIp ==
    /\ stage = "ip" /\ ~hung
    /\ \/ failed' = failed \union {"ip"} /\ UNCHANGED interfaces
       \/ /\ "ip" \in host.tools
          /\ interfaces' = Enriched(interfaces, ParseIPAddrJSON(host))
          /\ UNCHANGED failed
    /\ Answers(Report(answer.tools, interfaces'))
    /\ UNCHANGED <<host, moments, ctxEnded, hung, body>>

Handler == HandleApply \/ Detect \/ RunWg \/ RunIp

Next == Asked \/ Handler \/ HostChanges \/ ContextEnds \/ CommandHangs

Spec == Init /\ [][Next]_vars

(* Goroutines run, and commands that do not hang return. *)
FairSpec == Spec /\ WF_vars(Handler)

----------------------------------------------------------------------------
(* Properties *)

(* Stage and answer agree, and what was parsed names managed interfaces,   *)
(* each once.                                                              *)
TypeOK ==
    /\ host \in moments /\ moments \subseteq Hosts
    /\ stage \in {"none", "apply", "detect", "wg", "ip", "answered"}
    /\ ctxEnded \in BOOLEAN /\ hung \in BOOLEAN
    /\ failed \subseteq Tools
    /\ (answer.status = 0) <=> stage # "answered"
    /\ \A i \in DOMAIN interfaces : interfaces[i].name \in Prefixed
    /\ \A i, j \in DOMAIN interfaces : interfaces[i].name = interfaces[j].name => i = j

Reported == stage = "answered" /\ "interfaces" \in DOMAIN answer

Shows(entry, i) == entry.publicKey = i.publicKey /\ Range(entry.peers) = i.peers /\ Len(entry.peers) = Cardinality(i.peers)

(* A report invents nothing, though it is read in two parts: an interface  *)
(* had the key and the peers reported at some moment of the request, and   *)
(* the addresses reported at some moment, which may be another one.        *)
ReportInventsNothing ==
    Reported =>
        \A k \in DOMAIN answer.interfaces :
            LET entry == answer.interfaces[k]
            IN  /\ \E h \in moments : entry.name \in DOMAIN h.wg /\ Shows(entry, h.wg[entry.name])
                /\ \/ entry.addresses = {}
                   \/ \E h \in moments : /\ entry.name \in DOMAIN h.wg
                                         /\ entry.addresses = h.wg[entry.name].addresses

(* A managed interface that stayed as it was throughout the request is     *)
(* reported as it is, by a host that has both tools and whose commands     *)
(* succeed, whatever else of it changed between them.                      *)
SteadyInterfacesReported ==
    Reported /\ failed = {} =>
        \A n \in Prefixed :
            LET steady == /\ \A h \in moments : n \in DOMAIN h.wg /\ Tools \subseteq h.tools
                          /\ \A h, g \in moments : h.wg[n] = g.wg[n]
            IN  steady =>
                    \E k \in DOMAIN answer.interfaces :
                        /\ answer.interfaces[k].name = n
                        /\ Shows(answer.interfaces[k], host.wg[n])
                        /\ answer.interfaces[k].addresses = host.wg[n].addresses

(* What the comment of NetworkState says: reporting managed interfaces     *)
(* takes both wg and ip, and without either there are none in the report.  *)
BothToolsRequired ==
    Reported /\ answer.interfaces # <<>> => Tools \subseteq answer.tools

(* apply accepts exactly the well-formed bodies, and what it says of any   *)
(* other is true of it: a peer it blames is the first that cannot stand.   *)
ApplyIsRight ==
    stage = "answered" /\ ~Reported /\ answer.status # 500 =>
        \/ answer.status = 503 /\ ctxEnded
        \/ /\ answer.status = 200 /\ WellFormed(body)
           /\ answer.peerCount = Cardinality({body.peers[i].key : i \in DOMAIN body.peers})
           /\ answer.plan = "VALIDATED" <=> body.mode = "DRY_RUN"
        \/ /\ answer.status = 400 /\ ~WellFormed(body)
           /\ answer.error.peer # 0 => Blamed(body, answer.error.peer)
           /\ answer.error.what = "duplicate key" => ~DistinctKeys(body.peers)

(* Every request is answered, after a command failed or its tool went away *)
(* under way too, unless a command hangs: nothing ends one that does.      *)
RequestsAnswered == stage # "none" ~> stage = "answered" \/ hung
=============================================================================

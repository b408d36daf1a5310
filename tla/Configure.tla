----------------------------- MODULE Configure -----------------------------
(***************************************************************************)
(* The ProtocolsConfigure handler of one web node owner: the messages that *)
(* hold the definitions of protocols, in the message store, the event log  *)
(* and the event stream.                                                   *)
(*                                                                         *)
(* A configuration replaces the ones stored for its protocol: they are     *)
(* deleted one by one and then the new one is put.  There is no lock, so   *)
(* two of these handlers interleave at every await, and a handler may be   *)
(* dropped at any of them.                                                 *)
(*                                                                         *)
(* Configs are the messages that pass authorize and validate; a message    *)
(* that does not leaves no trace.                                          *)
(***************************************************************************)
EXTENDS Naturals, FiniteSets, MessageOrder

CONSTANTS
    Configs,        \* the ProtocolsConfigure messages
    Protocols,      \* protocol URIs
    Definitions,    \* protocol definitions
    Configurers,    \* the requests being handled at once
    NoConfig,       \* no request
    ConfigDrops     \* whether a handler may be dropped before it is done

Config == [protocol : Protocols, ts : Nat, cid : Nat, definition : Definitions]

ASSUME ConfigsAssumption ==
    /\ Configs \subseteq Config
    /\ \A c, d \in Configs : c.cid = d.cid => c = d
    /\ NoConfig \notin Configs
    /\ ConfigDrops \in BOOLEAN

VARIABLES
    configs,        \* ProtocolsConfigure messages in the message store
    configLog,      \* and in the event log
    configEmitted,  \* those ever handed to the event stream
    configPc,       \* where each handler is
    configReq,      \* the message each handler was given
    superseded,     \* the entries it has found and has still to delete
    dropped,        \* history: the requests whose handler was dropped
    overlapped      \* history: pairs of requests that were in progress at once

configStore == <<configs, configLog, configEmitted>>
configVars == <<configs, configLog, configEmitted, configPc, configReq,
                superseded, dropped, overlapped>>
-----------------------------------------------------------------------------
ConfigsOf(u) == {c \in configs : c.protocol = u}

ConfigGoto(p, l) == configPc' = [configPc EXCEPT ![p] = l]

ConfigDone(p) ==
    /\ ConfigGoto(p, "idle")
    /\ configReq' = [configReq EXCEPT ![p] = NoConfig]
    /\ superseded' = [superseded EXCEPT ![p] = {}]

\* Mutant of DeleteOrPut: the loop is left after the first entry.
DeleteOrPutOnce(p, S) ==
    /\ superseded' = [superseded EXCEPT ![p] = S]
    /\ ConfigGoto(p, IF configPc[p] = "fetch" /\ S # {} THEN "delete" ELSE "put")
    /\ UNCHANGED configReq

\* Delete the entries in S, or go on to the put when none are left.
DeleteOrPut(p, S) ==
    /\ superseded' = [superseded EXCEPT ![p] = S]
    /\ ConfigGoto(p, IF S = {} THEN "put" ELSE "delete")
    /\ UNCHANGED configReq

ConfigureInit ==
    /\ configs = {} /\ configLog = {} /\ configEmitted = {}
    /\ configPc = [p \in Configurers |-> "idle"]
    /\ configReq = [p \in Configurers |-> NoConfig]
    /\ superseded = [p \in Configurers |-> {}]
    /\ dropped = {}
    /\ overlapped = {}

\* A configuration arrives.
StartConfigure(p, c) ==
    /\ configPc[p] = "idle"
    /\ ConfigGoto(p, "fetch")
    /\ configReq' = [configReq EXCEPT ![p] = c]
    /\ overlapped' = overlapped \cup
         {{c, configReq[q]} : q \in {r \in Configurers : configPc[r] # "idle"}}
    /\ UNCHANGED <<configStore, superseded, dropped>>

\* Mutants of FetchConfigs: the incoming message is not compared with the latest;
\* the entries found are not deleted.
FetchConfigsAny(p) ==
    /\ configPc[p] = "fetch"
    /\ DeleteOrPut(p, ConfigsOf(configReq[p].protocol))
    /\ UNCHANGED <<configStore, dropped, overlapped>>

FetchConfigsKept(p) ==
    LET c == configReq[p]
        S == ConfigsOf(c.protocol)
    IN  /\ configPc[p] = "fetch"
        /\ IF \E l \in S : Precedes(c, l)
             THEN ConfigDone(p)
             ELSE DeleteOrPut(p, {})
        /\ UNCHANGED <<configStore, dropped, overlapped>>

\* The entries of the protocol are fetched.  The request is a conflict when the
\* latest of them, and so any of them, is newer.
FetchConfigs(p) ==
    LET c == configReq[p]
        S == ConfigsOf(c.protocol)
    IN  /\ configPc[p] = "fetch"
        /\ IF \E l \in S : Precedes(c, l)
             THEN ConfigDone(p)
             ELSE DeleteOrPut(p, S)
        /\ UNCHANGED <<configStore, dropped, overlapped>>

DeleteConfig(p) ==
    /\ configPc[p] = "delete"
    /\ \E n \in superseded[p] :
         IsEarliest(n, superseded[p]) /\ configs' = configs \ {n}
    /\ ConfigGoto(p, "delete_log")
    /\ UNCHANGED <<configLog, configEmitted, configReq, superseded, dropped, overlapped>>

UnlogConfig(p) ==
    /\ configPc[p] = "delete_log"
    /\ \E n \in superseded[p] :
         /\ IsEarliest(n, superseded[p])
         /\ configLog' = configLog \ {n}
         /\ DeleteOrPut(p, superseded[p] \ {n})
    /\ UNCHANGED <<configs, configEmitted, dropped, overlapped>>

PutConfig(p) ==
    /\ configPc[p] = "put"
    /\ configs' = configs \cup {configReq[p]}
    /\ ConfigGoto(p, "log")
    /\ UNCHANGED <<configLog, configEmitted, configReq, superseded, dropped, overlapped>>

LogConfig(p) ==
    /\ configPc[p] = "log"
    /\ configLog' = configLog \cup {configReq[p]}
    /\ ConfigGoto(p, "emit")
    /\ UNCHANGED <<configs, configEmitted, configReq, superseded, dropped, overlapped>>

EmitConfig(p) ==
    /\ configPc[p] = "emit"
    /\ configEmitted' = configEmitted \cup {configReq[p]}
    /\ ConfigDone(p)
    /\ UNCHANGED <<configs, configLog, dropped, overlapped>>

\* The future of the handler is dropped at an await; nothing resumes it.
DropConfigure(p) ==
    /\ ConfigDrops
    /\ configPc[p] # "idle"
    /\ dropped' = dropped \cup {configReq[p]}
    /\ ConfigDone(p)
    /\ UNCHANGED <<configStore, overlapped>>

HandleConfigure(p) ==
    \/ FetchConfigs(p)
    \/ DeleteConfig(p)
    \/ UnlogConfig(p)
    \/ PutConfig(p)
    \/ LogConfig(p)
    \/ EmitConfig(p)

ConfigureNext ==
    \E p \in Configurers :
        \/ \E c \in Configs : StartConfigure(p, c)
        \/ HandleConfigure(p)
        \/ DropConfigure(p)

ConfigureSpec == ConfigureInit /\ [][ConfigureNext]_configVars
-----------------------------------------------------------------------------
(* Properties                                                              *)

ConfigSteps == {"idle", "fetch", "delete", "delete_log", "put", "log", "emit"}

\* Types, and a handler has entries to delete exactly in its loop.
ConfigTypeOK ==
    /\ configs \subseteq Configs /\ configLog \subseteq Configs
    /\ configEmitted \subseteq Configs /\ dropped \subseteq Configs
    /\ configPc \in [Configurers -> ConfigSteps]
    /\ configReq \in [Configurers -> Configs \cup {NoConfig}]
    /\ superseded \in [Configurers -> SUBSET Configs]
    /\ \A p \in Configurers :
         /\ configReq[p] = NoConfig <=> configPc[p] = "idle"
         /\ superseded[p] # {} <=> configPc[p] \in {"delete", "delete_log"}

ConfiguresIdle == \A p \in Configurers : configPc[p] = "idle"

\* d is a configuration of c's protocol that is c or supersedes it.
Supersedes(d, c) == d.protocol = c.protocol /\ NoLater(c, d)

\* A configuration that was announced to subscribers stays in force or gives way
\* to a newer one.  Since a handler deletes before it puts, the protocol can be
\* left without it only when the handler of a newer one was dropped.
AcceptedConfigKept ==
    ConfiguresIdle => \A c \in configEmitted :
        \E d \in configs \cup dropped : Supersedes(d, c)

\* Two configurations of a protocol are stored side by side only if their
\* requests overlapped: the loop of a handler removes all those accepted before.
OneConfigUnlessOverlapped ==
    \A c, d \in configs : c # d /\ c.protocol = d.protocol => {c, d} \in overlapped
=============================================================================

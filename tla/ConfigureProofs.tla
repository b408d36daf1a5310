-------------------------- MODULE ConfigureProofs --------------------------
(***************************************************************************)
(* Proofs about Configure, for any set of configurations and handlers: the *)
(* handlers may interleave in any way and be dropped at any step.          *)
(***************************************************************************)
EXTENDS Configure, TLAPS

-----------------------------------------------------------------------------
(* The inductive invariant.                                                *)

\* The steps at which a handler may already have deleted what it found and has
\* not put its message yet; and those after the put.
Replacing == {"delete", "delete_log", "put"}
Announcing == {"log", "emit"}

\* c is not lost: it, or a configuration that supersedes it, is stored, was
\* dropped on the way, or is about to be put.
Standing(c) ==
    \/ \E d \in configs \cup dropped : Supersedes(d, c)
    \/ \E p \in Configurers : configPc[p] \in Replacing /\ Supersedes(configReq[p], c)

\* What a handler relies on: the entries it deletes are not newer than its
\* message; its message stands once it was put; and what it will not delete
\* was put by a request that overlapped its own, as was the entry it has just
\* deleted if that is stored again.
ConfigurerInv(p) ==
    /\ \A n \in superseded[p] : Supersedes(configReq[p], n)
    /\ configPc[p] \in Announcing => Standing(configReq[p])
    /\ configPc[p] \in Replacing => \A n \in configs :
         n.protocol = configReq[p].protocol
           => n = configReq[p] \/ n \in superseded[p] \/ {n, configReq[p]} \in overlapped
    /\ configPc[p] = "delete_log" => \A n \in superseded[p] \cap configs :
         IsEarliest(n, superseded[p])
           => n = configReq[p] \/ {n, configReq[p]} \in overlapped

\* Requests in progress at once are recorded.
OverlapsRecorded ==
    \A p, q \in Configurers :
        p # q /\ configPc[p] # "idle" /\ configPc[q] # "idle"
          => {configReq[p], configReq[q]} \in overlapped

ConfigInv ==
    /\ ConfigTypeOK
    /\ \A c \in configEmitted : Standing(c)
    /\ \A p \in Configurers : ConfigurerInv(p)
    /\ OverlapsRecorded
    /\ OneConfigUnlessOverlapped
-----------------------------------------------------------------------------
\* NoLater is a total order on the configurations.
LEMMA ConfigOrder ==
    ASSUME NEW a \in Configs, NEW b \in Configs, NEW c \in Configs
    PROVE  /\ NoLater(a, b) /\ NoLater(b, c) => NoLater(a, c)
           /\ NoLater(a, b) \/ Precedes(b, a)
           /\ a.protocol \in Protocols
BY ConfigsAssumption DEF Config, NoLater, Precedes

\* So Supersedes is transitive.
LEMMA SupersedesTransitive ==
    ASSUME NEW a \in Configs, NEW b \in Configs, NEW c \in Configs,
           Supersedes(a, b), Supersedes(b, c)
    PROVE  Supersedes(a, c)
BY ConfigOrder DEF Supersedes

-----------------------------------------------------------------------------
(* Type correctness.                                                       *)

\* The first state is well typed.
LEMMA ConfigTypeInit == ConfigureInit => ConfigTypeOK
BY DEF ConfigureInit, ConfigTypeOK, ConfigSteps

\* Every step of a Configure handler, or of none, keeps the types.
LEMMA ConfigTypeStep == ConfigTypeOK /\ [ConfigureNext]_configVars => ConfigTypeOK'
<1> SUFFICES ASSUME ConfigTypeOK, [ConfigureNext]_configVars PROVE ConfigTypeOK'
  OBVIOUS
<1> USE DEF ConfigTypeOK, ConfigSteps, ConfigGoto, configStore
<1>0. CASE UNCHANGED configVars
  BY <1>0 DEF configVars
<1>1. ASSUME NEW p \in Configurers, NEW c \in Configs, StartConfigure(p, c)
      PROVE  ConfigTypeOK'
  BY <1>1, ConfigsAssumption DEF StartConfigure
<1>d. ASSUME NEW p \in Configurers, ConfigDone(p), UNCHANGED configStore,
             dropped' \subseteq Configs
      PROVE  ConfigTypeOK'
  BY <1>d, ConfigsAssumption DEF ConfigDone
<1>2. ASSUME NEW p \in Configurers, FetchConfigs(p) PROVE ConfigTypeOK'
  <2>1. CASE ConfigDone(p)
    BY <1>2, <1>d, <2>1 DEF FetchConfigs
  <2>2. CASE DeleteOrPut(p, ConfigsOf(configReq[p].protocol))
    BY <1>2, <2>2 DEF FetchConfigs, DeleteOrPut, ConfigsOf
  <2> QED BY <1>2, <2>1, <2>2 DEF FetchConfigs
<1>3. ASSUME NEW p \in Configurers, DeleteConfig(p) PROVE ConfigTypeOK'
  BY <1>3 DEF DeleteConfig
<1>4. ASSUME NEW p \in Configurers, UnlogConfig(p) PROVE ConfigTypeOK'
  BY <1>4 DEF UnlogConfig, DeleteOrPut
<1>5. ASSUME NEW p \in Configurers, PutConfig(p) PROVE ConfigTypeOK'
  BY <1>5 DEF PutConfig
<1>6. ASSUME NEW p \in Configurers, LogConfig(p) PROVE ConfigTypeOK'
  BY <1>6 DEF LogConfig
<1>7. ASSUME NEW p \in Configurers, EmitConfig(p) PROVE ConfigTypeOK'
  BY <1>7, ConfigsAssumption DEF EmitConfig, ConfigDone
<1>8. ASSUME NEW p \in Configurers, DropConfigure(p) PROVE ConfigTypeOK'
  BY <1>8, <1>d DEF DropConfigure
<1> QED
  BY <1>0, <1>1, <1>2, <1>3, <1>4, <1>5, <1>6, <1>7, <1>8
     DEF ConfigureNext, HandleConfigure
-----------------------------------------------------------------------------
(* Preservation.                                                           *)

\* Every step of a handler keeps what stands standing.
LEMMA StandingStep ==
    ASSUME ConfigInv, [ConfigureNext]_configVars, NEW c \in Configs, Standing(c)
    PROVE  Standing(c)'
<1> USE DEF ConfigGoto, configStore, Replacing
<1>t. ConfigTypeOK
  BY DEF ConfigInv
<1> DEFINE Kept == /\ configs \cup dropped \subseteq (configs \cup dropped)'
                   /\ \A q \in Configurers : configPc[q] \in Replacing =>
                        \/ configPc'[q] \in Replacing /\ configReq'[q] = configReq[q]
                        \/ configReq[q] \in (configs \cup dropped)'
<1>k. ASSUME Kept PROVE Standing(c)'
  BY <1>k DEF Standing, Supersedes
<1>0. CASE UNCHANGED configVars
  BY <1>0, <1>k DEF configVars
<1>1. ASSUME NEW p \in Configurers, NEW d \in Configs, StartConfigure(p, d)
      PROVE  Standing(c)'
  BY <1>1, <1>k, <1>t DEF StartConfigure, ConfigTypeOK
<1>2. ASSUME NEW p \in Configurers, FetchConfigs(p) PROVE Standing(c)'
  BY <1>2, <1>k, <1>t DEF FetchConfigs, ConfigTypeOK, ConfigDone, DeleteOrPut
<1>3. ASSUME NEW p \in Configurers, DeleteConfig(p) PROVE Standing(c)'
  <2>1. PICK n \in superseded[p] : configs' = configs \ {n}
    BY <1>3 DEF DeleteConfig
  <2>2. /\ configPc' = [configPc EXCEPT ![p] = "delete_log"] /\ configPc[p] = "delete"
        /\ configReq' = configReq /\ dropped' = dropped
    BY <1>3 DEF DeleteConfig
  <2>3. /\ Supersedes(configReq[p], n) /\ n \in Configs
        /\ configReq[p] \in Configs
    BY <2>1, <2>2, <1>t DEF ConfigInv, ConfigurerInv, ConfigTypeOK
  <2>4. CASE Supersedes(n, c)
    <3>1. Supersedes(configReq[p], c)
      BY <2>3, <2>4, SupersedesTransitive
    <3> QED BY <2>2, <3>1, <1>t DEF Standing, ConfigTypeOK, Supersedes
  <2>5. CASE ~Supersedes(n, c)
    BY <2>1, <2>2, <2>5, <1>t DEF Standing, ConfigTypeOK, Supersedes
  <2> QED BY <2>4, <2>5
<1>4. ASSUME NEW p \in Configurers, UnlogConfig(p) PROVE Standing(c)'
  BY <1>4, <1>k, <1>t DEF UnlogConfig, ConfigTypeOK, DeleteOrPut
<1>5. ASSUME NEW p \in Configurers, PutConfig(p) PROVE Standing(c)'
  BY <1>5, <1>k, <1>t DEF PutConfig, ConfigTypeOK
<1>6. ASSUME NEW p \in Configurers, LogConfig(p) PROVE Standing(c)'
  BY <1>6, <1>k, <1>t DEF LogConfig, ConfigTypeOK
<1>7. ASSUME NEW p \in Configurers, EmitConfig(p) PROVE Standing(c)'
  BY <1>7, <1>k, <1>t DEF EmitConfig, ConfigTypeOK, ConfigDone
<1>8. ASSUME NEW p \in Configurers, DropConfigure(p) PROVE Standing(c)'
  BY <1>8, <1>k, <1>t DEF DropConfigure, ConfigTypeOK, ConfigDone
<1> QED
  BY <1>0, <1>1, <1>2, <1>3, <1>4, <1>5, <1>6, <1>7, <1>8
     DEF ConfigureNext, HandleConfigure

\* The overlaps of requests stay recorded.
LEMMA OverlapsStep ==
    ASSUME ConfigInv, [ConfigureNext]_configVars
    PROVE  OverlapsRecorded' /\ overlapped \subseteq overlapped'
<1> USE DEF ConfigGoto, configStore, OverlapsRecorded
<1>t. ConfigTypeOK /\ OverlapsRecorded
  BY DEF ConfigInv
<1>0. CASE UNCHANGED configVars
  BY <1>0, <1>t DEF configVars
<1>1. ASSUME NEW p \in Configurers, NEW d \in Configs, StartConfigure(p, d)
      PROVE  OverlapsRecorded' /\ overlapped \subseteq overlapped'
  <2>1. /\ configPc' = [configPc EXCEPT ![p] = "fetch"]
        /\ configReq' = [configReq EXCEPT ![p] = d]
        /\ overlapped \subseteq overlapped'
        /\ \A q \in Configurers : configPc[q] # "idle" =>
             {d, configReq[q]} \in overlapped'
    BY <1>1 DEF StartConfigure
  <2>2. \A q \in Configurers : {d, configReq[q]} = {configReq[q], d}
    OBVIOUS
  <2> QED BY <2>1, <2>2, <1>t DEF ConfigTypeOK
<1>2. ASSUME NEW p \in Configurers, HandleConfigure(p) \/ DropConfigure(p)
      PROVE  OverlapsRecorded' /\ overlapped \subseteq overlapped'
  <2>1. /\ overlapped' = overlapped /\ configPc[p] # "idle"
        /\ \A q \in Configurers : configPc'[q] # "idle" =>
             configPc[q] # "idle" /\ configReq'[q] = configReq[q]
    BY <1>2, <1>t DEF HandleConfigure, FetchConfigs, DeleteConfig, UnlogConfig,
       PutConfig, LogConfig, EmitConfig, DropConfigure, ConfigDone, DeleteOrPut,
       ConfigTypeOK
  <2> QED BY <2>1, <1>t
<1> QED BY <1>0, <1>1, <1>2 DEF ConfigureNext

\* What a handler relies on is kept.
LEMMA ConfigurerStep ==
    ASSUME ConfigInv, [ConfigureNext]_configVars, NEW q \in Configurers
    PROVE  ConfigurerInv(q)'
<1> USE DEF ConfigGoto, configStore
<1>t. ConfigTypeOK /\ ConfigTypeOK'
  BY ConfigTypeStep DEF ConfigInv
<1>o. overlapped \subseteq overlapped' /\ OverlapsRecorded
  BY OverlapsStep DEF ConfigInv
<1>h. ConfigurerInv(q)
  BY DEF ConfigInv
<1>r. configPc[q] # "idle" => configReq[q] \in Configs
  BY <1>t DEF ConfigTypeOK
<1>s. configPc[q] # "idle" /\ Standing(configReq[q]) /\ configReq'[q] = configReq[q]
        => Standing(configReq[q])'
  <2> SUFFICES ASSUME configPc[q] # "idle", Standing(configReq[q]),
                      configReq'[q] = configReq[q]
               PROVE  Standing(configReq[q])'
    OBVIOUS
  <2>1. PICK c : c = configReq[q]
    OBVIOUS
  <2>2. Standing(c)'
    BY <1>r, <2>1, StandingStep
  <2> QED BY <2>1, <2>2 DEF Standing, Supersedes
\* A step that changes neither q nor its view of the stored configurations.
<1>u. ASSUME configPc'[q] = configPc[q], configReq'[q] = configReq[q],
             superseded'[q] = superseded[q], configs' \subseteq configs
      PROVE  ConfigurerInv(q)'
  BY <1>u, <1>h, <1>o, <1>s, <1>r
     DEF ConfigurerInv, Supersedes, Announcing, Replacing, IsEarliest, NoLater, Precedes
<1>i. ASSUME configPc'[q] = "idle" PROVE ConfigurerInv(q)'
  BY <1>i, <1>t DEF ConfigurerInv, ConfigTypeOK, Announcing, Replacing
<1>0. CASE UNCHANGED configVars
  BY <1>0, <1>u DEF configVars
<1>1. ASSUME NEW p \in Configurers, NEW d \in Configs, StartConfigure(p, d)
      PROVE  ConfigurerInv(q)'
  <2>1. CASE p = q
    BY <1>1, <2>1, <1>t
       DEF StartConfigure, ConfigurerInv, ConfigTypeOK, Announcing, Replacing
  <2>2. CASE p # q
    BY <1>1, <2>2, <1>u, <1>t DEF StartConfigure, ConfigTypeOK
  <2> QED BY <2>1, <2>2
<1>2. ASSUME NEW p \in Configurers, FetchConfigs(p) PROVE ConfigurerInv(q)'
  <2>1. CASE p # q
    BY <1>2, <2>1, <1>u, <1>t
       DEF FetchConfigs, ConfigTypeOK, ConfigDone, DeleteOrPut
  <2>2. CASE p = q /\ ConfigDone(p)
    BY <2>2, <1>i, <1>t DEF ConfigDone, ConfigTypeOK
  <2>3. CASE p = q /\ ~ConfigDone(p)
    <3> DEFINE c == configReq[p]
               S == ConfigsOf(c.protocol)
    <3>1. /\ configPc[p] = "fetch" /\ DeleteOrPut(p, S) /\ configs' = configs
          /\ \A n \in S : ~Precedes(c, n)
      BY <1>2, <2>3 DEF FetchConfigs
    <3>2. c \in Configs /\ S \subseteq Configs
      BY <3>1, <1>t DEF ConfigTypeOK, ConfigsOf
    <3>3. \A n \in S : Supersedes(c, n)
      BY <3>1, <3>2, ConfigOrder DEF Supersedes, ConfigsOf
    <3>4. superseded'[p] = S /\ configReq'[p] = c /\ configPc'[p] \in {"put", "delete"}
      BY <3>1, <1>t DEF DeleteOrPut, ConfigTypeOK
    <3>5. \A n \in configs' : n.protocol = c.protocol => n \in S
      BY <3>1 DEF ConfigsOf
    <3> HIDE DEF S, c
    <3> QED BY <2>3, <3>3, <3>4, <3>5
            DEF ConfigurerInv, Supersedes, Announcing
  <2> QED BY <2>1, <2>2, <2>3
<1>3. ASSUME NEW p \in Configurers, DeleteConfig(p) PROVE ConfigurerInv(q)'
  <2>1. CASE p # q
    BY <1>3, <2>1, <1>u, <1>t DEF DeleteConfig, ConfigTypeOK
  <2>2. CASE p = q
    <3>1. PICK n \in superseded[p] : IsEarliest(n, superseded[p]) /\ configs' = configs \ {n}
      BY <1>3 DEF DeleteConfig
    <3>2. \A m \in superseded[p] : IsEarliest(m, superseded[p]) => m = n
      BY <3>1, <1>t, ConfigsAssumption
         DEF IsEarliest, NoLater, Precedes, ConfigTypeOK, Config
    <3>3. /\ configPc' = [configPc EXCEPT ![p] = "delete_log"] /\ configPc[p] = "delete"
          /\ UNCHANGED <<configReq, superseded, overlapped>>
      BY <1>3 DEF DeleteConfig
    <3> QED BY <2>2, <3>1, <3>2, <3>3, <1>h, <1>t
            DEF ConfigTypeOK, ConfigurerInv, Supersedes, Announcing, Replacing,
                IsEarliest, NoLater, Precedes
  <2> QED BY <2>1, <2>2
<1>4. ASSUME NEW p \in Configurers, UnlogConfig(p) PROVE ConfigurerInv(q)'
  <2>1. CASE p # q
    BY <1>4, <2>1, <1>u, <1>t DEF UnlogConfig, ConfigTypeOK, DeleteOrPut
  <2>2. CASE p = q
    <3>1. PICK n \in superseded[p] : IsEarliest(n, superseded[p]) /\ DeleteOrPut(p, superseded[p] \ {n})
      BY <1>4 DEF UnlogConfig
    <3>2. /\ configPc'[p] \in {"put", "delete"} /\ configReq' = configReq
          /\ superseded'[p] = superseded[p] \ {n}
          /\ configPc[p] = "delete_log" /\ UNCHANGED <<configs, overlapped>>
      BY <1>4, <3>1, <1>t DEF UnlogConfig, DeleteOrPut, ConfigTypeOK
    <3> QED BY <2>2, <3>1, <3>2, <1>h
            DEF ConfigurerInv, Supersedes, Announcing, Replacing
  <2> QED BY <2>1, <2>2
<1>5. ASSUME NEW p \in Configurers, PutConfig(p) PROVE ConfigurerInv(q)'
  <2> DEFINE c == configReq[p]
  <2>1. /\ configs' = configs \cup {c} /\ configPc[p] = "put" /\ c \in Configs
        /\ configPc' = [configPc EXCEPT ![p] = "log"]
        /\ UNCHANGED <<configReq, superseded, dropped, overlapped>>
    BY <1>5, <1>t DEF PutConfig, ConfigTypeOK
  <2>2. CASE p = q
    <3>1. Standing(configReq[q])'
      BY <2>1, <2>2, ConfigOrder DEF Standing, Supersedes, NoLater
    <3> QED BY <2>1, <2>2, <3>1, <1>h, <1>t
            DEF ConfigurerInv, ConfigTypeOK, Supersedes, Announcing, Replacing
  <2>3. CASE p # q
    <3>1. configPc[q] # "idle" => {c, configReq[q]} \in overlapped
      BY <2>1, <2>3, <1>o DEF OverlapsRecorded
    <3> QED BY <2>1, <2>3, <3>1, <1>h, <1>t, <1>s
            DEF ConfigurerInv, ConfigTypeOK, Supersedes, Announcing, Replacing,
                IsEarliest, NoLater, Precedes
  <2> QED BY <2>2, <2>3
<1>6. ASSUME NEW p \in Configurers, LogConfig(p) PROVE ConfigurerInv(q)'
  BY <1>6, <1>h, <1>u, <1>t, <1>s
     DEF LogConfig, ConfigTypeOK, ConfigurerInv, Supersedes, Announcing, Replacing
<1>7. ASSUME NEW p \in Configurers, EmitConfig(p) PROVE ConfigurerInv(q)'
  BY <1>7, <1>i, <1>u, <1>t DEF EmitConfig, ConfigTypeOK, ConfigDone
<1>8. ASSUME NEW p \in Configurers, DropConfigure(p) PROVE ConfigurerInv(q)'
  BY <1>8, <1>i, <1>u, <1>t DEF DropConfigure, ConfigTypeOK, ConfigDone
<1> QED
  BY <1>0, <1>1, <1>2, <1>3, <1>4, <1>5, <1>6, <1>7, <1>8
     DEF ConfigureNext, HandleConfigure

\* A put adds a configuration beside ones that its handler did not find: their
\* requests overlapped.
LEMMA OneConfigStep ==
    ASSUME ConfigInv, [ConfigureNext]_configVars
    PROVE  OneConfigUnlessOverlapped'
<1>t. ConfigTypeOK /\ OneConfigUnlessOverlapped /\ overlapped \subseteq overlapped'
  BY OverlapsStep DEF ConfigInv
<1>1. CASE configs' \subseteq configs
  BY <1>1, <1>t DEF OneConfigUnlessOverlapped
<1>2. ASSUME NEW p \in Configurers, PutConfig(p) PROVE OneConfigUnlessOverlapped'
  <2> DEFINE c == configReq[p]
  <2>1. /\ configs' = configs \cup {c} /\ superseded[p] = {}
        /\ overlapped' = overlapped
    BY <1>2, <1>t DEF PutConfig, ConfigTypeOK
  <2>2. \A n \in configs : n.protocol = c.protocol /\ n # c => {n, c} \in overlapped
    BY <1>2, <2>1 DEF ConfigInv, ConfigurerInv, PutConfig, Replacing
  <2>3. \A n \in configs : {n, c} = {c, n}
    OBVIOUS
  <2> HIDE DEF c
  <2> QED BY <2>1, <2>2, <2>3, <1>t DEF OneConfigUnlessOverlapped
<1>3. configs' \subseteq configs \/ \E p \in Configurers : PutConfig(p)
  BY DEF ConfigureNext, HandleConfigure, StartConfigure, FetchConfigs, DeleteConfig,
     UnlogConfig, LogConfig, EmitConfig, DropConfigure, configStore, configVars
<1> QED BY <1>1, <1>2, <1>3

\* No step loses a configuration that has been emitted.
LEMMA EmittedStep ==
    ASSUME ConfigInv, [ConfigureNext]_configVars
    PROVE  \A c \in configEmitted' : Standing(c)'
<1>t. ConfigTypeOK
  BY DEF ConfigInv
<1>1. \A c \in configEmitted : Standing(c)'
  BY <1>t, StandingStep DEF ConfigInv, ConfigTypeOK
<1>2. ASSUME NEW p \in Configurers, EmitConfig(p)
      PROVE  \A c \in configEmitted' : Standing(c)'
  <2>1. PICK c : c = configReq[p]
    OBVIOUS
  <2>2. c \in Configs /\ Standing(c) /\ configEmitted' = configEmitted \cup {c}
    BY <1>2, <2>1, <1>t DEF EmitConfig, ConfigInv, ConfigurerInv, Announcing, ConfigTypeOK
  <2>3. Standing(c)'
    BY <2>2, StandingStep
  <2> QED BY <1>1, <2>2, <2>3
<1>3. configEmitted' = configEmitted \/ \E p \in Configurers : EmitConfig(p)
  BY DEF ConfigureNext, HandleConfigure, StartConfigure, FetchConfigs, DeleteConfig,
     UnlogConfig, LogConfig, PutConfig, DropConfigure, configStore, configVars
<1> QED BY <1>1, <1>2, <1>3
-----------------------------------------------------------------------------
\* What the handlers of configurations rely on holds at every step.
THEOREM ConfigInvariant == ConfigureSpec => []ConfigInv
<1>1. ConfigureInit => ConfigInv
  BY ConfigTypeInit DEF ConfigureInit, ConfigInv, ConfigurerInv, OverlapsRecorded,
     OneConfigUnlessOverlapped, Announcing, Replacing
<1>2. ConfigInv /\ [ConfigureNext]_configVars => ConfigInv'
  <2> SUFFICES ASSUME ConfigInv, [ConfigureNext]_configVars PROVE ConfigInv'
    OBVIOUS
  <2>1. ConfigTypeOK'
    BY ConfigTypeStep DEF ConfigInv
  <2> QED BY <2>1, EmittedStep, ConfigurerStep, OverlapsStep, OneConfigStep
          DEF ConfigInv
<1> QED BY <1>1, <1>2, PTL DEF ConfigureSpec

\* The types of the handler's state.
THEOREM ConfigTypeCorrect == ConfigureSpec => []ConfigTypeOK
BY ConfigInvariant, PTL DEF ConfigInv

\* However ProtocolsConfigure handlers interleave, an announced configuration
\* is stored or superseded; only the drop of a newer one's handler, between its
\* deletes and its put, can lose it.
THEOREM ConfigsAreKept == ConfigureSpec => []AcceptedConfigKept
<1>1. ConfigInv => AcceptedConfigKept
  BY DEF ConfigInv, AcceptedConfigKept, ConfiguresIdle, Standing, Replacing
<1> QED BY <1>1, ConfigInvariant, PTL

\* Two configurations of a protocol are stored side by side only after an
\* overlap of their requests.
THEOREM ConfigsAreAlone == ConfigureSpec => []OneConfigUnlessOverlapped
BY ConfigInvariant, PTL DEF ConfigInv
=============================================================================

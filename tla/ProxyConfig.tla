----------------------------- MODULE ProxyConfig -----------------------------
(***************************************************************************)
(* CLIProxyAPI's configuration file, which setup shares with its user: the *)
(* managed key and aliases go into it and all else stays                   *)
(* (internal/setup/proxy.go, internal/setup/workflow.go).  That a target   *)
(* is replaced, or put back, only if it is as it was found is              *)
(* SetupTransaction's subject and one step here.                           *)
(*                                                                         *)
(* A YAML document is the values setup looks at; the order of its keys and *)
(* whatever else it holds stay with it.                                    *)
(***************************************************************************)
EXTENDS Naturals, Sequences, SeqFilter

CONSTANTS ManagedKey,   \* the keys setup may generate, never one twice
          NoKey,
          Aliases,      \* how many Claude aliases setup requires
          MaxChanges    \* how often the user changes the file

ASSUME KeysAssumption ==
    NoKey \notin ManagedKey /\ {"placeholder", "own"} \cap ManagedKey = {}
ASSUME ProxyBounds == Aliases \in Nat /\ MaxChanges \in Nat

\* requiredCodexModelAliases, by their places, and two more that are the user's.
Required == 1 .. Aliases
Alias == 0 .. Aliases + 1

\* plain: a single mapping without anchors, merges, duplicate keys or values of
\* the wrong kind among the managed ones (parseProxyYAML).  listen: host, port.
Config == [plain : BOOLEAN, listen : {"ours", "other"}, authDir : {"none", "ours", "theirs"},
           keys : Seq(ManagedKey \cup {"placeholder", "own"}),
           aliases : Seq([alias : Alias, right : BOOLEAN])]

VARIABLES
    config,     \* the file
    credential, \* the generated key in the private credential file
    managing,   \* the setup in progress
    minted,     \* the keys generated so far
    changes     \* how often the user has changed the file

proxyVars == <<config, credential, managing, minted, changes>>

NotManaging == [pc |-> "idle"]

ProxyInit ==
    /\ config = [plain |-> TRUE, listen |-> "other", authDir |-> "theirs",
                 keys |-> <<"placeholder", "own">>, aliases |-> <<>>]
    /\ credential = NoKey /\ managing = NotManaging
    /\ minted = {} /\ changes = 0

-----------------------------------------------------------------------------
RightAliases == [i \in Required |-> [alias |-> i, right |-> TRUE]]

TheirKeys(c, managed) == Without(c.keys, {"placeholder", managed})
TheirAliases(c) == Without(c.aliases, [alias : Required, right : BOOLEAN])

\* Mutant: a required alias that is there is left as it is.
MutatedAppended(c, managed) ==
    [c EXCEPT !.listen = "ours",
              !.authDir = IF @ = "none" THEN "ours" ELSE @,
              !.keys = Append(TheirKeys(c, managed), managed),
              !.aliases = @ \o RightAliases]

\* mutateProxyYAML
Mutated(c, managed) ==
    [c EXCEPT !.listen = "ours",
              !.authDir = IF @ = "none" THEN "ours" ELSE @,
              !.keys = Append(TheirKeys(c, managed), managed),
              !.aliases = TheirAliases(c) \o RightAliases]

AliasNames(c) == [i \in DOMAIN c.aliases |-> c.aliases[i].alias]
Once(seq, value) == \E i \in DOMAIN seq : \A j \in DOMAIN seq : seq[j] = value <=> i = j

\* validateMutatedProxyYAML
Valid(c, managed) ==
    /\ c.plain /\ c.listen = "ours"
    /\ \A i \in DOMAIN c.keys : c.keys[i] # "placeholder"
    /\ Once(c.keys, managed)
    /\ \A alias \in Required :
          /\ Once(AliasNames(c), alias)
          /\ \A i \in DOMAIN c.aliases : c.aliases[i].alias = alias => c.aliases[i].right

-----------------------------------------------------------------------------
\* prepareProxyConfig: the key is the one on disk or, if there is none, new.
PrepareProxy ==
    /\ managing.pc = "idle" /\ config.plain
    /\ \E key \in IF credential = NoKey THEN ManagedKey \ minted ELSE {credential} :
          /\ Valid(Mutated(config, key), key)
          /\ minted' = minted \cup {key}
          /\ managing' = [pc |-> "prepared", key |-> key, updated |-> Mutated(config, key)]
    /\ UNCHANGED <<config, credential, changes>>

\* A file it cannot manage, or keys that were all used, end setup here.
RefuseProxy ==
    /\ managing.pc = "idle"
    /\ config.plain => credential = NoKey /\ minted = ManagedKey
    /\ UNCHANGED proxyVars

\* addFile, after the service has been inspected and the user asked to log in,
\* takes the file as it is then for what it replaces.
SnapshotProxy ==
    /\ managing.pc = "prepared"
    /\ managing' = [pc |-> "listed", key |-> managing.key, updated |-> managing.updated,
                    before |-> config]
    /\ UNCHANGED <<config, credential, minted, changes>>

ApplyProxy ==
    /\ managing.pc = "listed" /\ config = managing.before
    /\ config' = managing.updated
    /\ managing' = [managing EXCEPT !.pc = "applied"]
    /\ UNCHANGED <<credential, minted, changes>>

CommitProxy ==
    /\ managing.pc = "applied" /\ config = managing.updated
    /\ credential' = managing.key
    /\ managing' = NotManaging
    /\ UNCHANGED <<config, minted, changes>>

\* A setup that fails puts back what it replaced, if it is still there.
AbandonProxy ==
    /\ managing.pc # "idle"
    /\ config' = IF managing.pc = "applied" /\ config = managing.updated
                 THEN managing.before ELSE config
    /\ managing' = NotManaging
    /\ UNCHANGED <<credential, minted, changes>>

\* uninstall --purge-state removes the credential, not the proxy's file.
PurgeCredential ==
    /\ managing.pc = "idle" /\ credential # NoKey
    /\ credential' = NoKey
    /\ UNCHANGED <<config, managing, minted, changes>>

\* The user, or the proxy, writes the file.
ChangeProxy(c) ==
    /\ changes < MaxChanges
    /\ config' = c
    /\ changes' = changes + 1
    /\ UNCHANGED <<credential, managing, minted>>

Changes ==
    \/ \E listen \in {"ours", "other"} : ChangeProxy([config EXCEPT !.listen = listen])
    \/ ChangeProxy([config EXCEPT !.plain = ~@])
    \/ ChangeProxy([config EXCEPT !.authDir = "none"])
    \/ \E key \in minted \cup {"placeholder", "own"} :
          ChangeProxy([config EXCEPT !.keys = Append(@, key)])
    \/ \E i \in DOMAIN config.keys :
          ChangeProxy([config EXCEPT !.keys = SubSeq(@, 1, i - 1) \o SubSeq(@, i + 1, Len(@))])
    \/ \E i \in DOMAIN config.aliases :
          ChangeProxy([config EXCEPT !.aliases = SubSeq(@, 1, i - 1) \o SubSeq(@, i + 1, Len(@))])
    \/ \E alias \in Alias :
          ChangeProxy([config EXCEPT !.aliases = <<[alias |-> alias, right |-> FALSE]>> \o @])

ProxyNext ==
    \/ PrepareProxy \/ RefuseProxy \/ SnapshotProxy \/ ApplyProxy \/ CommitProxy \/ AbandonProxy
    \/ PurgeCredential
    \/ Changes

ProxySpec == ProxyInit /\ [][ProxyNext]_proxyVars

-----------------------------------------------------------------------------
\* Whatever plain file the user makes of it, before the first setup or between
\* two, the next one can manage it: its own check passes, keys and aliases that
\* are the user's stay in their order, and the setup after that changes nothing
\* and so restarts no service.
SetupSettles ==
    config.plain =>
        \A key \in ManagedKey :
            LET managed == Mutated(config, key)
            IN  /\ Valid(managed, key)
                /\ TheirKeys(managed, key) = TheirKeys(config, key)
                /\ TheirAliases(managed) = TheirAliases(config)
                /\ Mutated(managed, key) = managed

\* docs/PROXY.md: setup will "preserve unrelated configuration".  No step of a
\* setup drops a key or an alias of the user's from the file.
UnrelatedPreserved ==
    [][changes' = changes /\ managing.pc # "idle" =>
           /\ TheirKeys(config', managing.key) = TheirKeys(config, managing.key)
           /\ TheirAliases(config') = TheirAliases(config)]_proxyVars
=============================================================================

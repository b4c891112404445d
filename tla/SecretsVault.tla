---------------------------- MODULE SecretsVault -----------------------------
(***************************************************************************)
(* The secrets vault and those who keep references to it: the state of API *)
(* packages and the configuration of agents. Each has a specification of   *)
(* its own; at, writes, boots and their bounds are of whichever runs.      *)
(***************************************************************************)
EXTENDS Naturals, FiniteSets

(***************************************************************************)
(* The state of an API package and the vault its secrets are in, from      *)
(* SecretsVault.cpp, ctx.set_state of ApiRuntime.cpp, "api state set" of   *)
(* ApiTool.cpp and the state, secrets and delete routes of the admin       *)
(* server.                                                                 *)
(*                                                                         *)
(* One package whose state has a plain key and a secret one.  Values are   *)
(* numbers, a new one per write; sealing is left out except that nothing   *)
(* opens without the master key.  Every writer sends the whole state back. *)
(***************************************************************************)

CONSTANTS
    Scripts,        \* running package scripts and api tool calls
    RewriteFails,   \* whether the migration's write of the state may fail
    MaxWrites,      \* bound: values ever written
    MaxBoots        \* bound: restarts

VARIABLES
    keyFile,        \* "none", "partial" or "whole"
    key,            \* the vault has its master key
    alive,          \* the package's row exists
    state,          \* [plain, secret] as stored
    vault,          \* entry name -> value, 0 if not set
    boot, at, writes, boots,
    secret,         \* ghost: the value last given to the secret key
    plain,          \* ghost: the value last given to the plain key
    refs            \* ghost: a script has stored a reference

secretVars == <<keyFile, key, alive, state, vault, boot, at, writes, boots, secret, plain, refs>>

Admin == "admin"
Idle == [pc |-> "idle"]
None == 0
Ref == MaxWrites + 1    \* a {secret_ref: "r"} object
IsLiteral(v) == v # None /\ v # Ref

(* Before the vault there were literals in the state.                      *)
SecretsInit ==
    /\ keyFile = "none" /\ key = FALSE /\ alive = TRUE
    /\ \E v \in {None, 1} : state = [plain |-> None, secret |-> v] /\ secret = v
    /\ vault = [n \in {"s", "r"} |-> None]
    /\ boot = "key" /\ at = [c \in Scripts \cup {Admin} |-> Idle]
    /\ writes = 1 /\ boots = 0 /\ plain = None /\ refs = FALSE

Go(c, r) == at' = [at EXCEPT ![c] = r]
Writes == writes < MaxWrites /\ writes' = writes + 1
Up == boot = "up"

-----------------------------------------------------------------------------
(* LoadOrCreateKey: a file that is not 64 hex characters disables the      *)
(* vault; with no file one is created, then written.                       *)
LoadKey ==
    /\ boot = "key" /\ keyFile # "none"
    /\ key' = (keyFile = "whole") /\ boot' = "migrate"
    /\ UNCHANGED <<keyFile, alive, state, vault, at, writes, boots, secret, plain, refs>>

CreateKey ==
    /\ boot = "key" /\ keyFile = "none"
    /\ keyFile' = "partial" /\ boot' = "keyWrite"
    /\ UNCHANGED <<key, alive, state, vault, at, writes, boots, secret, plain, refs>>

WriteKey(ok) ==
    /\ boot = "keyWrite"
    /\ keyFile' = IF ok THEN "whole" ELSE "none"
    /\ key' = ok /\ boot' = "migrate"
    /\ UNCHANGED <<alive, state, vault, at, writes, boots, secret, plain, refs>>

(* MigrateLegacyStateSecrets: the vault first, the state after it.         *)
MigrateSets_NotVaulted ==
    /\ boot = "migrate"
    /\ IF key /\ alive /\ IsLiteral(state.secret)
       THEN state' = [state EXCEPT !.secret = None] /\ boot' = "rewrite"
       ELSE boot' = "up" /\ UNCHANGED state
    /\ UNCHANGED <<keyFile, key, alive, vault, at, writes, boots, secret, plain, refs>>

MigrateSets ==
    /\ boot = "migrate"
    /\ IF key /\ alive /\ IsLiteral(state.secret)
       THEN vault' = [vault EXCEPT !["s"] = state.secret] /\ boot' = "rewrite"
       ELSE boot' = "up" /\ UNCHANGED vault
    /\ UNCHANGED <<keyFile, key, alive, state, at, writes, boots, secret, plain, refs>>

MigrateRewrites(ok) ==
    /\ boot = "rewrite" /\ boot' = "up"
    /\ RewriteFails \/ ok
    /\ state' = IF ok THEN [state EXCEPT !.secret = None] ELSE state
    /\ UNCHANGED <<keyFile, key, alive, vault, at, writes, boots, secret, plain, refs>>

Restart ==
    /\ boots < MaxBoots /\ boots' = boots + 1
    /\ key' = FALSE /\ boot' = "key"
    /\ at' = [c \in DOMAIN at |-> Idle]
    /\ UNCHANGED <<keyFile, alive, state, vault, writes, secret, plain, refs>>

-----------------------------------------------------------------------------
(* A script runs on the state read when it started.                        *)
Execute(c) ==
    /\ Up /\ alive /\ at[c] = Idle
    /\ Go(c, [pc |-> "running", view |-> state])
    /\ UNCHANGED <<keyFile, key, alive, state, vault, boot, writes, boots, secret, plain, refs>>

Return(c) ==
    /\ at[c].pc = "running" /\ Go(c, Idle)
    /\ UNCHANGED <<keyFile, key, alive, state, vault, boot, writes, boots, secret, plain, refs>>

SetPackageState(c, view, then) ==
    /\ state' = IF alive THEN view ELSE state
    /\ Go(c, then)

(* set_state of a plain key; HandleState does the same for an agent.       *)
CtxSetPlain(c) ==
    LET view == [at[c].view EXCEPT !.plain = writes + 1]
    IN /\ at[c].pc = "running" /\ Writes
       /\ SetPackageState(c, view, [at[c] EXCEPT !.view = view])
       /\ plain' = IF alive THEN writes + 1 ELSE plain
       /\ UNCHANGED <<keyFile, key, alive, vault, boot, boots, secret, refs>>

(* Of the secret key: the vault, then the state without the key.           *)
CtxSetSecret(c) ==
    /\ at[c].pc = "running" /\ key /\ Writes
    /\ vault' = [vault EXCEPT !["s"] = writes + 1]
    /\ secret' = writes + 1
    /\ Go(c, [pc |-> "persist", view |-> [at[c].view EXCEPT !.secret = None]])
    /\ UNCHANGED <<keyFile, key, alive, state, boot, boots, plain, refs>>

CtxSetRef(c) ==
    /\ at[c].pc = "running" /\ at[c].view.secret # Ref
    /\ secret' = vault["r"] /\ refs' = TRUE
    /\ Go(c, [pc |-> "persist", view |-> [at[c].view EXCEPT !.secret = Ref]])
    /\ UNCHANGED <<keyFile, key, alive, state, vault, boot, writes, boots, plain>>

CtxPersists(c) ==
    /\ c \in Scripts /\ at[c].pc = "persist"
    /\ SetPackageState(c, at[c].view, [pc |-> "running", view |-> at[c].view])
    /\ UNCHANGED <<keyFile, key, alive, vault, boot, writes, boots, secret, plain, refs>>

-----------------------------------------------------------------------------
(* The owner.  The state route reads, moves literals to the vault, writes. *)
PutState(secretToo) ==
    LET view == IF secretToo THEN [state EXCEPT !.secret = writes + 1]
        ELSE [state EXCEPT !.plain = writes + 1]
    IN /\ Up /\ alive /\ at[Admin] = Idle /\ Writes
       /\ Go(Admin, [pc |-> "split", view |-> view, secretToo |-> secretToo])
       /\ UNCHANGED <<keyFile, key, alive, state, vault, boot, boots, secret, plain, refs>>

(* Without a key the request is refused when it holds a literal.           *)
SplitStateSecrets ==
    LET view == at[Admin].view
        literal == IsLiteral(view.secret)
    IN /\ at[Admin].pc = "split"
       /\ vault' = IF literal /\ key THEN [vault EXCEPT !["s"] = view.secret] ELSE vault
       /\ secret' = IF at[Admin].secretToo /\ key THEN view.secret ELSE secret
       /\ Go(Admin, IF literal /\ ~key THEN Idle
                    ELSE [pc |-> "write", secretToo |-> at[Admin].secretToo,
                          view |-> IF literal THEN [view EXCEPT !.secret = None] ELSE view])
       /\ UNCHANGED <<keyFile, key, alive, state, boot, writes, boots, plain, refs>>

PutWrites ==
    /\ at[Admin].pc = "write"
    /\ SetPackageState(Admin, at[Admin].view, Idle)
    /\ plain' = IF alive /\ ~at[Admin].secretToo THEN at[Admin].view.plain ELSE plain
    /\ UNCHANGED <<keyFile, key, alive, vault, boot, writes, boots, secret, refs>>

(* PUT .../secrets/{name}, and its DELETE.                                 *)
PutSecret(n) ==
    /\ Up /\ alive /\ key /\ at[Admin] = Idle /\ Writes
    /\ vault' = [vault EXCEPT ![n] = writes + 1]
    /\ secret' = IF (state.secret = Ref) = (n = "r") THEN writes + 1 ELSE secret
    /\ UNCHANGED <<keyFile, key, alive, state, boot, at, boots, plain, refs>>

(* The owner's delete takes the vault's entries along, an agent's does not.*)
DeletePackage(c) ==
    /\ Up /\ alive /\ at[c] = Idle
    /\ alive' = FALSE
    /\ Go(c, IF c = Admin THEN [pc |-> "cascade"] ELSE Idle)
    /\ UNCHANGED <<keyFile, key, state, vault, boot, writes, boots, secret, plain, refs>>

DeleteForPackage ==
    /\ at[Admin].pc = "cascade"
    /\ vault' = [n \in DOMAIN vault |-> None]
    /\ Go(Admin, Idle)
    /\ UNCHANGED <<keyFile, key, alive, state, boot, writes, boots, secret, plain, refs>>

-----------------------------------------------------------------------------
(* ResolveState: what a script started now would read for the secret key.  *)
Resolved ==
    IF state.secret = Ref THEN vault["r"]
    ELSE IF vault["s"] # None THEN vault["s"] ELSE state.secret

SecretsNext ==
    \/ LoadKey \/ CreateKey \/ MigrateSets \/ Restart
    \/ \E ok \in BOOLEAN : WriteKey(ok) \/ MigrateRewrites(ok)
    \/ \E c \in Scripts : \/ Execute(c) \/ Return(c) \/ CtxSetPlain(c) \/ CtxSetSecret(c)
                          \/ CtxSetRef(c) \/ CtxPersists(c)
    \/ \E b \in BOOLEAN : PutState(b)
    \/ SplitStateSecrets \/ PutWrites \/ DeleteForPackage
    \/ \E n \in {"s", "r"} : PutSecret(n)
    \/ \E c \in Scripts \cup {Admin} : DeletePackage(c)

SecretsSpec == SecretsInit /\ [][SecretsNext]_secretVars

-----------------------------------------------------------------------------
(* The secret a script would read is the one last given, whatever stale    *)
(* views are written over the state and wherever the migration stops.  (A  *)
(* stored reference can be overwritten by a stale view: not claimed.)      *)
SecretSurvives == alive /\ ~refs => Resolved = secret

(* The same for the plain key.  Violated: the whole view a script or the   *)
(* admin took earlier goes back.                                           *)
PlainSurvives == alive => state.plain = plain

(* Deleting a package leaves nothing of it in the vault ("secrets cascade  *)
(* with the package -- nothing orphaned in the vault").  Violated by the   *)
(* api tool's delete and by a script that writes after the delete.         *)
NothingOrphaned ==
    ~alive /\ at[Admin] = Idle => \A n \in DOMAIN vault : vault[n] = None

(* The key file is never left incomplete ("never leave a partial key").    *)
(* Violated by a crash between its creation and its writing; every later   *)
(* boot then runs with the vault disabled.                                 *)
KeyFileWhole == boot # "keyWrite" => keyFile # "partial"

-----------------------------------------------------------------------------
(***************************************************************************)
(* The key/value configuration of one scope (an agent, the channels, the   *)
(* kernel) with its cache, its vaulted credentials and the changes that    *)
(* arrive from a peer, from AgentConfigStore.cpp, the agent part of        *)
(* SecretsVault.cpp and the boot of AgentKernel.cpp.                       *)
(*                                                                         *)
(* One credential key and one plain key.  The cache has no lock; each      *)
(* statement and each access to it is a step.                              *)
(***************************************************************************)

CONSTANTS
    Callers,        \* threads using the store
    MaxSyncs        \* bound: rows applied from the peer

VARIABLES
    row,            \* key -> value, None, or Ref to the vault
    entry,          \* the credential's entry in the vault
    cache,          \* key -> value for the keys it holds, or Absent
    warmed,
    syncs,
    acked,          \* ghost: the credential when the last call on it returned
    tried           \* ghost: what calls since then were writing

cfgVars == <<row, entry, cache, warmed, at, writes, syncs, boots, acked, tried>>

Keys == {"token", "name"}
Cred == "token"
Absent == [none |-> TRUE]
Boot == "boot"          \* the thread that starts the kernel

IsCredentialKey(k) == k = Cred

(* A database from before the vault may hold the credential in the row.    *)
ConfigInit ==
    /\ \E v \in {None, 1} : row = [k \in Keys |-> IF k = Cred THEN v ELSE 1] /\ acked = v
    /\ entry = None /\ cache = Absent /\ warmed = FALSE
    /\ at = [c \in Callers \cup {Boot} |-> IF c = Boot THEN [pc |-> "migrate"] ELSE Idle]
    /\ writes = 1 /\ syncs = 0 /\ boots = 0 /\ tried = {}

ConfigUp == at[Boot] = Idle

-----------------------------------------------------------------------------
MigrateVaults_RowFirst ==
    LET literal == row[Cred] \notin {None, Ref}
    IN /\ at[Boot].pc = "migrate"
       /\ row' = IF literal THEN [row EXCEPT ![Cred] = Ref] ELSE row
       /\ Go(Boot, [pc |-> IF literal THEN "ref" ELSE "idle"])
       /\ UNCHANGED <<entry, cache, warmed, writes, syncs, boots, acked, tried>>

(* MigrateAgentConfigSecrets: the vault, then the row.                     *)
MigrateVaults ==
    LET literal == row[Cred] \notin {None, Ref}
    IN /\ at[Boot].pc = "migrate"
       /\ entry' = IF literal THEN row[Cred] ELSE entry
       /\ Go(Boot, [pc |-> IF literal THEN "ref" ELSE "idle"])
       /\ UNCHANGED <<row, cache, warmed, writes, syncs, boots, acked, tried>>

MigrateRow ==
    /\ at[Boot].pc = "ref"
    /\ row' = [row EXCEPT ![Cred] = Ref]
    /\ Go(Boot, Idle)
    /\ UNCHANGED <<entry, cache, warmed, writes, syncs, boots, acked, tried>>

ConfigRestart ==
    /\ boots < MaxBoots /\ boots' = boots + 1
    /\ cache' = Absent /\ warmed' = FALSE
    /\ at' = [c \in DOMAIN at |-> IF c = Boot THEN [pc |-> "migrate"] ELSE Idle]
    /\ UNCHANGED <<row, entry, writes, syncs, acked, tried>>

-----------------------------------------------------------------------------
(* Set.  A credential goes to the vault first and the row gets a reference.*)
Set(c, k) ==
    /\ ConfigUp /\ at[c] = Idle /\ writes < MaxWrites /\ writes' = writes + 1
    /\ Go(c, [pc |-> IF IsCredentialKey(k) THEN "vault" ELSE "row", key |-> k,
              value |-> writes + 1])
    /\ tried' = IF k = Cred THEN tried \cup {writes + 1} ELSE tried
    /\ UNCHANGED <<row, entry, cache, warmed, syncs, boots, acked>>

VaultAgentValue(c) ==
    /\ at[c].pc = "vault"
    /\ entry' = at[c].value
    /\ Go(c, [at[c] EXCEPT !.pc = "row"])
    /\ UNCHANGED <<row, cache, warmed, writes, syncs, boots, acked, tried>>

Stored(c) == IF IsCredentialKey(at[c].key) THEN Ref ELSE at[c].value

SetRow(c) ==
    /\ at[c].pc = "row"
    /\ row' = [row EXCEPT ![at[c].key] = Stored(c)]
    /\ Go(c, [at[c] EXCEPT !.pc = "cache"])
    /\ UNCHANGED <<entry, cache, warmed, writes, syncs, boots, acked, tried>>

(* The cache is marked complete even when this key is all it holds.        *)
SetCache(c) ==
    LET k == at[c].key
        old == IF cache = Absent THEN << >> ELSE cache
    IN /\ at[c].pc = "cache"
       /\ cache' = [j \in DOMAIN old \cup {k} |-> IF j = k THEN Stored(c) ELSE old[j]]
       /\ warmed' = TRUE
       /\ Go(c, Idle)
       /\ acked' = IF k = Cred THEN at[c].value ELSE acked
       /\ tried' = IF k = Cred THEN {} ELSE tried
       /\ UNCHANGED <<row, entry, writes, syncs, boots>>

(* Delete, and DeleteByPrefix for one row: the vault's entry first.        *)
Delete(c, k) ==
    /\ ConfigUp /\ at[c] = Idle
    /\ entry' = IF row[k] = Ref THEN None ELSE entry
    /\ tried' = IF k = Cred THEN tried \cup {None} ELSE tried
    /\ Go(c, [pc |-> "delete", key |-> k])
    /\ UNCHANGED <<row, cache, warmed, writes, syncs, boots, acked>>

DeleteRow(c) ==
    /\ at[c].pc = "delete"
    /\ row' = [row EXCEPT ![at[c].key] = None]
    /\ Go(c, [at[c] EXCEPT !.pc = "erase"])
    /\ UNCHANGED <<entry, cache, warmed, writes, syncs, boots, acked, tried>>

DeleteCached(c) ==
    /\ at[c].pc = "erase"
    /\ cache' = IF cache = Absent THEN Absent ELSE [j \in DOMAIN cache \ {at[c].key} |-> cache[j]]
    /\ acked' = IF at[c].key = Cred THEN None ELSE acked
    /\ tried' = IF at[c].key = Cred THEN {} ELSE tried
    /\ Go(c, Idle)
    /\ UNCHANGED <<row, entry, warmed, writes, syncs, boots>>

-----------------------------------------------------------------------------
(* GetAll, ListKeys, WarmCache: read the rows, then fill the cache.        *)
GetAll(c) ==
    /\ ConfigUp /\ at[c] = Idle /\ ~warmed
    /\ Go(c, [pc |-> "fill", rows |-> [k \in {j \in Keys : row[j] # None} |-> row[k]]])
    /\ UNCHANGED <<row, entry, cache, warmed, writes, syncs, boots, acked, tried>>

WarmCache(c) ==
    /\ at[c].pc = "fill"
    /\ cache' = at[c].rows /\ warmed' = TRUE
    /\ Go(c, Idle)
    /\ UNCHANGED <<row, entry, writes, syncs, boots, acked, tried>>

(* GetRaw: a slice in the cache is taken as complete.                      *)
GetRaw(k) == IF cache = Absent THEN row[k]
             ELSE IF k \in DOMAIN cache THEN cache[k] ELSE None

Get(k) == IF GetRaw(k) = Ref THEN entry ELSE GetRaw(k)

(* The sync thread applies a peer's row, then drops the slice.             *)
SyncApplies ==
    /\ ConfigUp /\ syncs < MaxSyncs /\ syncs' = syncs + 1
    /\ writes < MaxWrites /\ writes' = writes + 1
    /\ row' = [row EXCEPT !["name"] = writes + 1]
    /\ Go(Boot, [pc |-> "applied"])
    /\ UNCHANGED <<entry, cache, warmed, boots, acked, tried>>

OnSyncApplied ==
    /\ at[Boot].pc = "applied"
    /\ cache' = Absent /\ warmed' = FALSE
    /\ Go(Boot, Idle)
    /\ UNCHANGED <<row, entry, writes, syncs, boots, acked, tried>>

ConfigNext ==
    \/ MigrateVaults \/ MigrateRow \/ ConfigRestart \/ SyncApplies \/ OnSyncApplied
    \/ \E c \in Callers : \/ \E k \in Keys : Set(c, k) \/ Delete(c, k)
                          \/ VaultAgentValue(c) \/ SetRow(c) \/ SetCache(c)
                          \/ DeleteRow(c) \/ DeleteCached(c) \/ GetAll(c) \/ WarmCache(c)

ConfigSpec == ConfigInit /\ [][ConfigNext]_cfgVars

-----------------------------------------------------------------------------
(* What the database and the vault hold together for the credential is the *)
(* value last acknowledged or one that was being written: a restart at any *)
(* point of a set, a delete or the boot's migration never leaves a         *)
(* reference to nothing or an older value.                                 *)
CredentialKept ==
    (IF row[Cred] = Ref THEN entry ELSE row[Cred]) \in {acked} \cup tried

(* With nothing in flight a read tells what is stored.  Violated: a sync   *)
(* drops the slice, the next Set of one key makes a slice of that key      *)
(* alone and marks it complete; every other key reads as empty.            *)
ReadsWhatIsStored ==
    (\A c \in DOMAIN at : at[c] = Idle) =>
        \A k \in Keys : GetRaw(k) = row[k]
=============================================================================

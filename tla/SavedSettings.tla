---------------------------- MODULE SavedSettings ----------------------------
(***************************************************************************)
(* What the admin page saves: settings in files, the providers in the      *)
(* replicated store, and the tokens of an OAuth login. Each has a          *)
(* specification of its own; req, edits, crashes and their bounds are of   *)
(* whichever runs.                                                         *)
(***************************************************************************)
EXTENDS Naturals, Sequences, SequencesExt, FiniteSets

(***************************************************************************)
(* Two settings files of the admin server, each rewritten whole.           *)
(*                                                                         *)
(* The constitution (ConstitutionManager.cpp): a patch of the adaptation   *)
(* layer is merged, logged and saved in one critical section, and undone   *)
(* in memory when the save fails.  The runtime configuration of the agent  *)
(* (AdminServer.cpp and its PATCH and PUT routes): the configuration is    *)
(* copied under m_agentMutex, patched, saved and set with no lock held in  *)
(* between.  The routes run on the one thread of the HTTP server.          *)
(*                                                                         *)
(* The adaptation is a function from setting to value, a log entry holds   *)
(* the state before and after.  A configuration is [model, reason]: the    *)
(* numbers of the last edits of the part that is saved and of the          *)
(* reasoning settings.                                                     *)
(***************************************************************************)

CONSTANTS
    Keys, Values,   \* of the adaptation; Default is the value of a fresh one
    Default,
    MaxPatches, MaxEdits, MaxCrashes

VARIABLES
    up,
    adaptation, audit,\* the constitution
    cFile,          \* its file: [whole, there, adaptation, audit]
    config,         \* m_agentConfig
    aFile,          \* its file: [whole, there, model]
    req, told, edits, crashes, patches

setVars == <<up, adaptation, audit, cFile, config, aFile, req, told, edits, crashes, patches>>

Free == [pc |-> "free"]
Defaults == [k \in Keys |-> Default]
NoFile == [whole |-> TRUE, there |-> FALSE, adaptation |-> Defaults, audit |-> <<>>]

SetInit ==
    /\ up = TRUE /\ adaptation = Defaults /\ audit = <<>> /\ cFile = NoFile
    /\ config = [model |-> 0, reason |-> 0]
    /\ aFile = [whole |-> TRUE, there |-> FALSE, model |-> 0]
    /\ req = Free /\ told = {} /\ edits = 0 /\ crashes = 0 /\ patches = 0

-----------------------------------------------------------------------------
(* MergeJsonObject of a flat patch.                                        *)
MergeJsonObject(patch, target) == [k \in Keys |-> IF k \in DOMAIN patch THEN patch[k] ELSE target[k]]

(* PatchAdaptation with its save, under m_constitutionMutex: the save      *)
(* succeeds, cannot open the file, or breaks off in the middle.            *)
Entry(patch) == [before |-> adaptation, after |-> MergeJsonObject(patch, adaptation)]

PatchAdaptation(patch) ==
    /\ up /\ patches < MaxPatches /\ patches' = patches + 1
    /\ adaptation' = Entry(patch).after /\ audit' = Append(audit, Entry(patch))
    /\ cFile' = [whole |-> TRUE, there |-> TRUE, adaptation |-> adaptation', audit |-> audit']
    /\ UNCHANGED <<up, config, aFile, req, told, edits, crashes>>

Undone_KeepsLog(patch) == adaptation' = adaptation /\ audit' = Append(audit, Entry(patch))
Undone(patch) == adaptation' = adaptation /\ audit' = audit

PatchFails(patch, broken) ==
    /\ up /\ patches < MaxPatches /\ patches' = patches + 1 /\ Undone(patch)
    /\ cFile' = IF broken THEN [cFile EXCEPT !.there = TRUE, !.whole = FALSE] ELSE cFile
    /\ UNCHANGED <<up, config, aFile, req, told, edits, crashes>>

-----------------------------------------------------------------------------
(* PATCH /agent and PUT /agent/model: copy and patch, restart the client   *)
(* when the model changed, save, set.                                      *)
ApplyRuntimeConfigPatch(c, kind) ==
    IF kind = "model" THEN [c EXCEPT !.model = edits + 1] ELSE [c EXCEPT !.reason = edits + 1]

EditReads(kind) ==
    /\ up /\ req = Free /\ edits < MaxEdits /\ edits' = edits + 1
    /\ req' = [pc |-> "save", kind |-> kind, proposed |-> ApplyRuntimeConfigPatch(config, kind),
               n |-> edits + 1]
    /\ UNCHANGED <<up, adaptation, audit, cFile, config, aFile, told, crashes, patches>>

(* SaveAgentConfigToDisk: the reasoning settings are not among what it     *)
(* writes.                                                                 *)
SaveAgentConfigToDisk ==
    /\ up /\ req.pc = "save"
    /\ aFile' = [whole |-> TRUE, there |-> TRUE, model |-> req.proposed.model]
    /\ req' = [req EXCEPT !.pc = "set"]
    /\ UNCHANGED <<up, adaptation, audit, cFile, config, told, edits, crashes, patches>>

SaveFails ==
    /\ up /\ req.pc = "save" /\ req' = Free
    /\ UNCHANGED <<up, adaptation, audit, cFile, config, aFile, told, edits, crashes, patches>>

EditSets ==
    /\ up /\ req.pc = "set" /\ config' = req.proposed
    /\ told' = {t \in told : t.kind # req.kind} \cup {[kind |-> req.kind, n |-> req.n]}
    /\ req' = Free
    /\ UNCHANGED <<up, adaptation, audit, cFile, aFile, edits, crashes, patches>>

-----------------------------------------------------------------------------
Crash ==
    /\ up /\ crashes < MaxCrashes /\ crashes' = crashes + 1 /\ up' = FALSE
    /\ req' = Free
    /\ UNCHANGED <<adaptation, audit, cFile, config, aFile, told, edits, patches>>

(* LoadFromDisk and LoadAgentConfigFromDisk: defaults first, then what the *)
(* files hold; a file that does not parse stops the start.                 *)
LoadConstitution_Plain ==
    IF cFile.there THEN adaptation' = Defaults /\ audit' = cFile.audit
    ELSE adaptation' = Defaults /\ audit' = <<>>

LoadConstitution ==
    IF cFile.there THEN adaptation' = MergeJsonObject(cFile.adaptation, Defaults) /\ audit' = cFile.audit
    ELSE adaptation' = Defaults /\ audit' = <<>>

LoadAgentConfigFromDisk ==
    config' = [model |-> IF aFile.there THEN aFile.model ELSE 0, reason |-> 0]

Start ==
    /\ ~up /\ cFile.whole /\ aFile.whole
    /\ up' = TRUE /\ LoadConstitution /\ LoadAgentConfigFromDisk
    /\ UNCHANGED <<cFile, aFile, req, told, edits, crashes, patches>>

SetNext ==
    \/ \E k \in Keys, v \in Values : PatchAdaptation([x \in {k} |-> v])
    \/ \E k \in Keys, v \in Values, broken \in BOOLEAN : PatchFails([x \in {k} |-> v], broken)
    \/ SaveAgentConfigToDisk \/ SaveFails \/ EditSets
    \/ \E kind \in {"model", "reason"} : EditReads(kind)
    \/ Crash \/ Start

SetSpec == SetInit /\ [][SetNext]_setVars

-----------------------------------------------------------------------------
(* The log of the constitution explains its state: it starts from the      *)
(* defaults, each entry takes up where the one before ended, and the last  *)
(* one ends at the adaptation in force, across failed saves and restarts.  *)
AuditExplains ==
    up => /\ \A n \in DOMAIN audit : audit[n].before = IF n = 1 THEN Defaults ELSE audit[n - 1].after
          /\ adaptation = IF audit = <<>> THEN Defaults ELSE Last(audit).after

(* An edit of the configuration answered with success is in force until    *)
(* another of the same kind, across restarts.  Violated: the reasoning     *)
(* settings are not among what is saved (AdminServer.cpp:1241-1255).       *)
EditInForce ==
    up => \A t \in told : config[t.kind] >= t.n

(* The edits of the part that is saved are in force, across restarts.      *)
SavedInForce == up => \A t \in told : t.kind = "model" => config.model >= t.n

(* The constitution can be read at the next start.  Violated by a save     *)
(* that breaks off: memory is restored, the file is not.                   *)
FileWhole == cFile.whole

-----------------------------------------------------------------------------
(***************************************************************************)
(* The configuration of the LLM providers: ProviderManager.cpp and the     *)
(* provider routes of the admin server, with the replicated config store   *)
(* attached.  A provider is stored as up to three rows (its configuration, *)
(* its API key, its auth blob); memory is rebuilt from the rows when a     *)
(* peer's change has been applied.  The configuration is a version and the *)
(* context window of the default model, 0 where none is known.             *)
(***************************************************************************)

CONSTANTS
    Ids,
    Legacy,         \* the providers of the providers.json left from before
    Manual, Found,  \* a window set by the administrator, one discovered
    MaxRemote, MaxBoots

VARIABLES
    rows,           \* [cfg, key, auth: id -> row], None where there is none
    defRow, mem, def,
    probe,          \* a connectivity test or a capability refresh under way
    sync,           \* the sync thread: "idle", "applied" or the rows it has read
    remotes, boots

provVars == <<rows, defRow, mem, def, req, probe, sync, edits, remotes, boots>>

None == [ver |-> 0]
NoId == "none"
Providers == {i \in Ids : mem[i] # None}
OwnersOf(r) == {i \in Ids : r.cfg[i] # None \/ r.key[i] # 0 \/ r.auth[i] # 0}
HasCfg(r) == \E i \in Ids : r.cfg[i] # None
Up == boots % 2 = 1

NoRows == [cfg |-> [i \in Ids |-> None], key |-> [i \in Ids |-> 0], auth |-> [i \in Ids |-> 0]]

ProvInit ==
    /\ rows = NoRows /\ defRow = NoId
    /\ mem = [i \in Ids |-> None] /\ def = NoId
    /\ req = {} /\ probe = {} /\ sync = [pc |-> "idle"]
    /\ edits = 0 /\ remotes = 0 /\ boots = 0

-----------------------------------------------------------------------------
(* SaveProviders: every provider's rows, the default, and then every row   *)
(* whose provider is not in memory goes, whichever of the three it is.     *)
Reconcile_PlainOnly(r) ==
    [r EXCEPT !.cfg = [i \in Ids |-> IF i \in Providers THEN @[i] ELSE None],
              !.key = [i \in Ids |-> IF i \in Providers \/ r.cfg[i] = None THEN @[i] ELSE 0],
              !.auth = [i \in Ids |-> IF i \in Providers \/ r.cfg[i] = None THEN @[i] ELSE 0]]

Reconcile(r) ==
    [cfg  |-> [i \in Ids |-> IF i \in Providers THEN r.cfg[i] ELSE None],
     key  |-> [i \in Ids |-> IF i \in Providers THEN r.key[i] ELSE 0],
     auth |-> [i \in Ids |-> IF i \in Providers THEN r.auth[i] ELSE 0]]

Upserted(m) ==
    [rows EXCEPT
       !.cfg = [i \in Ids |-> IF m[i] # None THEN [ver |-> m[i].ver, type |-> m[i].type,
                                                   win |-> m[i].win] ELSE @[i]],
       !.key = [i \in Ids |-> IF m[i] = None THEN @[i] ELSE IF m[i].type = "api_key" THEN m[i].key ELSE 0]]

SaveProviders ==
    /\ rows' = Reconcile(Upserted(mem))
    /\ defRow' = def

(* LoadProviders from rows: the health of survivors is kept, a default     *)
(* that no row backs is replaced.                                          *)
FromRows(r, old) ==
    [i \in Ids |-> IF r.cfg[i] = None THEN None
                   ELSE [ver |-> r.cfg[i].ver, type |-> r.cfg[i].type, win |-> r.cfg[i].win,
                         key |-> IF r.cfg[i].type = "api_key" THEN r.key[i] ELSE 0,
                         status |-> IF old[i] = None THEN "untested" ELSE old[i].status]]

Loaded(r, d, old) ==
    LET m == FromRows(r, old)
        ids == {i \in Ids : m[i] # None}
    IN /\ mem' = m
       /\ def' \in IF d \in ids THEN {d} ELSE IF ids = {} THEN {d} ELSE ids

LegacyState == [ver |-> 1, type |-> "api_key", win |-> 0, key |-> 1, status |-> "untested"]
Imported == [i \in Ids |-> IF i \in Legacy THEN LegacyState ELSE None]

(* An empty store takes the legacy file, and is written back.              *)
Import ==
    /\ mem' = Imported
    /\ def' \in IF Legacy = {} THEN {NoId} ELSE Legacy
    /\ rows' = [NoRows EXCEPT !.cfg = [i \in Ids |-> IF i \in Legacy THEN [ver |-> 1, type |-> "api_key", win |-> 0] ELSE None],
                              !.key = [i \in Ids |-> IF i \in Legacy THEN 1 ELSE 0]]
    /\ defRow' = def'

Boot ==
    /\ ~Up /\ boots' = boots + 1
    /\ IF HasCfg(rows) THEN Loaded(rows, defRow, [i \in Ids |-> None]) /\ UNCHANGED <<rows, defRow>>
           ELSE Import
    /\ UNCHANGED <<req, probe, sync, edits, remotes>>

Shutdown ==
    /\ Up /\ boots < 2 * MaxBoots /\ boots' = boots + 1
    /\ req' = {} /\ probe' = {} /\ sync' = [pc |-> "idle"]
    /\ UNCHANGED <<rows, defRow, mem, def, edits, remotes>>

-----------------------------------------------------------------------------
(* The admin's requests: memory first, under the lock, then the save.      *)
Request(kind, i) ==
    /\ Up /\ req = {} /\ edits < MaxEdits /\ edits' = edits + 1
    /\ req' = {[kind |-> kind, id |-> i, ver |-> edits + 2]}

CreateProvider(i, type) ==
    /\ Request("create", i) /\ mem[i] = None
    /\ mem' = [mem EXCEPT ![i] = [ver |-> edits + 2, type |-> type, win |-> 0, key |-> edits + 2,
                                  status |-> "untested"]]
    /\ def' = IF def = NoId THEN i ELSE def
    /\ UNCHANGED <<rows, defRow, probe, sync, remotes, boots>>

UpdateProvider(i, win) ==
    /\ Request("update", i) /\ mem[i] # None
    /\ mem' = [mem EXCEPT ![i] = [@ EXCEPT !.ver = edits + 2, !.win = win, !.status = "untested"]]
    /\ UNCHANGED <<rows, defRow, def, probe, sync, remotes, boots>>

DeleteProvider(i) ==
    /\ Request("delete", i) /\ mem[i] # None
    /\ mem' = [mem EXCEPT ![i] = None]
    /\ def' \in IF def # i THEN {def} ELSE IF Providers = {i} THEN {NoId} ELSE Providers \ {i}
    /\ UNCHANGED <<rows, defRow, probe, sync, remotes, boots>>

SetDefaultProviderId(i) ==
    /\ Request("default", i) /\ mem[i] # None
    /\ def' = i
    /\ UNCHANGED <<rows, defRow, mem, probe, sync, remotes, boots>>

RequestSaves ==
    /\ Up /\ req # {} /\ req' = {}
    /\ SaveProviders
    /\ UNCHANGED <<mem, def, probe, sync, edits, remotes, boots>>

(* A finished OAuth login stores the blob, whatever became of the provider.*)
SaveAuthProvider(i) ==
    /\ Up /\ rows.auth[i] = 0
    /\ rows' = [rows EXCEPT !.auth[i] = 1]
    /\ UNCHANGED <<defRow, mem, def, req, probe, sync, edits, remotes, boots>>

-----------------------------------------------------------------------------
(* A connectivity test, or a fetch of the capabilities, reads the provider,*)
(* takes its time, and writes its result to whatever is there then.        *)
ProbeReads(i, kind) ==
    /\ Up /\ probe = {} /\ mem[i] # None
    /\ probe' = {[id |-> i, kind |-> kind, ver |-> mem[i].ver, win |-> mem[i].win]}
    /\ UNCHANGED <<rows, defRow, mem, def, req, sync, edits, remotes, boots>>

UpdateProviderStatus(ok) ==
    /\ Up
    /\ \E p \in probe :
         /\ p.kind = "test"
         /\ mem' = IF mem[p.id] = None THEN mem
                   ELSE [mem EXCEPT ![p.id].status = IF ok THEN "available" ELSE "error"]
    /\ probe' = {}
    /\ UNCHANGED <<rows, defRow, def, req, sync, edits, remotes, boots>>

(* The discovered window only fills a gap, judged when it is written.      *)
MayFill_AsRead(p) == p.win = 0

MayFill(p) == mem[p.id].win = 0

UpdateProviderCapabilities ==
    /\ Up /\ \E p \in probe : /\ p.kind = "capabilities"
                              /\ mem' = IF mem[p.id] # None /\ MayFill(p)
                                     THEN [mem EXCEPT ![p.id].win = Found] ELSE mem
    /\ probe' = {}
    /\ UNCHANGED <<rows, defRow, def, req, sync, edits, remotes, boots>>

-----------------------------------------------------------------------------
(* The sync thread applies one row a peer has changed, then rebuilds the   *)
(* memory, from rows it reads before it takes the lock.                    *)
ApplyCfg(i, gone) ==
    /\ Up /\ sync.pc = "idle" /\ remotes < MaxRemote /\ remotes' = remotes + 1
    /\ rows' = [rows EXCEPT !.cfg[i] = IF gone THEN None ELSE [ver |-> 100 + remotes, type |-> "api_key", win |-> 0]]
    /\ sync' = [pc |-> "applied"]
    /\ UNCHANGED <<defRow, mem, def, req, probe, edits, boots>>

ApplyKey(i, gone) ==
    /\ Up /\ sync.pc = "idle" /\ remotes < MaxRemote /\ remotes' = remotes + 1
    /\ rows' = [rows EXCEPT !.key[i] = IF gone THEN 0 ELSE 100 + remotes]
    /\ sync' = [pc |-> "applied"]
    /\ UNCHANGED <<defRow, mem, def, req, probe, edits, boots>>

ReloadReads ==
    /\ Up /\ sync.pc = "applied"
    /\ sync' = [pc |-> "read", rows |-> rows, def |-> defRow]
    /\ UNCHANGED <<rows, defRow, mem, def, req, probe, edits, remotes, boots>>

ReloadFromStore ==
    /\ Up /\ sync.pc = "read" /\ sync' = [pc |-> "idle"]
    /\ IF HasCfg(sync.rows) THEN Loaded(sync.rows, sync.def, mem) /\ UNCHANGED <<rows, defRow>>
           ELSE Import
    /\ UNCHANGED <<req, probe, edits, remotes, boots>>

ProvNext ==
    \/ Boot \/ Shutdown \/ RequestSaves \/ UpdateProviderCapabilities \/ ReloadReads
    \/ ReloadFromStore
    \/ \E b \in BOOLEAN : UpdateProviderStatus(b) \/ \E i \in Ids : ApplyCfg(i, b) \/ ApplyKey(i, b)
    \/ \E i \in Ids : \/ DeleteProvider(i) \/ SetDefaultProviderId(i) \/ SaveAuthProvider(i)
                      \/ \E t \in {"api_key", "oauth"} : CreateProvider(i, t)
                      \/ \E w \in {0, Manual} : UpdateProvider(i, w)
                      \/ \E k \in {"test", "capabilities"} : ProbeReads(i, k)

ProvSpec == ProvInit /\ [][ProvNext]_provVars

-----------------------------------------------------------------------------
(* A save leaves no row of a provider that is not in memory, the key and   *)
(* the auth blob of a provider whose configuration never arrived included  *)
(* (ProviderManager.cpp: such a row "used to strand forever").             *)
Reconciles == RequestSaves => OwnersOf(rows') \subseteq Providers
SaveReconciles == [][Reconciles]_provVars

(* A discovered context window never replaces one the administrator set,   *)
(* even while the discovery was under way.                                 *)
KeepsManual ==
    UpdateProviderCapabilities => \A i \in Ids : mem[i] # None /\ mem[i].win = Manual
        => mem'[i].win = Manual
ManualKept == [][KeepsManual]_provVars

(* The default provider is one there is.  Requests spell an id as it is    *)
(* stored; a DELETE that spells it in another case leaves the default on a *)
(* provider that is gone (the lookup ignores case, the comparison does not)*)
DefaultExists == Up /\ Providers # {} => def \in Providers

(* The legacy file is imported once and ignored from then on               *)
(* (ProviderManager.h).  Violated: deleting the last provider empties the  *)
(* store, and the next start takes the file again.                         *)
ImportedOnce == [][Boot /\ edits > 0 /\ ~HasCfg(rows) => \A i \in Ids : mem'[i] = None]_provVars

(* What a request has changed is stored when its save is done.  Violated   *)
(* by a reload between the two.                                            *)
ChangeIsSaved ==
    [][\A r \in req : RequestSaves =>
         CASE r.kind = "delete" -> rows'.cfg[r.id] = None
           [] r.kind = "default" -> TRUE
           [] OTHER -> rows'.cfg[r.id] # None /\ rows'.cfg[r.id].ver = r.ver]_provVars

(* A row a peer has set is not removed by a save that never saw it.        *)
(* Violated before the reload, and by a key whose configuration is still   *)
(* on its way.                                                             *)
RemoteKept ==
    [][\A i \in Ids : RequestSaves => /\ rows.cfg[i].ver >= 100 => rows'.cfg[i] # None
                                      /\ rows.key[i] >= 100 => rows'.key[i] # 0]_provVars

(* "available" is a statement about the present configuration.  Violated   *)
(* by a test that read an earlier one.                                     *)
StatusIsCurrent ==
    [][\A p \in probe : UpdateProviderStatus(TRUE) /\ mem[p.id] # None => mem[p.id].ver = p.ver]_provVars

-----------------------------------------------------------------------------
(***************************************************************************)
(* Logging in to a provider with OAuth and keeping its tokens alive:       *)
(* OAuthManager.cpp (the browser flow of a provider, the flow of a Twitter *)
(* channel, the device flow), the routes that save what a login returns    *)
(* (ProviderManager.cpp), and OpenAICodexProvider.cpp, which reads the     *)
(* tokens from its auth file and refreshes them.                           *)
(*                                                                         *)
(* A flow is a number: its state, verifier and challenge.  The             *)
(* authorisation server takes a code once, and only with its own verifier; *)
(* it exchanges a refresh token for the next of its login and takes none   *)
(* twice.  A token is [login, gen].                                        *)
(***************************************************************************)

CONSTANTS
    Admins, Chains,
    InStore,        \* the replicated config store is attached
    MaxFlows, MaxRefresh

VARIABLES
    flow,           \* the pending browser flow of the provider, 0: none
    twitter,        \* the pending flow of the Twitter channel, 0: none
    flows,          \* flows started so far
    old,            \* flows whose time is up
    codes,          \* authorisation codes not yet presented
    burned,         \* codes presented with another flow's verifier
    admin,          \* admin -> request under way
    live,           \* refresh tokens the server will take
    file, row,      \* the token in the auth file and in the store, NoToken: none
    chain,          \* chain -> the provider object it uses
    refreshes

oauthVars == <<flow, twitter, flows, old, codes, burned, admin, live, file, row, chain, refreshes,
               crashes>>

NoToken == [login |-> 0, gen |-> 0]
IdleAdmin == [pc |-> "idle"]
NoChain == [pc |-> "idle"]

OauthInit ==
    /\ flow = 0 /\ twitter = 0 /\ flows = 0 /\ old = {} /\ codes = {} /\ burned = {}
    /\ admin = [a \in Admins |-> IdleAdmin]
    /\ live = {} /\ file = NoToken /\ row = NoToken
    /\ chain = [c \in Chains |-> NoChain] /\ refreshes = 0 /\ crashes = 0

-----------------------------------------------------------------------------
(* Starting a flow drops the expired ones and takes the place of the last. *)
StartBrowserFlow(a) ==
    /\ admin[a] = IdleAdmin /\ flows < MaxFlows /\ flows' = flows + 1
    /\ flow' = flows + 1 /\ twitter' = IF twitter \in old THEN 0 ELSE twitter
    /\ UNCHANGED <<old, codes, burned, admin, live, file, row, chain, refreshes, crashes>>

StartTwitterFlow(a) ==
    /\ admin[a] = IdleAdmin /\ flows < MaxFlows /\ flows' = flows + 1
    /\ twitter' = flows + 1 /\ flow' = IF flow \in old THEN 0 ELSE flow
    /\ UNCHANGED <<old, codes, burned, admin, live, file, row, chain, refreshes, crashes>>

Expire(n) ==
    /\ n \in 1 .. flows \ old /\ old' = old \cup {n}
    /\ UNCHANGED <<flow, twitter, flows, codes, burned, admin, live, file, row, chain, refreshes,
                   crashes>>

Presented == {admin[a].code : a \in {b \in Admins : admin[b] # IdleAdmin}}

(* The user agrees: the server issues the code of that flow, which comes   *)
(* back with the flow's state.                                             *)
Authorize(n) ==
    /\ n \in 1 .. flows /\ n \notin codes \cup Presented
    /\ codes' = codes \cup {n}
    /\ UNCHANGED <<flow, twitter, flows, old, burned, admin, live, file, row, chain, refreshes,
                   crashes>>

(* CompleteOpenAICodexBrowserFlow: the flow is looked up and left in place,*)
(* the state compared, the code exchanged over the network.  (The callback *)
(* of the device page, whose code is of no flow here, carries no state.)   *)
StateMatches_Never(n) == TRUE

StateMatches(n) == n = flow

CompleteReads(a, n) ==
    /\ admin[a] = IdleAdmin /\ n \in codes /\ flow # 0
    /\ IF flow \in old THEN flow' = 0 /\ UNCHANGED admin
       ELSE /\ UNCHANGED flow
            /\ StateMatches(n)
            /\ admin' = [admin EXCEPT ![a] = [pc |-> "exchange", code |-> n, with |-> flow,
                                              kind |-> "browser"]]
    /\ UNCHANGED <<twitter, flows, old, codes, burned, live, file, row, chain, refreshes, crashes>>

(* CompleteTwitterOAuthFlow drops the expired flows and takes its own away *)
(* before it looks at the state.                                           *)
CompleteTwitter(a, n) ==
    /\ admin[a] = IdleAdmin /\ n \in codes /\ twitter # 0
    /\ twitter' = 0 /\ flow' = IF flow \in old THEN 0 ELSE flow
    /\ admin' = IF twitter \in old \/ n # twitter THEN admin
                ELSE [admin EXCEPT ![a] = [pc |-> "exchange", code |-> n, with |-> twitter,
                                           kind |-> "twitter"]]
    /\ UNCHANGED <<flows, old, codes, burned, live, file, row, chain, refreshes, crashes>>

(* The exchange: the network or the server may fail; a code is spent.      *)
Exchange(a, ok) ==
    LET r == admin[a]
    IN /\ r.pc = "exchange"
       /\ IF r.code \in codes /\ r.code = r.with /\ ok
          THEN /\ codes' = codes \ {r.code}
               /\ admin' = [admin EXCEPT ![a] = [r EXCEPT !.pc = IF r.kind = "browser" THEN "clear" ELSE "twitter"]]
               /\ live' = IF r.kind = "browser" THEN live \cup {[login |-> r.code, gen |-> 1]}
                      ELSE live
          ELSE /\ codes' = codes \ {r.code}
               /\ admin' = [admin EXCEPT ![a] = IdleAdmin] /\ UNCHANGED live
       /\ burned' = IF r.code \in codes /\ r.code # r.with THEN burned \cup {r.code} ELSE burned
       /\ UNCHANGED <<flow, twitter, flows, old, file, row, chain, refreshes, crashes>>

(* The device flow returns tokens without a pending flow of this process.  *)
PollDeviceFlow(a) ==
    /\ admin[a] = IdleAdmin /\ flows < MaxFlows /\ flows' = flows + 1
    /\ admin' = [admin EXCEPT ![a] = [pc |-> "save", code |-> flows + 1]]
    /\ live' = live \cup {[login |-> flows + 1, gen |-> 1]}
    /\ UNCHANGED <<flow, twitter, old, codes, burned, file, row, chain, refreshes, crashes>>

ClearBrowserFlow(a) ==
    /\ admin[a].pc = "clear" /\ flow' = 0
    /\ admin' = [admin EXCEPT ![a] = [pc |-> "save", code |-> @.code]]
    /\ UNCHANGED <<twitter, flows, old, codes, burned, live, file, row, chain, refreshes, crashes>>

(* SaveAuthProvider: into the store when there is one, else into the file. *)
SaveAuth(a) ==
    LET t == [login |-> admin[a].code, gen |-> 1]
    IN /\ admin[a].pc = "save" /\ admin' = [admin EXCEPT ![a] = IdleAdmin]
       /\ IF InStore THEN row' = t /\ UNCHANGED file ELSE file' = t /\ UNCHANGED row
       /\ UNCHANGED <<flow, twitter, flows, old, codes, burned, live, chain, refreshes, crashes>>

TwitterTokens(a) ==
    /\ admin[a].pc = "twitter" /\ admin' = [admin EXCEPT ![a] = IdleAdmin]
    /\ UNCHANGED <<flow, twitter, flows, old, codes, burned, live, file, row, chain, refreshes,
                   crashes>>

-----------------------------------------------------------------------------
(* A chain creates its own provider object, which loads the file; an old   *)
(* access token is refreshed before the request.                           *)
LoadTokens(c) ==
    /\ chain[c] = NoChain
    /\ chain' = [chain EXCEPT ![c] = [pc |-> "loaded", token |-> file]]
    /\ UNCHANGED <<flow, twitter, flows, old, codes, burned, admin, live, file, row, refreshes,
                   crashes>>

EnsureTokenValid(c) ==
    /\ chain[c].pc = "loaded"
    /\ chain' = [chain EXCEPT ![c] = NoChain]
    /\ UNCHANGED <<flow, twitter, flows, old, codes, burned, admin, live, file, row, refreshes,
                   crashes>>

Rotated(t) == [t EXCEPT !.gen = @ + 1]

RefreshToken(c) ==
    LET t == chain[c].token
    IN /\ chain[c].pc = "loaded" /\ t # NoToken /\ refreshes < MaxRefresh /\ refreshes' = refreshes + 1
       /\ IF t \in live
          THEN /\ live' = (live \ {t}) \cup {Rotated(t)}
               /\ chain' = [chain EXCEPT ![c] = [pc |-> "persist", token |-> Rotated(t)]]
          ELSE chain' = [chain EXCEPT ![c] = [pc |-> "failed", token |-> t]] /\ UNCHANGED live
       /\ UNCHANGED <<flow, twitter, flows, old, codes, burned, admin, file, row, crashes>>

PersistTokens_Always(c) ==
    /\ chain[c].pc \in {"persist", "failed"}
    /\ file' = chain[c].token
    /\ chain' = [chain EXCEPT ![c] = NoChain]
    /\ UNCHANGED <<flow, twitter, flows, old, codes, burned, admin, live, row, refreshes, crashes>>

PersistTokens(c) ==
    /\ chain[c].pc = "persist"
    /\ file' = chain[c].token
    /\ chain' = [chain EXCEPT ![c] = NoChain]
    /\ UNCHANGED <<flow, twitter, flows, old, codes, burned, admin, live, row, refreshes, crashes>>

RefreshFailed(c) ==
    /\ chain[c].pc = "failed" /\ chain' = [chain EXCEPT ![c] = NoChain]
    /\ UNCHANGED <<flow, twitter, flows, old, codes, burned, admin, live, file, row, refreshes,
                   crashes>>

OauthCrash ==
    /\ crashes < MaxCrashes /\ crashes' = crashes + 1
    /\ flow' = 0 /\ twitter' = 0
    /\ admin' = [a \in Admins |-> IdleAdmin] /\ chain' = [c \in Chains |-> NoChain]
    /\ UNCHANGED <<flows, old, codes, burned, live, file, row, refreshes>>

OauthNext ==
    \/ \E a \in Admins : \/ StartBrowserFlow(a) \/ StartTwitterFlow(a) \/ PollDeviceFlow(a)
                         \/ ClearBrowserFlow(a) \/ SaveAuth(a) \/ TwitterTokens(a)
                         \/ \E n \in 1 .. MaxFlows : CompleteReads(a, n) \/ CompleteTwitter(a, n)
                         \/ \E ok \in BOOLEAN : Exchange(a, ok)
    \/ \E n \in 1 .. MaxFlows : Expire(n) \/ Authorize(n)
    \/ \E c \in Chains : \/ LoadTokens(c) \/ EnsureTokenValid(c) \/ RefreshToken(c)
                         \/ PersistTokens(c) \/ RefreshFailed(c)
    \/ OauthCrash

OauthSpec == OauthInit /\ [][OauthNext]_oauthVars

-----------------------------------------------------------------------------
(* A code is never presented with the verifier of another flow, however    *)
(* often flows are started over while callbacks are on their way.          *)
CodeNotBurned == burned = {}

(* The refresh token in the file is one the server takes, except while a   *)
(* chain holds its successor: chains that refresh at the same time never   *)
(* put a spent one back.                                                   *)
FileTokenLives ==
    crashes = 0 /\ file # NoToken =>
        file \in live \/ \E c \in Chains : chain[c].pc = "persist" /\ chain[c].token.login = file.login

(* The same across a crash.  Violated between the refresh and the write:   *)
(* the only live token is gone and the user must log in again.             *)
TokenSurvivesCrash ==
    file # NoToken => file \in live \/ \E c \in Chains : chain[c].pc = "persist" /\ chain[c].token.login = file.login

(* A completed login clears its own flow.  Violated when another was       *)
(* started during the exchange.                                            *)
ClearsItsOwn == [][\A a \in Admins : ClearBrowserFlow(a) => flow \in {0, admin[a].code}]_oauthVars

(* Once a login is saved, the next chain has a token.  Violated with the   *)
(* store attached: the login goes to the store, the provider reads the     *)
(* file (ProviderManager.cpp: "so every caller is unchanged").             *)
LoginReachesProvider == row # NoToken \/ file # NoToken => file # NoToken

(* A callback that does not belong to the flow leaves it alone.  Violated  *)
(* by the Twitter flow.                                                    *)
WrongStateHarmless == [][\A a \in Admins, n \in 1 .. MaxFlows : CompleteTwitter(a, n) /\ n # twitter => twitter' = twitter]_oauthVars

(* A chain that loaded a good token can refresh it.  Violated by another   *)
(* chain that refreshed it first.                                          *)
NoRefreshFails == \A c \in Chains : chain[c].pc # "failed"
=============================================================================

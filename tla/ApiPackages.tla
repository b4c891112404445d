---------------------------- MODULE ApiPackages ----------------------------
(***************************************************************************)
(* The owner's approval of an API package, from ApiPackageStore.cpp, the   *)
(* gate at the head of ApiRuntime::ExecuteInternal, ApiTool.cpp and the    *)
(* package routes of the admin server.                                     *)
(*                                                                         *)
(* One package name.  A revision of a manifest is a number: its fields are *)
(* in the package's row ("meta"), its commands and connections in rows of  *)
(* their own.  The one admin thread and the prompt chains share a database *)
(* connection, so each sees what the other has written but not committed,  *)
(* and a commit is of everything.  Package state is in SecretsVault.       *)
(***************************************************************************)
EXTENDS Naturals, FiniteSets, TLAPS

CONSTANTS
    Chains,         \* prompt chains calling the api tool
    Revs,           \* revisions of the manifest
    MaxIds,         \* bound: package rows ever created
    MaxActs,        \* bound: installs, approvals and rejections
    MaxBoots        \* bound: restarts

VARIABLES
    pkg,        \* the package's row, or NoPkg
    cmds,       \* id -> revision of its command rows, 0 if there are none
    lastId,
    column,     \* the writes_gated column exists
    tx,         \* what an uncommitted transaction would roll back to, or NoTx
    boot,       \* where EnsureSchema is
    at,         \* chain or admin thread -> where its call is
    acts, boots,
    bound,      \* ghost: <<id, hash>> an owner's act bound
    ran         \* ghost: what ran

pkgVars == <<pkg, cmds, lastId, column, tx, boot, at, acts, boots, bound, ran>>

Admin == "admin"
Callers == Chains \cup {Admin}
NoPkg == [id |-> 0]
NoTx == [open |-> FALSE]
Idle == [pc |-> "idle"]
NoHash == << >>

(* ComputeContentHash today, and the projections older daemons stored.     *)
ComputeContentHash(meta, commands) == <<"v2w", meta, commands>>
ComputeContentHashLegacy(meta, commands) == <<"v1", meta, commands>>
HashOf(row) == ComputeContentHash(row.meta, cmds[row.id])
HashedBefore(proj, r) == <<proj, r, r>>

(* A fresh database, or one written before the approval gate, the second   *)
(* hash or the write gate; an older daemon may have let content drift.     *)
Row(id, meta, status, hash, algo) ==
    [id |-> id, meta |-> meta, status |-> status, chash |-> hash, ahash |-> hash,
     algo |-> algo, enabled |-> FALSE]

Legacy ==
    {Row(1, 1, "", NoHash, "")}
    \cup {Row(1, 1, "approved", HashedBefore("v1", r), "") : r \in Revs}
    \cup {Row(1, 1, "approved", HashedBefore("v2", 1), "v2")}

PackagesInit ==
    /\ \/ pkg = NoPkg /\ lastId = 0 /\ column = TRUE /\ cmds = [i \in 1 .. MaxIds |-> 0]
       \/ pkg \in Legacy /\ lastId = 1 /\ column = FALSE
          /\ cmds = [i \in 1 .. MaxIds |-> IF i = 1 THEN 1 ELSE 0]
    /\ tx = NoTx /\ boot = "columns"
    /\ at = [c \in Callers |-> Idle] /\ acts = 0 /\ boots = 0
    /\ bound = {} /\ ran = {}

-----------------------------------------------------------------------------
(* EnsureSchema, step by step; nothing else runs yet.                      *)
Stamp(status, hash, approved) ==
    [pkg EXCEPT !.status = status, !.chash = hash, !.ahash = approved, !.algo = "v2"]

EnsureSchema ==
    /\ boot = "columns"
    /\ boot' = IF column THEN "gate" ELSE "gateFresh"
    /\ column' = TRUE
    /\ UNCHANGED <<pkg, cmds, lastId, tx, at, acts, boots, bound, ran>>

(* Packages from before the gate are taken as approved.                    *)
MigrateApprovalGate ==
    LET old == pkg # NoPkg /\ pkg.status = ""
    IN /\ boot \in {"gate", "gateFresh"}
       /\ boot' = IF boot = "gate" THEN "hash" ELSE "hashFresh"
       /\ pkg' = IF old THEN Stamp("approved", HashOf(pkg), HashOf(pkg)) ELSE pkg
       /\ bound' = IF old THEN bound \cup {<<pkg.id, HashOf(pkg)>>} ELSE bound
       /\ UNCHANGED <<cmds, lastId, column, tx, at, acts, boots, ran>>

(* A first-generation hash is carried over when the content still has it.  *)
MigrateHashV2 ==
    LET legacy == ComputeContentHashLegacy(pkg.meta, cmds[pkg.id])
        same == pkg.status = "approved" /\ pkg.ahash = legacy
    IN /\ boot \in {"hash", "hashFresh"}
       /\ boot' = IF boot = "hash" THEN "done" ELSE "writes"
       /\ IF pkg = NoPkg \/ pkg.algo = "v2" THEN UNCHANGED <<pkg, bound>>
          ELSE /\ pkg' = IF same THEN Stamp("approved", HashOf(pkg), HashOf(pkg))
                         ELSE IF pkg.status = "approved" THEN Stamp("pending", HashOf(pkg), NoHash)
                         ELSE [pkg EXCEPT !.chash = HashOf(pkg), !.algo = "v2"]
               /\ bound' = IF same THEN bound \cup {<<pkg.id, HashOf(pkg)>>} ELSE bound
       /\ UNCHANGED <<cmds, lastId, column, tx, at, acts, boots, ran>>

(* Only in the boot that added the column.                                 *)
MigrateWritesGateHash ==
    LET approved == pkg # NoPkg /\ pkg.status = "approved"
    IN /\ boot = "writes" /\ boot' = "done"
       /\ pkg' = IF pkg = NoPkg THEN pkg
                 ELSE [pkg EXCEPT !.chash = HashOf(pkg),
                       !.ahash = IF approved THEN HashOf(pkg) ELSE @]
       /\ bound' = IF approved THEN bound \cup {<<pkg.id, HashOf(pkg)>>} ELSE bound
       /\ UNCHANGED <<cmds, lastId, column, tx, at, acts, boots, ran>>

(* A crash rolls the open transaction back.                                *)
Restart ==
    /\ boots < MaxBoots /\ boots' = boots + 1
    /\ IF tx.open THEN pkg' = tx.pkg /\ cmds' = tx.cmds ELSE UNCHANGED <<pkg, cmds>>
    /\ tx' = NoTx /\ boot' = "columns" /\ at' = [c \in Callers |-> Idle]
    /\ UNCHANGED <<lastId, column, acts, bound, ran>>

-----------------------------------------------------------------------------
(* RefreshApproval: reads the row, reads the content, writes what it made  *)
(* of them.                                                                *)
Refreshed(row, h) ==
    LET keep(status) == [status |-> status, chash |-> h, ahash |-> row.ahash]
    IN IF row.status = "approved" /\ row.ahash # h THEN keep("pending")
       ELSE IF row.status = "pending" /\ row.ahash = h THEN keep("approved")
       ELSE IF row.chash # h \/ row.algo # "v2" THEN keep(row.status)
       ELSE [none |-> TRUE]

RefreshedByOwner(row, h) ==
    IF row.status # "approved" \/ row.ahash # h \/ row.chash # h
    THEN [status |-> "approved", chash |-> h, ahash |-> h] ELSE [none |-> TRUE]

Go(c, r) == at' = [at EXCEPT ![c] = r]

RefreshReads(c) ==
    /\ at[c].pc = "refreshRead"
    /\ Go(c, IF pkg.id # at[c].id THEN Idle ELSE [pc |-> "refreshHash", id |-> pkg.id, row |-> pkg])
    /\ UNCHANGED <<pkg, cmds, lastId, column, tx, boot, acts, boots, bound, ran>>

RefreshHashes(c) ==
    LET h == ComputeContentHash(at[c].row.meta, cmds[at[c].id])
        out == IF c = Admin THEN RefreshedByOwner(at[c].row, h) ELSE Refreshed(at[c].row, h)
    IN /\ at[c].pc = "refreshHash"
       /\ Go(c, IF "none" \in DOMAIN out THEN Idle
                ELSE [pc |-> "refreshWrite", id |-> at[c].id, out |-> out])
       /\ bound' = IF c = Admin THEN bound \cup {<<at[c].id, h>>} ELSE bound
       /\ UNCHANGED <<pkg, cmds, lastId, column, tx, boot, acts, boots, ran>>

RefreshWrites(c) ==
    /\ at[c].pc = "refreshWrite"
    /\ pkg' = IF pkg.id # at[c].id THEN pkg
              ELSE Stamp(at[c].out.status, at[c].out.chash, at[c].out.ahash)
    /\ Go(c, Idle)
    /\ UNCHANGED <<cmds, lastId, column, tx, boot, acts, boots, bound, ran>>

RefreshApproval(c) == RefreshReads(c) \/ RefreshHashes(c) \/ RefreshWrites(c)

-----------------------------------------------------------------------------
(* The owner.  InstallFromManifest looks the name up, then writes row and  *)
(* commands in a transaction, then decides the approval.                   *)
Acts == acts < MaxActs /\ acts' = acts + 1

InstallFromManifest(r) ==
    /\ boot = "done" /\ at[Admin] = Idle /\ Acts
    /\ Go(Admin, [pc |-> "meta", rev |-> r, old |-> pkg])
    /\ UNCHANGED <<pkg, cmds, lastId, column, tx, boot, boots, bound, ran>>

(* The prior binding is carried along.  Refused if the row went or came.   *)
InstallMeta ==
    LET old == at[Admin].old
        carried == IF old # NoPkg /\ old.ahash # NoHash THEN old.ahash ELSE NoHash
        status == IF carried # NoHash THEN old.status ELSE "pending"
        id == IF old = NoPkg THEN lastId + 1 ELSE old.id
    IN /\ at[Admin].pc = "meta" /\ id <= MaxIds
       /\ IF pkg.id # old.id THEN Go(Admin, Idle) /\ UNCHANGED <<pkg, lastId, tx>>
          ELSE /\ tx' = [open |-> TRUE, pkg |-> pkg, cmds |-> cmds]
               /\ lastId' = IF old = NoPkg THEN id ELSE lastId
               /\ pkg' = [id |-> id, meta |-> at[Admin].rev, status |-> status, chash |-> NoHash,
                          ahash |-> carried, algo |-> IF old = NoPkg THEN "" ELSE pkg.algo,
                          enabled |-> IF old = NoPkg THEN FALSE ELSE pkg.enabled]
               /\ Go(Admin, [pc |-> "delete", id |-> id, rev |-> at[Admin].rev])
       /\ UNCHANGED <<cmds, column, boot, acts, boots, bound, ran>>

InstallRows(pc, rev, then) ==
    /\ at[Admin].pc = pc
    /\ cmds' = [cmds EXCEPT ![at[Admin].id] = rev]
    /\ Go(Admin, [at[Admin] EXCEPT !.pc = then])
    /\ UNCHANGED <<pkg, lastId, column, tx, boot, acts, boots, bound, ran>>

InstallDeletes == InstallRows("delete", 0, "add")
InstallAdds == at[Admin].pc = "add" /\ InstallRows("add", at[Admin].rev, "commit")

(* Fails if somebody else's commit ended the transaction.                  *)
InstallCommits ==
    /\ at[Admin].pc = "commit"
    /\ Go(Admin, IF tx.open THEN [pc |-> "refreshRead", id |-> at[Admin].id] ELSE Idle)
    /\ tx' = NoTx
    /\ UNCHANGED <<pkg, cmds, lastId, column, boot, acts, boots, bound, ran>>

(* The stored hash is bound; one is computed only if none is stored.       *)
ApprovePackage ==
    LET h == IF pkg.chash = NoHash THEN HashOf(pkg) ELSE pkg.chash
    IN /\ boot = "done" /\ at[Admin] = Idle /\ pkg # NoPkg /\ Acts
       /\ pkg' = Stamp("approved", h, h)
       /\ bound' = bound \cup {<<pkg.id, h>>}
       /\ UNCHANGED <<cmds, lastId, column, tx, boot, at, boots, ran>>

RejectPackage ==
    /\ boot = "done" /\ at[Admin] = Idle /\ pkg # NoPkg /\ Acts
    /\ pkg' = [pkg EXCEPT !.status = "rejected"]
    /\ UNCHANGED <<cmds, lastId, column, tx, boot, at, boots, bound, ran>>

(* Enabling needs an approved package; admin and agents share the check.   *)
SetPackageEnabled(on) ==
    /\ boot = "done" /\ pkg # NoPkg /\ pkg.enabled # on
    /\ on => pkg.status = "approved"
    /\ pkg' = [pkg EXCEPT !.enabled = on]
    /\ UNCHANGED <<cmds, lastId, column, tx, boot, at, acts, boots, bound, ran>>

-----------------------------------------------------------------------------
(* The agents.  What they create waits for the owner.                      *)
CreatePackage ==
    /\ boot = "done" /\ pkg = NoPkg /\ lastId < MaxIds
    /\ pkg' = [Row(lastId + 1, 0, "pending", NoHash, "") EXCEPT !.enabled = FALSE]
    /\ lastId' = lastId + 1
    /\ UNCHANGED <<cmds, column, tx, boot, at, acts, boots, bound, ran>>

(* BEGIN inside a transaction is refused and ignored, COMMIT is not.       *)
DeletePackage ==
    /\ boot = "done" /\ pkg # NoPkg
    /\ cmds' = [cmds EXCEPT ![pkg.id] = 0]
    /\ pkg' = NoPkg /\ tx' = NoTx
    /\ UNCHANGED <<lastId, column, boot, at, acts, boots, bound, ran>>

(* ExecuteInternal: the row, the approval re-read with the content, then   *)
(* the command.                                                            *)
ExecuteInternal(c) ==
    /\ boot = "done" /\ at[c] = Idle
    /\ pkg # NoPkg /\ pkg.enabled /\ pkg.status = "approved"
    /\ Go(c, [pc |-> "verify", id |-> pkg.id, meta |-> pkg.meta])
    /\ UNCHANGED <<pkg, cmds, lastId, column, tx, boot, acts, boots, bound, ran>>

VerifyReads(c) ==
    /\ at[c].pc = "verify"
    /\ Go(c, IF pkg.id # at[c].id \/ pkg.status # "approved" THEN Idle
             ELSE [pc |-> "compare", id |-> pkg.id, meta |-> at[c].meta, row |-> pkg])
    /\ UNCHANGED <<pkg, cmds, lastId, column, tx, boot, acts, boots, bound, ran>>

VerifyApprovalBinding_Status(c) ==
    /\ at[c].pc = "compare"
    /\ Go(c, [pc |-> "command", id |-> at[c].id, meta |-> at[c].meta,
              hash |-> ComputeContentHash(at[c].row.meta, cmds[at[c].id])])
    /\ UNCHANGED <<pkg, cmds, lastId, column, tx, boot, acts, boots, bound, ran>>

VerifyApprovalBinding(c) ==
    LET h == ComputeContentHash(at[c].row.meta, cmds[at[c].id])
    IN /\ at[c].pc = "compare"
       /\ Go(c, IF at[c].row.ahash = h
                THEN [pc |-> "command", id |-> at[c].id, meta |-> at[c].meta, hash |-> h]
                ELSE [pc |-> "refreshRead", id |-> at[c].id])
       /\ UNCHANGED <<pkg, cmds, lastId, column, tx, boot, acts, boots, bound, ran>>

GetCommand(c) ==
    /\ at[c].pc = "command"
    /\ ran' = IF cmds[at[c].id] = 0 THEN ran
              ELSE ran \cup {[id |-> at[c].id, hash |-> at[c].hash, scope |-> at[c].meta,
                              script |-> cmds[at[c].id]]}
    /\ Go(c, Idle)
    /\ UNCHANGED <<pkg, cmds, lastId, column, tx, boot, acts, boots, bound>>

-----------------------------------------------------------------------------
PackagesNext ==
    \/ EnsureSchema \/ MigrateApprovalGate \/ MigrateHashV2 \/ MigrateWritesGateHash \/ Restart
    \/ \E r \in Revs : InstallFromManifest(r)
    \/ InstallMeta \/ InstallDeletes \/ InstallAdds \/ InstallCommits
    \/ ApprovePackage \/ RejectPackage \/ CreatePackage \/ DeletePackage
    \/ \E on \in BOOLEAN : SetPackageEnabled(on)
    \/ \E c \in Callers : RefreshApproval(c)
    \/ \E c \in Chains : ExecuteInternal(c) \/ VerifyReads(c) \/ VerifyApprovalBinding(c)
            \/ GetCommand(c)

PackagesSpec == PackagesInit /\ [][PackagesNext]_pkgVars

-----------------------------------------------------------------------------
(* What ran passed the gate with content that an act of the owner had      *)
(* bound to that very package: not the half-installed rows of an upgrade   *)
(* under way, not what a crash between the commit and the decision left,   *)
(* not a package made under the name of an approved one.                   *)
RunsWhatWasBound == \A r \in ran : <<r.id, r.hash>> \in bound

(* The script that ran is of the revision whose egress scope it ran under. *)
(* Violated: the row is read before the gate, the command after it.        *)
RunsOneRevision == \A r \in ran : r.script = r.scope

(* A rejection ends only by an owner's act or with the package.  Violated  *)
(* by a refresh that read the row before the owner rejected it.            *)
RejectionHolds ==
    [][pkg # NoPkg /\ pkg.status = "rejected" /\ pkg'.id = pkg.id /\ acts' = acts
         /\ at[Admin] = Idle => pkg'.status = "rejected"]_pkgVars

(* An approval of unchanged content survives the upgrade of the daemon     *)
(* ("approval bindings preserved").  Violated by a crash after the column  *)
(* was added and before the hashes were stamped anew: no later boot does.  *)
BootKeepsApproval ==
    [][at[Admin] = Idle /\ pkg # NoPkg /\ pkg.id = 1 /\ pkg.status = "approved" /\ acts = 0
         /\ pkg'.id = 1 => pkg'.status = "approved" \/ pkg.algo = ""]_pkgVars

-----------------------------------------------------------------------------
(* Proof of RunsWhatWasBound, for any chains, revisions and bounds.        *)

\* A hash as this daemon computes it.
Current(h) == 1 \in DOMAIN h /\ h[1] = "v2w"

\* A copy of the package's row, wherever it is kept, carries no current hash but one an
\* act of the owner has bound to the id of the row.
Carries(id, h) == Current(h) => <<id, h>> \in bound
RowBound(v) ==
    v # NoPkg => /\ {"id", "ahash", "status", "chash"} \subseteq DOMAIN v /\ v.id # 0
                 /\ Carries(v.id, v.ahash)

\* What a call keeps between its steps.
CallBound(a) ==
    /\ a.pc \in {"verify", "refreshRead", "delete", "add", "commit"} =>
         {"pc", "id"} \subseteq DOMAIN a /\ a.id # 0
    /\ a.pc \in {"compare", "refreshHash"} =>
         a.id # 0 /\ a.row # NoPkg /\ a.row.id = a.id /\ RowBound(a.row)
    /\ a.pc = "refreshWrite" => a.id # 0 /\ Carries(a.id, a.out.ahash)
    /\ a.pc = "meta" => RowBound(a.old)
    /\ a.pc = "command" => <<a.id, a.hash>> \in bound

BindingInv ==
    /\ lastId \in Nat /\ RowBound(pkg) /\ (tx.open => RowBound(tx.pkg))
    /\ at = [c \in Callers |-> at[c]] /\ \A c \in Callers : CallBound(at[c])
    /\ RunsWhatWasBound

\* Of the hashes a row may have, only one computed today is current.
LEMMA HashesApart ==
    /\ ~Current(NoHash)
    /\ \A m, n : Current(ComputeContentHash(m, n))
    /\ \A r : ~Current(HashedBefore("v1", r)) /\ ~Current(HashedBefore("v2", r))
  BY DEF Current, NoHash, ComputeContentHash, HashedBefore

\* No row is no row.
LEMMA NoPkgHasNoHash == DOMAIN NoPkg = {"id"} /\ NoPkg.id = 0 /\ "ahash" \notin DOMAIN NoPkg
  BY DEF NoPkg

\* The invariant holds of every database a daemon may find.
LEMMA BindingInit == PackagesInit => BindingInv
<1> SUFFICES ASSUME PackagesInit PROVE BindingInv
  OBVIOUS
<1>1. RowBound(pkg) /\ lastId \in Nat
  <2>1. CASE pkg = NoPkg
    BY <2>1 DEF PackagesInit, RowBound
  <2>2. CASE pkg \in Legacy
    <3>1. PICK status, algo, h : /\ pkg = Row(1, 1, status, h, algo)
                                 /\ \/ h = NoHash \/ h = HashedBefore("v2", 1)
                                    \/ \E r : h = HashedBefore("v1", r)
      BY <2>2 DEF Legacy
    <3>2. /\ {"id", "ahash", "status", "chash"} \subseteq DOMAIN pkg /\ pkg.id = 1
          /\ pkg.ahash = h
      BY <3>1 DEF Row
    <3> QED
      BY <2>2, <3>1, <3>2, HashesApart DEF PackagesInit, RowBound, Carries
  <2> QED
    BY <2>1, <2>2 DEF PackagesInit
<1>2. \A c \in Callers : at[c] = Idle /\ at[c].pc = "idle"
  BY DEF PackagesInit, Idle
<1>3. \A c \in Callers : CallBound(at[c])
  BY <1>2 DEF CallBound
<1> QED
  BY <1>1, <1>3 DEF PackagesInit, BindingInv, RunsWhatWasBound, NoTx

\* What is bound stays bound.
LEMMA BoundStays ==
    ASSUME bound \subseteq bound'
    PROVE  /\ \A id, h : Carries(id, h) => Carries(id, h)'
           /\ \A v : RowBound(v) => RowBound(v)'
           /\ \A a : CallBound(a) => CallBound(a)'
           /\ ran' = ran /\ RunsWhatWasBound => RunsWhatWasBound'
<1>1. \A id, h : Carries(id, h) => Carries(id, h)'
  BY DEF Carries
<1>2. \A v : RowBound(v) => RowBound(v)'
  BY <1>1 DEF RowBound
<1>3. \A a : CallBound(a) => CallBound(a)'
  BY <1>1, <1>2 DEF CallBound
<1> QED
  BY <1>1, <1>2, <1>3 DEF RunsWhatWasBound

\* A step that binds no less and leaves row, transaction and calls but one alone.
LEMMA CallMoves ==
    ASSUME BindingInv, NEW c \in Callers, NEW a, CallBound(a)', Go(c, a),
           bound \subseteq bound'
    PROVE  at' = [d \in Callers |-> at'[d]] /\ \A d \in Callers : CallBound(at[d])'
<1>1. \A d \in Callers : CallBound(at[d])
  BY DEF BindingInv
<1>2. at' = [d \in Callers |-> IF d = c THEN a ELSE at[d]]
  BY DEF BindingInv, Go
<1>3. \A d \in Callers \ {c} : at'[d] = at[d]
  BY <1>2
<1>4. at'[c] = a
  BY <1>2
<1>5. \A d \in Callers \ {c} : CallBound(at[d])'
  BY <1>1, <1>3, BoundStays DEF CallBound, RowBound, Carries
<1>6. CallBound(at[c])'
  BY <1>4 DEF CallBound, RowBound, Carries
<1> QED
  BY <1>2, <1>5, <1>6

\* The parts of the invariant after a step that runs nothing, and the row it writes.
LEMMA Together ==
    ASSUME BindingInv, bound \subseteq bound', lastId' \in Nat, ran' = ran,
           RowBound(pkg)', (tx.open => RowBound(tx.pkg))',
           at' = at \/ (at' = [c \in Callers |-> at'[c]] /\ \A c \in Callers : CallBound(at[c])')
    PROVE  BindingInv'
<1>1. CASE at' = at
  <2>1. at' = [c \in Callers |-> at'[c]] /\ \A c \in Callers : CallBound(at[c])'
    BY <1>1, BoundStays DEF BindingInv, CallBound, RowBound, Carries
  <2> QED
    BY <2>1, BoundStays DEF BindingInv
<1>2. CASE at' = [c \in Callers |-> at'[c]] /\ \A c \in Callers : CallBound(at[c])'
  BY <1>2, BoundStays DEF BindingInv
<1> QED
  BY <1>1, <1>2

\* A row, or what a transaction keeps of it, that stays is still bound.
LEMMA RowStays ==
    ASSUME BindingInv, bound \subseteq bound'
    PROVE  /\ pkg' = pkg \/ pkg' = NoPkg => RowBound(pkg)'
           /\ tx' = tx => (tx.open => RowBound(tx.pkg))'
<1>1. RowBound(pkg) /\ (tx.open => RowBound(tx.pkg))
  BY DEF BindingInv
<1> QED
  BY <1>1, BoundStays DEF RowBound, Carries

\* A row whose other fields change is bound if its new hash is.
LEMMA RowChanges ==
    ASSUME BindingInv, bound \subseteq bound', pkg # NoPkg,
           DOMAIN pkg' = DOMAIN pkg, pkg'.id = pkg.id,
           pkg'.ahash = pkg.ahash \/ Carries(pkg.id, pkg.ahash)'
    PROVE  RowBound(pkg)'
<1>1. RowBound(pkg)
  BY DEF BindingInv
<1> QED
  BY <1>1, BoundStays DEF RowBound, Carries

\* A stamped row is bound if the hash it is stamped with is.
LEMMA RowStamped ==
    ASSUME BindingInv, bound \subseteq bound', pkg # NoPkg, NEW st, NEW h, NEW a,
           Carries(pkg.id, a)', pkg' = Stamp(st, h, a)
    PROVE  RowBound(pkg)'
<1>1. RowBound(pkg)
  BY DEF BindingInv
<1>2. DOMAIN pkg' = DOMAIN pkg /\ pkg'.id = pkg.id /\ pkg'.ahash = a
  BY <1>1 DEF Stamp, RowBound
<1> QED
  BY <1>2, RowChanges DEF Carries

\* The start of the daemon: whatever it takes over as approved it binds.
LEMMA BootKeepsBinding ==
    ASSUME BindingInv,
           EnsureSchema \/ MigrateApprovalGate \/ MigrateHashV2 \/ MigrateWritesGateHash \/ Restart
    PROVE  BindingInv'
<1>0. lastId \in Nat /\ RowBound(pkg) /\ (tx.open => RowBound(tx.pkg))
  BY DEF BindingInv
<1>1. CASE EnsureSchema
  BY <1>0, <1>1, RowStays, Together DEF EnsureSchema
<1>2. CASE MigrateApprovalGate
  <2>1. bound \subseteq bound' /\ UNCHANGED <<lastId, tx, at, ran>>
    BY <1>2 DEF MigrateApprovalGate
  <2>2. RowBound(pkg)'
    <3>1. PICK h : h = HashOf(pkg)
      OBVIOUS
    <3>2. CASE pkg' = pkg
      BY <2>1, <3>2, RowStays
    <3>3. CASE pkg' # pkg
      <4>1. /\ pkg # NoPkg /\ pkg' = Stamp("approved", h, h)
            /\ bound' = bound \cup {<<pkg.id, h>>}
        BY <1>2, <3>1, <3>3 DEF MigrateApprovalGate
      <4>2. pkg'.id = pkg.id
        BY <1>0, <4>1 DEF Stamp, RowBound
      <4> QED
        BY <2>1, <4>1, <4>2, RowStamped DEF Carries
    <3> QED
      BY <3>2, <3>3
  <2> QED
    BY <1>0, <2>1, <2>2, RowStays, Together
<1>3. CASE MigrateHashV2
  <2>1. bound \subseteq bound' /\ UNCHANGED <<lastId, tx, at, ran>>
    BY <1>3 DEF MigrateHashV2
  <2>2. ASSUME pkg = NoPkg \/ pkg.algo = "v2" PROVE RowBound(pkg)'
    BY <1>3, <2>1, <2>2, RowStays DEF MigrateHashV2
  <2>3. ASSUME pkg # NoPkg /\ pkg.algo # "v2" PROVE RowBound(pkg)'
    <3> DEFINE same == pkg.status = "approved"
                       /\ pkg.ahash = ComputeContentHashLegacy(pkg.meta, cmds[pkg.id])
    <3>1. ASSUME same PROVE RowBound(pkg)'
      <4>1. PICK h : h = HashOf(pkg)
        OBVIOUS
      <4>2. pkg' = Stamp("approved", h, h) /\ bound' = bound \cup {<<pkg.id, h>>}
        BY <1>3, <2>3, <3>1, <4>1 DEF MigrateHashV2
      <4>3. pkg'.id = pkg.id
        BY <1>0, <2>3, <4>2 DEF Stamp, RowBound
      <4> QED
        BY <2>1, <2>3, <4>2, <4>3, RowStamped DEF Carries
    <3>2. ASSUME ~same /\ pkg.status = "approved" PROVE RowBound(pkg)'
      BY <1>3, <2>1, <2>3, <3>2, RowStamped, HashesApart DEF MigrateHashV2, Carries
    <3>3. ASSUME ~same /\ pkg.status # "approved" PROVE RowBound(pkg)'
      <4>1. pkg' = [pkg EXCEPT !.chash = HashOf(pkg), !.algo = "v2"]
        BY <1>3, <2>3, <3>3 DEF MigrateHashV2
      <4>2. DOMAIN pkg' = DOMAIN pkg /\ pkg'.id = pkg.id /\ pkg'.ahash = pkg.ahash
        BY <1>0, <2>3, <4>1 DEF RowBound
      <4> QED
        BY <2>1, <2>3, <4>2, RowChanges
    <3> QED
      BY <3>1, <3>2, <3>3
  <2> QED
    BY <1>0, <2>1, <2>2, <2>3, RowStays, Together
<1>4. CASE MigrateWritesGateHash
  <2>1. bound \subseteq bound' /\ UNCHANGED <<lastId, tx, at, ran>>
    BY <1>4 DEF MigrateWritesGateHash
  <2>2. ASSUME pkg = NoPkg PROVE RowBound(pkg)'
    BY <1>4, <2>1, <2>2, RowStays DEF MigrateWritesGateHash
  <2>3. ASSUME pkg # NoPkg PROVE RowBound(pkg)'
    <3>1. /\ DOMAIN pkg' = DOMAIN pkg /\ pkg'.id = pkg.id
          /\ pkg'.ahash = (IF pkg.status = "approved" THEN HashOf(pkg) ELSE pkg.ahash)
          /\ pkg.status = "approved" => bound' = bound \cup {<<pkg.id, HashOf(pkg)>>}
      BY <1>0, <1>4, <2>3 DEF MigrateWritesGateHash, RowBound
    <3> QED
      BY <2>1, <2>3, <3>1, RowChanges DEF Carries
  <2> QED
    BY <1>0, <2>1, <2>2, <2>3, RowStays, Together
<1>5. CASE Restart
  <2>1. bound' = bound /\ UNCHANGED <<lastId, ran>> /\ ~tx'.open
        /\ pkg' = IF tx.open THEN tx.pkg ELSE pkg
    BY <1>5 DEF Restart, NoTx
  <2>2. at' = [c \in Callers |-> at'[c]] /\ \A c \in Callers : at'[c].pc = "idle"
    BY <1>5 DEF Restart, Idle
  <2>3. \A c \in Callers : CallBound(at[c])'
    BY <2>2 DEF CallBound
  <2>4. RowBound(pkg)'
    BY <1>0, <2>1 DEF RowBound, Carries
  <2> QED
    BY <1>0, <2>1, <2>2, <2>3, <2>4, Together
<1> QED
  BY <1>1, <1>2, <1>3, <1>4, <1>5

\* The refresh of an approval: a row is read, hashed and written.
LEMMA RefreshKeepsBinding ==
    ASSUME BindingInv, NEW c \in Callers, RefreshApproval(c)
    PROVE  BindingInv'
<1>0. lastId \in Nat /\ RowBound(pkg) /\ CallBound(at[c])
  BY DEF BindingInv
<1>1. CASE RefreshReads(c)
  <2>1. bound' = bound /\ UNCHANGED <<pkg, tx, lastId, ran>>
    BY <1>1 DEF RefreshReads
  <2>2. at[c].id # 0
    BY <1>0, <1>1 DEF RefreshReads, CallBound
  <2>3. PICK a : Go(c, a) /\ (a = Idle \/ (pkg # NoPkg
                   /\ a = [pc |-> "refreshHash", id |-> pkg.id, row |-> pkg]))
    BY <1>1, <2>2, NoPkgHasNoHash DEF RefreshReads
  <2>4. CallBound(a)'
    <3>1. CASE a = Idle
      BY <3>1 DEF Idle, CallBound
    <3>2. CASE pkg # NoPkg /\ a = [pc |-> "refreshHash", id |-> pkg.id, row |-> pkg]
      <4>1. a.pc = "refreshHash" /\ a.id = pkg.id /\ a.row = pkg
        BY <3>2
      <4> QED
        BY <1>0, <2>1, <3>2, <4>1 DEF CallBound, RowBound, Carries
    <3> QED
      BY <2>3, <3>1, <3>2
  <2> QED
    BY <1>0, <2>1, <2>3, <2>4, CallMoves, RowStays, Together
<1>2. CASE RefreshHashes(c)
  <2> DEFINE h == ComputeContentHash(at[c].row.meta, cmds[at[c].id])
             out == IF c = Admin THEN RefreshedByOwner(at[c].row, h) ELSE Refreshed(at[c].row, h)
             a == IF "none" \in DOMAIN out THEN Idle
                  ELSE [pc |-> "refreshWrite", id |-> at[c].id, out |-> out]
  <2>1. /\ bound \subseteq bound' /\ UNCHANGED <<pkg, tx, lastId, ran>> /\ Go(c, a)
        /\ c = Admin => <<at[c].id, h>> \in bound'
    BY <1>2 DEF RefreshHashes
  <2>2. /\ at[c].pc = "refreshHash" /\ at[c].id # 0 /\ at[c].row.id = at[c].id
        /\ Carries(at[c].id, at[c].row.ahash)
    BY <1>0, <1>2 DEF RefreshHashes, CallBound, RowBound
  <2>3. \/ "none" \in DOMAIN out
        \/ c = Admin /\ out.ahash = h
        \/ out.ahash = at[c].row.ahash
    BY DEF RefreshedByOwner, Refreshed
  <2>4. PICK i, o, b : b = a /\ i = at[c].id /\ o = out
    OBVIOUS
  <2>5. \/ b = Idle
        \/ b = [pc |-> "refreshWrite", id |-> i, out |-> o] /\ Carries(i, o.ahash)'
    <3>1. CASE "none" \in DOMAIN out
      BY <2>4, <3>1
    <3>2. CASE "none" \notin DOMAIN out
      <4>1. b = [pc |-> "refreshWrite", id |-> i, out |-> o]
        BY <2>4, <3>2
      <4>2. Carries(i, o.ahash)'
        BY <2>1, <2>2, <2>3, <2>4, <3>2 DEF Carries
      <4> QED
        BY <4>1, <4>2
    <3> QED
      BY <3>1, <3>2
  <2>6. CallBound(b)'
    BY <2>2, <2>4, <2>5 DEF CallBound, Idle, Carries
  <2>7. Go(c, b)
    BY <2>1, <2>4
  <2> QED
    BY <1>0, <2>1, <2>6, <2>7, CallMoves, RowStays, Together
<1>3. CASE RefreshWrites(c)
  <2>1. bound' = bound /\ UNCHANGED <<tx, lastId, ran>> /\ Go(c, Idle)
    BY <1>3 DEF RefreshWrites
  <2>2. CallBound(Idle)'
    BY DEF Idle, CallBound
  <2>3. at[c].id # 0 /\ Carries(at[c].id, at[c].out.ahash)
    BY <1>0, <1>3 DEF RefreshWrites, CallBound
  <2>4. RowBound(pkg)'
    <3>1. CASE pkg' = pkg
      BY <2>1, <3>1, RowStays
    <3>2. CASE pkg' # pkg
      <4>1. PICK st, h, b : /\ st = at[c].out.status /\ h = at[c].out.chash
                            /\ b = at[c].out.ahash
        OBVIOUS
      <4>2. pkg.id = at[c].id /\ pkg # NoPkg /\ pkg' = Stamp(st, h, b)
        BY <1>3, <2>3, <3>2, <4>1, NoPkgHasNoHash DEF RefreshWrites
      <4>3. pkg'.id = pkg.id
        BY <1>0, <4>2 DEF Stamp, RowBound
      <4> QED
        BY <2>1, <2>3, <4>1, <4>2, <4>3, RowStamped DEF Carries
    <3> QED
      BY <3>1, <3>2
  <2> QED
    BY <1>0, <2>1, <2>2, <2>4, CallMoves, RowStays, Together
<1> QED
  BY <1>1, <1>2, <1>3 DEF RefreshApproval

\* An install: the new row takes over the hash the old one of the same id had.
LEMMA InstallKeepsBinding ==
    ASSUME BindingInv,
           \/ \E r \in Revs : InstallFromManifest(r)
           \/ InstallMeta \/ InstallDeletes \/ InstallAdds \/ InstallCommits
    PROVE  BindingInv'
<1>0. /\ lastId \in Nat /\ RowBound(pkg) /\ (tx.open => RowBound(tx.pkg))
      /\ Admin \in Callers /\ CallBound(at[Admin]) /\ CallBound(Idle)'
  BY DEF BindingInv, Callers, CallBound, Idle
<1>1. ASSUME NEW r \in Revs, InstallFromManifest(r) PROVE BindingInv'
  <2>1. bound' = bound /\ UNCHANGED <<pkg, tx, lastId, ran>>
    BY <1>1 DEF InstallFromManifest
  <2>2. PICK a : Go(Admin, a) /\ a.pc = "meta" /\ a.old = pkg
    BY <1>1 DEF InstallFromManifest
  <2>3. CallBound(a)'
    BY <1>0, <2>1, <2>2 DEF CallBound, RowBound, Carries
  <2> QED
    BY <1>0, <2>1, <2>2, <2>3, CallMoves, RowStays, Together
<1>2. CASE InstallMeta
  <2>1. bound' = bound /\ ran' = ran /\ RowBound(at[Admin].old)
    BY <1>0, <1>2 DEF InstallMeta, CallBound
  <2>2. CASE pkg.id # at[Admin].old.id
    BY <1>0, <1>2, <2>1, <2>2, CallMoves, RowStays, Together DEF InstallMeta
  <2>3. CASE pkg.id = at[Admin].old.id
    <3> DEFINE old == at[Admin].old
               carried == IF old # NoPkg /\ old.ahash # NoHash THEN old.ahash ELSE NoHash
               status == IF carried # NoHash THEN old.status ELSE "pending"
               id == IF old = NoPkg THEN lastId + 1 ELSE old.id
    <3>1. PICK i, o, b, st : i = id /\ o = old /\ b = carried /\ st = status
      OBVIOUS
    <3>2. /\ pkg' = [id |-> i, meta |-> at[Admin].rev, status |-> st, chash |-> NoHash,
                     ahash |-> b, algo |-> IF o = NoPkg THEN "" ELSE pkg.algo,
                     enabled |-> IF o = NoPkg THEN FALSE ELSE pkg.enabled]
          /\ tx' = [open |-> TRUE, pkg |-> pkg, cmds |-> cmds]
          /\ lastId' = IF o = NoPkg THEN i ELSE lastId
          /\ Go(Admin, [pc |-> "delete", id |-> i, rev |-> at[Admin].rev])
      BY <1>2, <2>3, <3>1 DEF InstallMeta
    <3>3. i # 0 /\ lastId' \in Nat /\ Carries(i, b)
      <4>1. CASE o = NoPkg
        <5>1. i = lastId + 1 /\ b = NoHash /\ lastId' = i
          BY <3>1, <3>2, <4>1
        <5>2. i \in Nat /\ i # 0
          BY <1>0, <5>1
        <5> QED
          BY <5>1, <5>2, HashesApart DEF Carries
      <4>2. CASE o # NoPkg
        BY <1>0, <2>1, <3>1, <3>2, <4>2, HashesApart DEF RowBound, Carries
      <4> QED
        BY <4>1, <4>2
    <3>4. RowBound(pkg)'
      <4>1. /\ DOMAIN pkg' = {"id", "meta", "status", "chash", "ahash", "algo", "enabled"}
            /\ pkg'.id = i /\ pkg'.ahash = b
        BY <3>2
      <4> QED
        BY <2>1, <3>3, <4>1 DEF RowBound, Carries
    <3>5. (tx.open => RowBound(tx.pkg))'
      <4>1. tx'.pkg = pkg
        BY <3>2
      <4> QED
        BY <1>0, <2>1, <4>1 DEF RowBound, Carries
    <3>6. PICK a : Go(Admin, a) /\ a.pc = "delete" /\ a.id = i /\ DOMAIN a = {"pc", "id", "rev"}
      <4>1. PICK a : Go(Admin, a) /\ a = [pc |-> "delete", id |-> i, rev |-> at[Admin].rev]
        BY <3>2
      <4> QED
        BY <4>1
    <3>7. CallBound(a)'
      BY <3>3, <3>6 DEF CallBound
    <3> QED
      BY <1>0, <2>1, <3>3, <3>4, <3>5, <3>6, <3>7, CallMoves, Together
  <2> QED
    BY <2>2, <2>3
<1>3. ASSUME NEW pc, NEW rev, NEW then, pc \in {"delete", "add"}, then \in {"add", "commit"},
             InstallRows(pc, rev, then)
      PROVE  BindingInv'
  <2>1. bound' = bound /\ UNCHANGED <<pkg, tx, lastId, ran>>
    BY <1>3 DEF InstallRows
  <2>2. {"pc", "id"} \subseteq DOMAIN at[Admin] /\ at[Admin].id # 0
    BY <1>0, <1>3 DEF InstallRows, CallBound
  <2>3. PICK a : Go(Admin, a) /\ a = [at[Admin] EXCEPT !.pc = then]
    BY <1>3 DEF InstallRows
  <2>4. a.pc = then /\ DOMAIN a = DOMAIN at[Admin] /\ a.id = at[Admin].id
    BY <2>2, <2>3
  <2>5. CallBound(a)'
    BY <1>3, <2>2, <2>4 DEF CallBound
  <2> QED
    BY <1>0, <2>1, <2>3, <2>5, CallMoves, RowStays, Together
<1>4. CASE InstallCommits
  <2>1. bound' = bound /\ UNCHANGED <<pkg, lastId, ran>> /\ ~tx'.open
    BY <1>4 DEF InstallCommits, NoTx
  <2>2. at[Admin].id # 0
    BY <1>0, <1>4 DEF InstallCommits, CallBound
  <2>3. PICK a : Go(Admin, a) /\ (a = Idle \/ a = [pc |-> "refreshRead", id |-> at[Admin].id])
    BY <1>4 DEF InstallCommits
  <2>4. CallBound(a)'
    <3>1. CASE a = Idle
      BY <1>0, <3>1
    <3>2. CASE a = [pc |-> "refreshRead", id |-> at[Admin].id]
      <4>1. a.pc = "refreshRead" /\ a.id = at[Admin].id /\ DOMAIN a = {"pc", "id"}
        BY <3>2
      <4> QED
        BY <2>2, <4>1 DEF CallBound
    <3> QED
      BY <2>3, <3>1, <3>2
  <2> QED
    BY <1>0, <2>1, <2>3, <2>4, CallMoves, RowStays, Together
<1> QED
  BY <1>1, <1>2, <1>3, <1>4 DEF InstallDeletes, InstallAdds

\* The other acts of the owner, and what agents may do to a package.
LEMMA ActsKeepBinding ==
    ASSUME BindingInv,
           \/ ApprovePackage \/ RejectPackage \/ CreatePackage \/ DeletePackage
           \/ \E on \in BOOLEAN : SetPackageEnabled(on)
    PROVE  BindingInv'
<1>0. lastId \in Nat /\ RowBound(pkg)
  BY DEF BindingInv
<1>1. CASE ApprovePackage
  <2>1. PICK h : h = IF pkg.chash = NoHash THEN HashOf(pkg) ELSE pkg.chash
    OBVIOUS
  <2>2. /\ pkg # NoPkg /\ pkg' = Stamp("approved", h, h) /\ UNCHANGED <<tx, at, lastId, ran>>
        /\ bound' = bound \cup {<<pkg.id, h>>}
    BY <1>1, <2>1 DEF ApprovePackage
  <2>3. pkg'.id = pkg.id
    BY <1>0, <2>2 DEF Stamp, RowBound
  <2>4. RowBound(pkg)'
    BY <2>2, <2>3, RowStamped DEF Carries
  <2> QED
    BY <1>0, <2>2, <2>4, RowStays, Together
<1>2. ASSUME bound' = bound, UNCHANGED <<tx, at, lastId, ran>>, pkg # NoPkg,
             DOMAIN pkg' = DOMAIN pkg, pkg'.id = pkg.id, pkg'.ahash = pkg.ahash
      PROVE  BindingInv'
  BY <1>0, <1>2, RowChanges, RowStays, Together
<1>3. CASE RejectPackage
  <2>1. pkg # NoPkg /\ pkg' = [pkg EXCEPT !.status = "rejected"]
    BY <1>3 DEF RejectPackage
  <2>2. DOMAIN pkg' = DOMAIN pkg /\ pkg'.id = pkg.id /\ pkg'.ahash = pkg.ahash
    BY <1>0, <2>1 DEF RowBound
  <2> QED
    BY <1>2, <1>3, <2>1, <2>2 DEF RejectPackage
<1>4. ASSUME NEW on \in BOOLEAN, SetPackageEnabled(on) PROVE BindingInv'
  <2>1. pkg # NoPkg /\ pkg' = [pkg EXCEPT !.enabled = on]
    BY <1>4 DEF SetPackageEnabled
  <2>2. DOMAIN pkg' = DOMAIN pkg /\ pkg'.id = pkg.id /\ pkg'.ahash = pkg.ahash
    BY <1>0, <2>1 DEF RowBound
  <2> QED
    BY <1>2, <1>4, <2>1, <2>2 DEF SetPackageEnabled
<1>5. CASE CreatePackage
  <2>1. bound' = bound /\ UNCHANGED <<tx, at, ran>> /\ lastId' = lastId + 1
    BY <1>5 DEF CreatePackage
  <2>2. /\ DOMAIN pkg' = {"id", "meta", "status", "chash", "ahash", "algo", "enabled"}
        /\ pkg'.id = lastId + 1 /\ pkg'.ahash = NoHash
    BY <1>5 DEF CreatePackage, Row
  <2>3. RowBound(pkg)'
    BY <1>0, <2>2, HashesApart DEF RowBound, Carries
  <2> QED
    BY <1>0, <2>1, <2>3, RowStays, Together
<1>6. CASE DeletePackage
  BY <1>0, <1>6, RowStays, Together DEF DeletePackage, NoTx
<1> QED
  BY <1>1, <1>3, <1>4, <1>5, <1>6

\* A run: the hash compared is that of a row read under the id the run has.
LEMMA RunKeepsBinding ==
    ASSUME BindingInv, NEW c \in Chains,
           ExecuteInternal(c) \/ VerifyReads(c) \/ VerifyApprovalBinding(c) \/ GetCommand(c)
    PROVE  BindingInv'
<1>0. /\ lastId \in Nat /\ RowBound(pkg) /\ c \in Callers /\ CallBound(at[c])
      /\ CallBound(Idle)' /\ RunsWhatWasBound
  BY DEF BindingInv, Callers, CallBound, Idle
<1>1. CASE ExecuteInternal(c)
  <2>1. bound' = bound /\ UNCHANGED <<pkg, tx, lastId, ran>> /\ pkg.id # 0
    BY <1>0, <1>1 DEF ExecuteInternal, RowBound
  <2>2. PICK a : Go(c, a) /\ a.pc = "verify" /\ a.id = pkg.id /\ DOMAIN a = {"pc", "id", "meta"}
    BY <1>1 DEF ExecuteInternal
  <2>3. CallBound(a)'
    BY <2>1, <2>2 DEF CallBound
  <2> QED
    BY <1>0, <2>1, <2>2, <2>3, CallMoves, RowStays, Together
<1>2. CASE VerifyReads(c)
  <2>1. bound' = bound /\ UNCHANGED <<pkg, tx, lastId, ran>> /\ at[c].id # 0
    BY <1>0, <1>2 DEF VerifyReads, CallBound
  <2>2. PICK a : Go(c, a) /\ (a = Idle \/ (pkg.id = at[c].id /\ a.pc = "compare"
                                           /\ a.id = pkg.id /\ a.row = pkg))
    BY <1>2 DEF VerifyReads
  <2>3. CallBound(a)'
    <3>1. CASE a = Idle
      BY <1>0, <3>1
    <3>2. CASE pkg.id = at[c].id /\ a.pc = "compare" /\ a.id = pkg.id /\ a.row = pkg
      <4>1. pkg # NoPkg
        BY <2>1, <3>2, NoPkgHasNoHash
      <4> QED
        BY <1>0, <2>1, <3>2, <4>1 DEF CallBound, RowBound, Carries
    <3> QED
      BY <2>2, <3>1, <3>2
  <2> QED
    BY <1>0, <2>1, <2>2, <2>3, CallMoves, RowStays, Together
<1>3. CASE VerifyApprovalBinding(c)
  <2>1. bound' = bound /\ UNCHANGED <<pkg, tx, lastId, ran>> /\ at[c].pc = "compare"
    BY <1>3 DEF VerifyApprovalBinding
  <2>2. PICK h : h = ComputeContentHash(at[c].row.meta, cmds[at[c].id])
    OBVIOUS
  <2>3. at[c].id # 0 /\ Carries(at[c].id, at[c].row.ahash) /\ Current(h)
    BY <1>0, <2>1, <2>2, HashesApart DEF CallBound, RowBound
  <2>4. PICK a : /\ Go(c, a)
                 /\ \/ /\ at[c].row.ahash = h
                       /\ a.pc = "command" /\ a.id = at[c].id /\ a.hash = h
                    \/ a.pc = "refreshRead" /\ a.id = at[c].id /\ DOMAIN a = {"pc", "id"}
    BY <1>3, <2>2 DEF VerifyApprovalBinding
  <2>5. CallBound(a)'
    BY <2>1, <2>3, <2>4 DEF CallBound, Carries
  <2> QED
    BY <1>0, <2>1, <2>4, <2>5, CallMoves, RowStays, Together
<1>4. CASE GetCommand(c)
  <2>1. /\ bound' = bound /\ UNCHANGED <<pkg, tx, lastId>> /\ Go(c, Idle)
        /\ <<at[c].id, at[c].hash>> \in bound
    BY <1>0, <1>4 DEF GetCommand, CallBound
  <2>2. \A r \in ran' : r \in ran \/ (r.id = at[c].id /\ r.hash = at[c].hash)
    BY <1>4 DEF GetCommand
  <2>3. RunsWhatWasBound'
    BY <1>0, <2>1, <2>2 DEF RunsWhatWasBound
  <2>4. at' = [d \in Callers |-> at'[d]] /\ \A d \in Callers : CallBound(at[d])'
    BY <1>0, <2>1, CallMoves
  <2> QED
    BY <1>0, <2>1, <2>3, <2>4, RowStays DEF BindingInv
<1> QED
  BY <1>1, <1>2, <1>3, <1>4

\* What has run was bound by the owner: a package runs only with a manifest and commands
\* whose hash an act of the owner has bound to that package, however installs, approvals,
\* refreshes, deletions, upgrades, crashes and runs interleave; for any number of chains
\* and packages (VerifyApprovalBinding before the run).
THEOREM OnlyTheBoundRuns == PackagesSpec => []RunsWhatWasBound
<1>1. BindingInv /\ [PackagesNext]_pkgVars => BindingInv'
  <2> SUFFICES ASSUME BindingInv, [PackagesNext]_pkgVars PROVE BindingInv'
    OBVIOUS
  <2>1. CASE UNCHANGED pkgVars
    BY <2>1, RowStays, Together DEF pkgVars, BindingInv
  <2>2. CASE PackagesNext
    BY <2>2, BootKeepsBinding, InstallKeepsBinding, ActsKeepBinding, RefreshKeepsBinding,
       RunKeepsBinding DEF PackagesNext
  <2> QED
    BY <2>1, <2>2
<1>2. BindingInv => RunsWhatWasBound
  BY DEF BindingInv
<1> QED
  BY BindingInit, <1>1, <1>2, PTL DEF PackagesSpec
=============================================================================

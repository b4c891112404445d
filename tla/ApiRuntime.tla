----------------------------- MODULE ApiRuntime ------------------------------
(***************************************************************************)
(* A run of an API command, and the traffic of a package besides runs.     *)
(* Each has a specification of its own.                                    *)
(***************************************************************************)
EXTENDS Naturals, FiniteSets, FiniteSetsExt, Functions

(***************************************************************************)
(* One run of a package's command, src/kernel/api/ApiRuntime.cpp from the  *)
(* arguments to the result: the declared request, then the script with its *)
(* HTTP calls, files and verdict.  Chains run commands of one package at   *)
(* the same time, over one directory of files.                             *)
(*                                                                         *)
(* Hosts stand for URLs.  A server answers as it likes, with redirects     *)
(* too.  Approval of the package and its secrets are in ApiPackages and    *)
(* SecretsVault, the table of pending writes in the second part.           *)
(***************************************************************************)

CONSTANTS
    Invocations,
    Hosts, Scope,   \* egress_hosts: the hosts the package may address
    Files,
    Quota,          \* files_quota_mb, in blocks
    HttpBudget, MaxRedirectHops

VARIABLES
    pc,             \* invocation -> where it is
    call,           \* invocation -> the HTTP call under way
    used,           \* invocation -> httpUsed
    request,        \* invocation -> how the declared request ended
    file,           \* invocation -> the write checked against the quota
    disk,           \* the package's files: name -> blocks
    sent,           \* the requests that reached the network
    result          \* invocation -> [success, why]

invVars == <<pc, call, used, request, file, disk, sent, result>>

Methods == {"GET", "POST"}
Codes == {"ok", "4xx", "301", "303", "307", "failed"}
NoCall == [hop |-> 0, host |-> "none", method |-> "GET", body |-> FALSE, creds |-> FALSE,
           write |-> FALSE,
           from |-> "none", left |-> FALSE]
NoFile == [name |-> "none", blocks |-> 0]
Unset == [success |-> FALSE, why |-> "none"]

InvInit ==
    /\ pc = [i \in Invocations |-> "start"] /\ call = [i \in Invocations |-> NoCall]
    /\ used = [i \in Invocations |-> 0] /\ request = [i \in Invocations |-> "none"]
    /\ file = [i \in Invocations |-> NoFile] /\ disk = [f \in Files |-> 0] /\ sent = {}
    /\ result = [i \in Invocations |-> Unset]

EgressAllowed(h) == h \in Scope

Ends(i, ok, why) ==
    /\ result' = [result EXCEPT ![i] = [success |-> ok, why |-> why]]
    /\ pc' = [pc EXCEPT ![i] = "done"]

(* ValidateArgs and Interpolate may refuse before anything is sent.        *)
ValidateArgs(i) ==
    /\ pc[i] = "start" /\ Ends(i, FALSE, "args")
    /\ UNCHANGED <<call, used, request, file, disk, sent>>

Interpolate(i) ==
    /\ pc[i] = "start" /\ Ends(i, FALSE, "template")
    /\ UNCHANGED <<call, used, request, file, disk, sent>>

Begins(i, h, m, write) ==
    call' = [call EXCEPT ![i] = [NoCall EXCEPT !.host = h, !.method = m, !.body = (m = "POST"),
                                 !.creds = TRUE,
                                               !.write = write, !.from = h]]

Transport(i, h, m) ==
    /\ pc[i] = "start"
    /\ IF EgressAllowed(h)
       THEN Begins(i, h, m, m = "POST") /\ pc' = [pc EXCEPT ![i] = "transport"] /\ UNCHANGED result
       ELSE Ends(i, FALSE, "egress") /\ UNCHANGED call
    /\ UNCHANGED <<used, request, file, disk, sent>>

(* A command without a request goes to its script.                         *)
NoRequest(i) ==
    /\ pc[i] = "start" /\ pc' = [pc EXCEPT ![i] = "script"]
    /\ UNCHANGED <<call, used, request, file, disk, sent, result>>

(* DoHttp: budget, scope, and for a write of a gated package the approval. *)
(* A call that is held costs nothing.                                      *)
DoHttp(i, h, m, passed) ==
    /\ pc[i] = "script" /\ used[i] < HttpBudget /\ EgressAllowed(h) /\ (m = "POST" => passed)
    /\ used' = [used EXCEPT ![i] = @ + 1]
    /\ Begins(i, h, m, m = "POST") /\ pc' = [pc EXCEPT ![i] = "fetch"]
    /\ UNCHANGED <<request, file, disk, sent, result>>

-----------------------------------------------------------------------------
(* ExecuteScoped, one hop: the scope is checked again, the request goes    *)
(* out and code comes back, a redirect with its target.                    *)
Redirect(code) == code \in {"301", "303", "307"}

Stripped_Never(c, target) == c.creds

Stripped(c, target) == c.creds /\ target = c.host

NextMethod_Keeps(c, code) == c.method

NextMethod(c, code) == IF code = "303" \/ (code = "301" /\ c.method = "POST") THEN "GET"
    ELSE c.method

Followed(c, code, target) ==
    [c EXCEPT !.hop = @ + 1, !.host = target, !.creds = Stripped(c, target),
              !.method = NextMethod(c, code), !.body = @ /\ NextMethod(c, code) = "POST",
              !.left = @ \/ target # c.from]

Request(i) == [inv |-> i, host |-> call[i].host, method |-> call[i].method, creds |-> call[i].creds,
               from |-> call[i].from, left |-> call[i].left, write |-> call[i].write, hop |-> call[i].hop,
               body |-> call[i].body]

Returns(i, how) ==
    /\ call' = [call EXCEPT ![i] = NoCall]
    /\ IF pc[i] = "fetch" THEN pc' = [pc EXCEPT ![i] = "script"] /\ UNCHANGED <<request, result>>
       ELSE IF how = "egress" THEN Ends(i, FALSE, "egress") /\ UNCHANGED request
       ELSE /\ request' = [request EXCEPT ![i] = how] /\ pc' = [pc EXCEPT ![i] = "script"] /\ UNCHANGED result

ExecuteScoped(i, code, target) ==
    /\ pc[i] \in {"transport", "fetch"}
    /\ IF ~EgressAllowed(call[i].host) THEN Returns(i, "egress") /\ UNCHANGED sent
       ELSE /\ sent' = sent \cup {Request(i)}
            /\ IF ~Redirect(code) THEN Returns(i, code)
               ELSE IF call[i].hop + 1 > MaxRedirectHops THEN Returns(i, "failed")
               ELSE /\ call' = [call EXCEPT ![i] = Followed(@, code, target)]
                    /\ UNCHANGED <<pc, request, result>>
    /\ UNCHANGED <<used, file, disk>>

-----------------------------------------------------------------------------
(* ctx.fs.write: usage without the file there is, plus the new one, must   *)
(* be within the quota; then the file is written.                          *)
Usage == MapThenSumSet(LAMBDA f : disk[f], Files)

FitsQuota(f, n) == (Usage - disk[f]) + n <= Quota

CtxFsWrite(i, f, n) ==
    /\ pc[i] = "script" /\ FitsQuota(f, n)
    /\ file' = [file EXCEPT ![i] = [name |-> f, blocks |-> n]] /\ pc' = [pc EXCEPT ![i] = "write"]
    /\ UNCHANGED <<call, used, request, disk, sent, result>>

FileWritten(i) ==
    /\ pc[i] = "write" /\ disk' = [disk EXCEPT ![file[i].name] = file[i].blocks]
    /\ file' = [file EXCEPT ![i] = NoFile] /\ pc' = [pc EXCEPT ![i] = "script"]
    /\ UNCHANGED <<call, used, request, sent, result>>

CtxFsDelete(i, f) ==
    /\ pc[i] = "script" /\ disk[f] > 0 /\ disk' = [disk EXCEPT ![f] = 0]
    /\ UNCHANGED <<pc, call, used, request, file, sent, result>>

(* The script throws or runs out of instructions.                          *)
ScriptFails(i) ==
    /\ pc[i] = "script" /\ Ends(i, FALSE, "run error")
    /\ UNCHANGED <<call, used, request, file, disk, sent>>

(* It returns: its own verdict holds, otherwise the status decides.  Files *)
(* it names outside its directory fail it, files not there are dropped.    *)
HttpFailed_Never(i) == FALSE

HttpFailed(i) == request[i] = "4xx"

ScriptReturns(i, verdict, escapes) ==
    /\ pc[i] = "script"
    /\ LET said == IF verdict = "none" THEN ~HttpFailed(i) ELSE verdict = "success"
       IN  Ends(i, said /\ ~escapes, IF verdict = "none" THEN "status" ELSE "script")
    /\ UNCHANGED <<call, used, request, file, disk, sent>>

InvNext ==
    \E i \in Invocations :
      \/ ValidateArgs(i) \/ Interpolate(i)
      \/ \E h \in Hosts, m \in Methods : Transport(i, h, m) \/ \E p \in BOOLEAN : DoHttp(i, h, m, p)
      \/ NoRequest(i)
      \/ \E code \in Codes, t \in Hosts : ExecuteScoped(i, code, t)
      \/ \E f \in Files : CtxFsDelete(i, f) \/ \E n \in 1..Quota : CtxFsWrite(i, f, n)
      \/ FileWritten(i) \/ ScriptFails(i)
      \/ \E v \in {"none", "success", "failure"}, e \in BOOLEAN : ScriptReturns(i, v, e)

InvSpec == InvInit /\ [][InvNext]_invVars

-----------------------------------------------------------------------------
(* However a request is passed on, what reaches the network stays within   *)
(* what was begun: hosts of the scope only, "never forward credentials     *)
(* across hosts" (ApiRuntime.cpp:1217) even back to the first one, a write *)
(* only of a call that was one, and no body without one.                   *)
RedirectsStayWithin ==
    \A r \in sent : /\ r.host \in Scope /\ r.hop <= MaxRedirectHops
                    /\ r.left => ~r.creds
                    /\ r.method = "POST" => r.write
                    /\ r.body => r.method = "POST"

(* A run that succeeded by the status alone had no answer that failed.     *)
(* Violated by "failed": a request that got no answer, or too many         *)
(* redirects, has status 0, which is not >= 400 (ApiRuntime.cpp:1531).     *)
FailureShows(hows) ==
    \A i \in Invocations : result[i].success /\ result[i].why = "status" => request[i] \notin hows

RefusalShows == FailureShows({"4xx"})

NoAnswerShows == FailureShows({"failed"})

(* docs/api/SANDBOX.md:130, the quota is "checked before write".  Holds    *)
(* for one run at a time; violated with two, which check before either     *)
(* writes.                                                                 *)
QuotaHolds == Usage <= Quota

-----------------------------------------------------------------------------
(***************************************************************************)
(* What an API package sends and fetches: the gate that holds a script's   *)
(* writes until the owner approves the exact payload (ApiRuntime.cpp), and *)
(* the long polls with their hook (ApiConnectionManager.cpp).              *)
(*                                                                         *)
(* A digest stands for the package, method, address and body it is         *)
(* computed from.  Time is a counter.  One connection; its server keeps    *)
(* numbered messages and answers a cursor with those after it.             *)
(***************************************************************************)

CONSTANTS
    Digests,
    TTL,            \* writeApprovalTtlMs
    MaxPending,     \* kMaxPendingWrites
    MaxTime,        \* bound: the clock
    MaxApprovals,   \* bound: approvals given
    MaxMessages,    \* bound: messages the server gets
    MaxBoots        \* bound: restarts

VARIABLES
    now,
    pending,        \* digest -> [created, expires, approved], for those held
    approvals,      \* ghost: digest -> approvals given
    passed,         \* ghost: digest -> writes let through
    enabled,        \* the package is enabled and approved
    inbox,          \* messages at the server
    conn,           \* [cursor, polling] of the connection
    poll,           \* where the poll thread is
    given,          \* ghost: messages a hook handled, as often as it did
    boots

trafficVars == <<now, pending, approvals, passed, enabled, inbox, conn, poll, given, boots>>
gateVars == <<pending, approvals, passed>>
pollVars == <<enabled, inbox, conn, poll, given>>

NoConn == [cursor |-> 0, polling |-> FALSE]

TrafficInit ==
    /\ now = 0 /\ pending = << >> /\ boots = 0
    /\ approvals = [d \in Digests |-> 0] /\ passed = [d \in Digests |-> 0]
    /\ enabled = TRUE /\ inbox = 0 /\ conn = NoConn /\ poll = [pc |-> "wait"]
    /\ given = [n \in 1 .. MaxMessages |-> 0]

Tock == now < MaxTime /\ now' = now + 1 /\ UNCHANGED <<gateVars, pollVars, boots>>

-----------------------------------------------------------------------------
(* SweepExpiredWritesLocked, at the head of every operation.               *)
Live == {d \in DOMAIN pending : now < pending[d].expires}
Swept == [d \in Live |-> pending[d]]

Without(f, d) == [e \in DOMAIN f \ {d} |-> f[e]]
With(f, d, r) == [e \in DOMAIN f \cup {d} |-> IF e = d THEN r ELSE f[e]]

Evicted_Any(f) ==
    IF Cardinality(DOMAIN f) < MaxPending THEN {f}
    ELSE {Without(f, d) : d \in {e \in DOMAIN f : \A x \in DOMAIN f : f[e].created <= f[x].created}}

(* At the limit the oldest entry not approved is dropped; if all are       *)
(* approved the table grows.                                               *)
Evicted(f) ==
    LET open == {d \in DOMAIN f : ~f[d].approved}
    IN IF Cardinality(DOMAIN f) < MaxPending \/ open = {} THEN {f}
       ELSE {Without(f, d) : d \in {e \in open : \A x \in open : f[e].created <= f[x].created}}

GateWrite_Kept(d) ==
    /\ IF d \in Live /\ pending[d].approved
       THEN pending' = Swept /\ passed' = [passed EXCEPT ![d] = @ + 1]
       ELSE /\ UNCHANGED passed
            /\ IF d \in Live THEN pending' = Swept
               ELSE \E f \in Evicted(Swept) :
                      pending' = With(f, d,
                                      [created |-> now, expires |-> now + TTL, approved |-> FALSE])
    /\ UNCHANGED <<now, approvals, pollVars, boots>>

(* A script's write: let through once per approval, else held; being held  *)
(* again does not lengthen the window.                                     *)
GateWrite(d) ==
    /\ IF d \in Live /\ pending[d].approved
       THEN pending' = Without(Swept, d) /\ passed' = [passed EXCEPT ![d] = @ + 1]
       ELSE /\ UNCHANGED passed
            /\ IF d \in Live THEN pending' = Swept
               ELSE \E f \in Evicted(Swept) :
                      pending' = With(f, d,
                                      [created |-> now, expires |-> now + TTL, approved |-> FALSE])
    /\ UNCHANGED <<now, approvals, pollVars, boots>>

ApproveWrite(d) ==
    /\ approvals[d] < MaxApprovals
    /\ IF d \in Live
       THEN /\ pending' = [Swept EXCEPT ![d].approved = TRUE]
            /\ approvals' = [approvals EXCEPT ![d] = @ + 1]
       ELSE pending' = Swept /\ UNCHANGED approvals
    /\ UNCHANGED <<now, passed, pollVars, boots>>

ListPendingWrites ==
    /\ pending' = Swept
    /\ UNCHANGED <<now, approvals, passed, pollVars, boots>>

-----------------------------------------------------------------------------
ServerReceives ==
    /\ inbox < MaxMessages /\ inbox' = inbox + 1
    /\ UNCHANGED <<now, gateVars, enabled, conn, poll, given, boots>>

SetEnabled ==
    /\ enabled' = ~enabled
    /\ UNCHANGED <<now, gateVars, inbox, conn, poll, given, boots>>

(* Tick claims the connection under the mutex and polls without it.        *)
Tick ==
    /\ poll.pc = "wait" /\ enabled /\ ~conn.polling
    /\ conn' = [conn EXCEPT !.polling = TRUE]
    /\ poll' = [pc |-> "poll", cursor |-> conn.cursor]
    /\ UNCHANGED <<now, gateVars, enabled, inbox, given, boots>>

(* PollConnection: refused or failed (only a count of errors moves, which  *)
(* nothing reads), or a body, whose cursor is taken before the hook runs.  *)
PollFails ==
    /\ poll.pc = "poll"
    /\ poll' = [pc |-> "store", cursor |-> poll.cursor]
    /\ UNCHANGED <<now, gateVars, enabled, inbox, conn, given, boots>>

PollAnswers ==
    /\ poll.pc = "poll"
    /\ poll' = [pc |-> "hook", cursor |-> inbox, after |-> poll.cursor]
    /\ UNCHANGED <<now, gateVars, enabled, inbox, conn, given, boots>>

(* RunHook passes the approval gate again; HandleHookResult only logs a    *)
(* failure.                                                                *)
HandleHookResult(success) ==
    /\ poll.pc = "hook" /\ (success => enabled)
    /\ given' = IF success THEN [n \in DOMAIN given |->
                                   IF n > poll.after /\ n <= poll.cursor THEN given[n] + 1
                                       ELSE given[n]]
                ELSE given
    /\ poll' = [pc |-> "store", cursor |-> poll.cursor]
    /\ UNCHANGED <<now, gateVars, enabled, inbox, conn, boots>>

TickStores ==
    /\ poll.pc = "store"
    /\ conn' = [cursor |-> poll.cursor, polling |-> FALSE]
    /\ poll' = [pc |-> "wait"]
    /\ UNCHANGED <<now, gateVars, enabled, inbox, given, boots>>

(* Neither the held writes nor the cursor are stored.                      *)
Restart ==
    /\ boots < MaxBoots /\ boots' = boots + 1
    /\ pending' = << >> /\ conn' = NoConn /\ poll' = [pc |-> "wait"]
    /\ UNCHANGED <<now, approvals, passed, enabled, inbox, given>>

TrafficNext ==
    \/ Tock \/ ListPendingWrites \/ Restart
    \/ \E d \in Digests : GateWrite(d) \/ ApproveWrite(d)
    \/ ServerReceives \/ SetEnabled \/ Tick \/ PollFails \/ PollAnswers \/ TickStores
    \/ \E success \in BOOLEAN : HandleHookResult(success)

TrafficSpec == TrafficInit /\ [][TrafficNext]_trafficVars

-----------------------------------------------------------------------------
(* A held write goes out at most once per approval of its exact payload,   *)
(* and an approval not yet used is lost only when its time is up or the    *)
(* daemon restarts: never to the limit on held writes.                     *)
OnePassPerApproval == \A d \in Digests : passed[d] <= approvals[d]

KeepsApproval ==
    \A d \in DOMAIN pending :
       pending[d].approved /\ d \notin DOMAIN pending'
         => now >= pending[d].expires \/ passed'[d] = passed[d] + 1 \/ boots' = boots + 1
ApprovalKept == [][KeepsApproval]_trafficVars

(* What the cursor has passed was handled.  Violated: a hook that fails,   *)
(* or a package disabled meanwhile, does not hold the cursor back.         *)
PassedIsGiven == \A n \in DOMAIN given : n <= conn.cursor => given[n] > 0

(* No message is handled twice.  Violated by a restart: the cursor is only *)
(* in memory.                                                              *)
GivenOnce == \A n \in DOMAIN given : given[n] <= 1
=============================================================================

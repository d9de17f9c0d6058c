----------------------------- MODULE AuditTrail -----------------------------
(***************************************************************************)
(* The audit log: services/audit.py, endpoints/audit.py and the handlers   *)
(* that write events.  An event is stamped when it is written, becomes     *)
(* visible when its transaction commits, and is never changed or removed   *)
(* (trigger trg_audit_log_immutable).  Operators read the log page by      *)
(* page, newest first, and MSP admins export a tenant's events of a range  *)
(* of time.  Both read what has committed, in READ COMMITTED transactions: *)
(* each statement sees a snapshot of its own.                              *)
(*                                                                         *)
(* Simplifications: who acts, on what and in whose tenant is a constant of *)
(* an event; the SHA-256 of a payload is the payload (no two of them       *)
(* collide); address and agent of the client are left out.  The list has   *)
(* no filter on the tenant, and audit_log no row-level security, so the    *)
(* list is one for all tenants.  The clock does not run backwards.         *)
(* Reading changes nothing, so one reading at a time is looked at.         *)
(***************************************************************************)
EXTENDS Naturals, FiniteSets

CONSTANTS Events, Users, Tenants,
          NULL,         \* no user, no tenant
          Home,         \* the tenant of a user
          Actor,        \* the user behind an event; NULL: a login nobody has
          Action,       \* what the event records
          Subject,      \* the tenant a tenant or user action is about
          Filters,      \* the sets of events the filters of a list may select
          Windows,      \* the pairs of from_ts and to_ts asked for
          PageSizes,    \* the values of page_size asked for
          Horizon       \* bound on the clock

UserActions == {"vm.create", "vm.delete", "vm.action", "backup.create",
                "backup.cancel", "backup.delete", "auth.login"}
TenantActions == {"tenant.create", "tenant.update", "tenant.suspend",
                  "tenant.reinstate", "tenant.delete", "user.create"}
Actions == UserActions \cup TenantActions \cup {"auth.login_failed"}

ASSUME EventAssumption ==
    /\ IsFiniteSet(Events)
    /\ NULL \notin Users \cup Tenants
    /\ Home \in [Users -> Tenants]
    /\ Actor \in [Events -> Users \cup {NULL}]
    /\ Action \in [Events -> Actions]
    /\ Subject \in [Events -> Tenants]
    /\ \A e \in Events : Actor[e] = NULL => Action[e] = "auth.login_failed"
ASSUME ReadAssumption ==
    /\ Filters \subseteq SUBSET Events
    /\ Windows \subseteq Nat \X Nat
    /\ PageSizes \subseteq Nat \ {0}
    /\ Horizon \in Nat

VARIABLES clock,
          stage,    \* "none", "written", "committed" or "undone", per event
          ts,       \* AuditLog.ts
          listing,  \* a client that reads the list page by page
          export    \* the export that was made last

vars == <<clock, stage, ts, listing, export>>

-----------------------------------------------------------------------------
(* What an event says. *)

(* The tenant the handlers put into the payload: the one acted on in        *)
(* endpoints/tenants.py, the user's own everywhere else.                     *)
PayloadTenant(e) ==
    IF Action[e] \in TenantActions THEN Subject[e]
    ELSE IF Actor[e] = NULL THEN NULL
    ELSE Home[Actor[e]]

Payload(e) ==
    [tenant_id |-> PayloadTenant(e), user_id |-> Actor[e], action |-> Action[e]]

(* Mutant of RowTenant: the tenant of the user goes before the payload's.   *)
RowTenantOfUser(e) ==
    IF Actor[e] # NULL THEN Home[Actor[e]] ELSE Payload(e).tenant_id
RowTenant(e) ==
    IF Payload(e).tenant_id # NULL THEN Payload(e).tenant_id
    ELSE IF Actor[e] # NULL THEN Home[Actor[e]]
    ELSE NULL

RowUser(e) == IF Payload(e).user_id # NULL THEN Payload(e).user_id ELSE Actor[e]

(* The row, with what its hash was taken of. *)
Row(e) == [tenant_id |-> RowTenant(e), user_id |-> RowUser(e),
           action |-> Action[e], payload_hash |-> Payload(e)]

(* GET /audit/{id}/verify *)
Verified(e) ==
    LET row == Row(e)
    IN  [tenant_id |-> row.tenant_id, user_id |-> row.user_id, action |-> row.action]
            = row.payload_hash

-----------------------------------------------------------------------------
(* Reading. *)

(* Mutant of Committed: rows of open transactions can be read as well.       *)
CommittedOrWritten == {e \in Events : stage[e] \in {"written", "committed"}}
Committed == {e \in Events : stage[e] = "committed"}
In(window, e) == window[1] <= ts[e] /\ ts[e] <= window[2]

(* The sets of the n newest events of S; events of one time may come in     *)
(* any order, and in another one in the next statement.                      *)
Newest(n, S) ==
    {T \in SUBSET S : /\ Cardinality(T) = IF n < Cardinality(S) THEN n
                                          ELSE Cardinality(S)
                      /\ \A e \in T, f \in S \ T : ts[f] <= ts[e]}

(* ORDER BY ts DESC OFFSET (page - 1) * page_size LIMIT page_size            *)
Page(n, S) ==
    LET before == Newest((n - 1) * listing.size, S)
        upTo == Newest(n * listing.size, S)
    IN  {P \in SUBSET S : \E B \in before : P \cap B = {} /\ B \cup P \in upTo}

Matching == {e \in Committed \cap listing.filter : In(listing.window, e)}

(* Mutant of HasMore: counts the page to come as read.                       *)
HasMoreButOne == (listing.page + 1) * listing.size < Cardinality(listing.counted)
HasMore == listing.page * listing.size < Cardinality(listing.counted)

NoListing == [pc |-> "idle", page |-> 1, size |-> 1, filter |-> {},
              window |-> <<0, 0>>, known |-> {}, counted |-> {}, got |-> {},
              late |-> FALSE]
NoExport == [made |-> FALSE, tenant |-> NULL, window |-> <<0, 0>>, at |-> 0,
             rows |-> {}, open |-> {}]

Init ==
    /\ clock = 0
    /\ stage = [e \in Events |-> "none"]
    /\ ts = [e \in Events |-> 0]
    /\ listing = NoListing
    /\ export = NoExport

-----------------------------------------------------------------------------
(* Writing. *)

(* Mutant of Stamp: a time cut to a coarser unit.                            *)
StampCoarse == 2 * (clock \div 2)
Stamp == clock

(* write_audit_event: the event joins the transaction of what it records.   *)
Write(e) ==
    /\ stage[e] = "none"
    /\ stage' = [stage EXCEPT ![e] = "written"]
    /\ ts' = [ts EXCEPT ![e] = Stamp]
    /\ UNCHANGED <<clock, listing, export>>

(* db.commit of the handler. *)
Commit(e) ==
    /\ stage[e] = "written"
    /\ stage' = [stage EXCEPT ![e] = "committed"]
    /\ UNCHANGED <<clock, ts, listing, export>>

(* The transaction fails, as on an IntegrityError, and its event with it.   *)
Rollback(e) ==
    /\ stage[e] = "written"
    /\ stage' = [stage EXCEPT ![e] = "undone"]
    /\ UNCHANGED <<clock, ts, listing, export>>

Tick ==
    /\ clock < Horizon
    /\ clock' = clock + 1
    /\ UNCHANGED <<stage, ts, listing, export>>

-----------------------------------------------------------------------------
(* Reading page by page: list_audit_events once for each page. *)

OpenList(filter, window, size) ==
    /\ listing.pc = "idle" /\ ~export.made
    /\ listing' = [NoListing EXCEPT !.pc = "count", !.filter = filter,
                                    !.window = window, !.size = size]
    /\ UNCHANGED <<clock, stage, ts, export>>

(* The first statement: total.  known: what the client could know of when   *)
(* it began.                                                                 *)
Count ==
    /\ listing.pc = "count"
    /\ listing' = [listing EXCEPT
                     !.pc = "select", !.counted = Matching,
                     !.known = IF listing.page = 1 THEN Matching ELSE @]
    /\ UNCHANGED <<clock, stage, ts, export>>

(* The second statement: the page; the client goes on if has_more.          *)
Select ==
    /\ listing.pc = "select"
    /\ \E P \in Page(listing.page, Matching) :
         listing' = [listing EXCEPT
                       !.pc = IF HasMore THEN "count" ELSE "done",
                       !.page = IF HasMore THEN @ + 1 ELSE @,
                       !.got = @ \cup P,
                       !.late = Matching # listing.counted]
    /\ UNCHANGED <<clock, stage, ts, export>>

(* The client stops reading. *)
Close ==
    /\ listing.pc = "done" \/ export.made
    /\ listing' = NoListing
    /\ export' = NoExport
    /\ UNCHANGED <<clock, stage, ts>>

(* export_audit_events_csv: one statement; a range that ends before it       *)
(* begins is refused with 422.  open: the events not committed yet.          *)
Export(tenant, window) ==
    /\ window[1] <= window[2]
    /\ listing.pc = "idle" /\ ~export.made
    /\ export' = [made |-> TRUE, tenant |-> tenant, window |-> window, at |-> clock,
                  rows |-> {e \in Committed : RowTenant(e) = tenant /\ In(window, e)},
                  open |-> {e \in Events : stage[e] = "written"}]
    /\ UNCHANGED <<clock, stage, ts, listing>>

Handler(e) == Write(e) \/ Commit(e) \/ Rollback(e)

Next ==
    \/ \E e \in Events : Handler(e)
    \/ \E filter \in Filters, window \in Windows, size \in PageSizes :
         OpenList(filter, window, size)
    \/ Count
    \/ Select
    \/ Close
    \/ \E tenant \in Tenants, window \in Windows : Export(tenant, window)
    \/ Tick

Spec == Init /\ [][Next]_vars

-----------------------------------------------------------------------------
(* Clocks, events, what a listing has and what an export had have their     *)
(* types; a listing has read only what is committed.                         *)
LogOK ==
    /\ clock \in Nat
    /\ stage \in [Events -> {"none", "written", "committed", "undone"}]
    /\ ts \in [Events -> Nat]
ListingOK ==
    /\ listing \in [pc : {"idle", "count", "select", "done"}, page : Nat \ {0}, size : Nat \ {0},
                    filter : SUBSET Events, window : Nat \X Nat,
                    known : SUBSET Events, counted : SUBSET Events,
                    got : SUBSET Events, late : BOOLEAN]
    /\ listing.got \subseteq Matching
    /\ listing.counted \subseteq Matching
ExportOK ==
    /\ export \in [made : BOOLEAN, tenant : Tenants \cup {NULL}, window : Nat \X Nat,
                   at : Nat, rows : SUBSET Events, open : SUBSET Events]
    /\ export.rows \subseteq Committed
TypeOK == LogOK /\ ListingOK /\ ExportOK

(* Every committed event verifies: what _verification_payload rebuilds from *)
(* the row is what the handler had hashed, whoever acted and for whichever   *)
(* tenant, a login of nobody included.                                       *)
EventsVerify == \A e \in Committed : Verified(e)

(* Pages move down as events commit between the requests, and count and      *)
(* select see different logs; yet a client that reads until has_more is      *)
(* false misses an event it could know of only in two ways: the event has    *)
(* its timestamp in common with one that was read, or an event committed     *)
(* between count and select of the last page, and then what is missed is     *)
(* older than all that was read.                                             *)
PagingMisses ==
    listing.pc = "done" =>
        \A e \in listing.known \ listing.got :
            \/ \E f \in listing.got : ts[f] = ts[e]
            \/ listing.late /\ \A f \in listing.got : ts[e] < ts[f]

(* An export of a range that is over misses an event of the range only if   *)
(* its transaction was open when the export was made: timestamps are taken   *)
(* before the commit, so the log of the past can still grow, but only by     *)
(* those.                                                                    *)
ExportMisses ==
    export.made /\ export.window[2] < export.at =>
        \A e \in Committed :
            RowTenant(e) = export.tenant /\ In(export.window, e) =>
                e \in export.rows \cup export.open
=============================================================================

--------------------------------- MODULE Listing ---------------------------------
(***************************************************************************)
(* The list endpoints of api/routes.py, read page by page while rows are   *)
(* written: rows = repo.list...; rows[offset : offset + max(1, min(limit,  *)
(* cap))].  Every page is a new query and a new transaction.               *)
(*                                                                         *)
(* Behaviours differ in the table that is read (kind):                     *)
(*   recent  newest first (policy decisions, promotions, events, access)   *)
(*   audit   newest first; reading a page writes a row of the same table   *)
(*   active  newest first, without the rows disabled (subscriptions)       *)
(*   plain   in no order (incidents, exports)                              *)
(*   global  in no order, over the tenants of the reader (tenants, search) *)
(*                                                                         *)
(* The client that goes on by the limit it asked for until it has reached  *)
(* X-Total-Count, or a page is empty, is external.                         *)
(***************************************************************************)
EXTENDS Rbac, Integers, FiniteSets, SequencesExt

CONSTANTS
  MaxRows,     \* bound: the rows ever written
  RowTenants,
  Readers,     \* clients, each reading one listing
  Accounts,    \* the principals they may be
  ReadPermission,
  PageCap,     \* the most rows a page has (200 or 500)
  Limits,      \* what clients ask for
  Unnamed

ASSUME ListAssumption ==
  /\ MaxRows \in Nat /\ PageCap \in Nat \ {0}
  /\ Limits \subseteq Int

VARIABLES
  kind,   \* the table of this behaviour
  rows,   \* its rows in the order of their creation stamps
  reader  \* the clients

listVars == <<kind, rows, reader>>

NewReader == [pc |-> "new", by |-> Unnamed, tenant |-> Unnamed, limit |-> 1, start |-> 0,
              offset |-> 0, first |-> {}, got |-> {}, own |-> 0, shrunk |-> FALSE]

Reader ==
  [pc : {"new", "start", "read", "done", "failed"}, by : Accounts \union {Unnamed},
   tenant : RowTenants \union {Unnamed}, limit : Int, start : Int, offset : Int,
   first : SUBSET (1 .. MaxRows), got : SUBSET (1 .. MaxRows), own : 0 .. MaxRows,
   shrunk : BOOLEAN]

ListTypeOK ==
  /\ kind \in {"recent", "audit", "active", "plain", "global"}
  /\ rows \in Seq([state : {"flushed", "shown", "gone"}, tenant : RowTenants])
  /\ Len(rows) <= MaxRows
  /\ reader \in [Readers -> Reader]

ListInit ==
  /\ kind \in {"recent", "audit", "active", "plain", "global"}
  /\ rows = <<>>
  /\ reader = [q \in Readers |-> NewReader]

--------------------------------------------------------------------------------
(* The table *)

\* The transaction of a request that writes a row begins, which is the row's
\* created_at (now() of PostgreSQL); nobody else sees the row yet.
Flushed(tenant) == Append(rows, [state |-> "flushed", tenant |-> tenant])

CreateRow ==
  /\ Len(rows) < MaxRows
  /\ \E t \in RowTenants : rows' = Flushed(t)
  /\ UNCHANGED <<kind, reader>>

CommitRow(r) ==
  /\ rows[r].state = "flushed"
  /\ rows' = [rows EXCEPT ![r].state = "shown"]
  /\ UNCHANGED <<kind, reader>>

\* With it fails the read that wrote it, if one did.
RollBackRow(r) ==
  /\ rows[r].state = "flushed"
  /\ rows' = [rows EXCEPT ![r].state = "gone"]
  /\ reader' = [q \in Readers |->
       IF reader[q].own = r THEN [reader[q] EXCEPT !.pc = "failed"] ELSE reader[q]]
  /\ UNCHANGED kind

\* delete_subscription: the row stays, DISABLED, and is no longer listed.
DisableRow(r) ==
  /\ kind = "active"
  /\ rows[r].state = "shown"
  /\ rows' = [rows EXCEPT ![r].state = "gone"]
  /\ reader' = [q \in Readers |->
       [reader[q] EXCEPT !.shrunk = @ \/ reader[q].pc = "read"]]
  /\ UNCHANGED kind

--------------------------------------------------------------------------------
(* The endpoints *)

\* Mutant: the rows of every tenant.
VisibleAll(q) == {r \in DOMAIN rows : rows[r].state = "shown"}

Visible(q) ==
  {r \in DOMAIN rows :
     /\ rows[r].state = "shown"
     /\ IF kind = "global" THEN rows[r].tenant \in TenantScope(reader[q].by, RowTenants)
        ELSE rows[r].tenant = reader[q].tenant}

\* What the query may return.
Results(q) ==
  {list \in SetToSeqs(Visible(q)) :
     kind \in {"plain", "global"} \/ \A i, j \in DOMAIN list : i < j => list[i] > list[j]}

\* The length of a page that was asked for.
PageSize(limit) ==
  LET asked == IF limit < PageCap THEN limit ELSE PageCap
  IN  IF asked < 1 THEN 1 ELSE asked

\* A slice of Python: an index below zero counts from the end.
Index(i, n) == IF i < 0 THEN (IF i + n < 0 THEN 0 ELSE i + n) ELSE IF i < n THEN i ELSE n

\* Mutant: offsets count from one.
PageFromOne(list, offset, limit) ==
  SubSeq(list, Index(offset, Len(list)) + 2, Index(offset + PageSize(limit), Len(list)))

Page(list, offset, limit) ==
  SubSeq(list, Index(offset, Len(list)) + 1, Index(offset + PageSize(limit), Len(list)))

\* A client turns to a listing it has the permission for: in the tenant, or, over
\* all tenants, none is asked for.
BeginReading(q) ==
  /\ reader[q].pc = "new"
  /\ \E a \in Accounts, t \in RowTenants, n \in Limits, o \in {-1, 0} :
       /\ kind = "global" \/ HasPermission(a, ReadPermission, t)
       /\ reader' = [reader EXCEPT ![q] =
            [NewReader EXCEPT !.pc = "start", !.by = a, !.tenant = t, !.limit = n,
                              !.start = o, !.offset = o]]
  /\ UNCHANGED <<kind, rows>>

\* One page.  A page of the audit trail is an audit event itself, which commits
\* before the client has its answer.
ReadPage(q) ==
  LET me == reader[q]
      own == IF kind = "audit" THEN Len(rows) + 1 ELSE 0
  IN  /\ me.pc \in {"start", "read"}
      /\ me.own # 0 => rows[me.own].state = "shown"
      /\ own <= MaxRows
      /\ rows' = IF kind = "audit" THEN Flushed(me.tenant) ELSE rows
      /\ \E list \in Results(q) :
           LET page == ToSet(Page(list, me.offset, me.limit))
               over == me.offset + me.limit >= Len(list) \/ page = {}
           IN  reader' = [reader EXCEPT ![q] =
                 [me EXCEPT !.pc = IF over THEN "done" ELSE "read", !.own = own,
                            !.offset = @ + me.limit, !.got = @ \union page,
                            !.first = IF me.pc = "start" THEN Visible(q) ELSE @]]
      /\ UNCHANGED kind

--------------------------------------------------------------------------------

ListNext ==
  \/ CreateRow
  \/ \E r \in DOMAIN rows : CommitRow(r) \/ RollBackRow(r) \/ DisableRow(r)
  \/ \E q \in Readers : BeginReading(q) \/ ReadPage(q)

ListSpec == ListInit /\ [][ListNext]_listVars

(* Properties *)

\* A client that pages through a listing that is newest first gets every row that
\* was there when it began, whatever is committed in between and in which order,
\* if it begins at the start, asks for no more than a page may have, and no row is
\* disabled meanwhile (that of a newer row moves the others up as well).  In the
\* other listings the order may change between pages.
PagesAreComplete ==
  \A q \in Readers :
    LET me == reader[q]
    IN  /\ me.pc = "done" /\ kind \in {"recent", "audit", "active"}
        /\ me.start = 0 /\ me.limit \in 1 .. PageCap /\ ~me.shrunk
        => me.first \subseteq me.got

\* No page shows a row of a tenant in which the reader has no role with the
\* permission (if the configuration lists it, or else lets everybody), or, in the
\* listings over all tenants, no role at all.
PagesKeepToTenants ==
  \A q \in Readers : \A r \in reader[q].got :
    IF kind = "global"
    THEN IsPlatformAdmin(reader[q].by) \/ rows[r].tenant \in DOMAIN reader[q].by.tenants
    ELSE IF ReadPermission \in DOMAIN Permissions
    THEN \E role \in Permissions[ReadPermission] :
           \/ role \in reader[q].by.realm
           \/ /\ rows[r].tenant \in DOMAIN reader[q].by.tenants
              /\ role \in reader[q].by.tenants[rows[r].tenant]
    ELSE UnlistedAllowed

================================================================================

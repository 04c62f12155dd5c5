------------------------------ MODULE PageKit ------------------------------
(***************************************************************************)
(* The words in which the pages of the three front ends, and the handlers  *)
(* they call, are described in Api, StaffPages, FieldPages, PortalPages    *)
(* and AdminPages.  Screens gives them their meaning.                      *)
(***************************************************************************)
EXTENDS Integers, Sequences, SequencesExt

-----------------------------------------------------------------------------
(* What a handler of the API does to one row: how it tests the status the   *)
(* row has, and the statuses it may give it.                                *)
Same == {}                        \* the status is not what it changes

Handler(test, from, to) ==
  [test |-> test, from |-> from, to |-> to, others |-> {}, choosy |-> FALSE]

Insert(status) == Handler("insert", {}, {status})

\* UPDATE ... WHERE status = ...: one statement tests and writes.
GuardedAny(from, to) == Handler("where", from, {to})
Guarded(from, to) == GuardedAny({from}, to)

\* A SELECT decides, and nothing is written.  No statuses: any row will do.
Reads(from) == Handler("read", from, Same)

\* A SELECT decides, a later statement writes.  No statuses: any row will do.
Checked(from, to) == Handler("select", from, to)

\* An UPDATE or DELETE that only needs the row to be there.
Blind(to) == Handler("none", {}, to)
Delete == Blind({"deleted"})

\* A handler that may refuse a row with a status it agrees to: for the values it
\* is sent, for other rows, for the configuration, or for another service.
Choosy(d) == [d EXCEPT !.choosy = TRUE]

\* Another statement goes first, and gives this status to every row that has
\* the status the handler is about to give; its error is dropped.
Sole(d, other) == [d EXCEPT !.others = {other}]

\* The statuses of a row, if there is one, that a handler agrees to.
Accepts(d, status) ==
  CASE d.test = "where" -> status \in d.from
    [] d.test \in {"select", "read"} -> d.from = {} \/ status \in d.from
    [] OTHER -> TRUE

-----------------------------------------------------------------------------
(* What the page does with the answer of a call.                            *)
Shows ==
  { "add",       \* the new row is put into the list
    "put",       \* the row replaces the one that is shown
    "upsert",    \* it does, or is added
    "mark",      \* the copy of the row from when the control was pressed is
                 \* shown, with the status the call has given it
    "drop",      \* the row is taken out of the list
    "oust",      \* it is shown, and rows shown as "primary" are taken out
    "reload",    \* the list is loaded again, and the handler waits for it
    "refetch",   \* the list is loaded again, and the handler does not wait
    "leave",     \* the browser goes to another page
    "nothing" }

(* How a control is kept from being pressed twice.                          *)
NoFlag == "none"      \* not at all
RowSlot == "row"      \* by one variable that holds the id of the busy row
Busy == "busy"        \* by a Boolean state variable, the page's only one
\* Any other string: a Boolean state variable of that name.

Call(handler, when, show) ==
  [does |-> handler, when |-> when, show |-> show, during |-> NoFlag]

Control(kind, from, flag, call) ==
  [kind |-> kind, from |-> from, flag |-> flag, calls |-> <<call>>, fatal |-> FALSE]

Create(handler, flag, show) == Control("create", {}, flag, Call(handler, {}, show))

\* A control of a row, offered while the row is shown with a status of from
\* (with any status if from is empty).
Change(handler, from, flag, show) == Control("change", from, flag, Call(handler, {}, show))

\* The handler goes on with another call, if the row was shown with a status
\* of when (whatever its status, if when is empty).
Then(op, handler, when, show) ==
  [op EXCEPT !.calls = Append(@, Call(handler, when, show))]

\* The first call is that of another control, made through its function, which
\* raises its own flag and lowers it, whoever else has raised it.
Through(op, flag) == [op EXCEPT !.calls[1].during = flag]

\* An error of the handler takes the place of the page, for good.
Fatal(op) == [op EXCEPT !.fatal = TRUE]

-----------------------------------------------------------------------------
(* What must have happened before the controls can be used:                 *)
(*   "open"   nothing                                                       *)
(*   "rows"   rows are hidden until the first load has ended                *)
(*   "list"   rows are hidden while any load is under way                   *)
(*   "ended"  the first load has ended, well or badly                       *)
(*   "data"   the first load has brought a row                              *)
(* and when the page loads:                                                 *)
(*   "none"   never                                                         *)
(*   "once"   on opening                                                    *)
(*   "keyed"  and again whenever a parameter changes                        *)
(*   "lazy"   when a list inside a row is unfolded, and again when it is    *)
(*            unfolded and nothing is known of it yet                       *)
(* No load is cancelled, and the controls can be used while one is under    *)
(* way, unless the gate prevents it.                                        *)
Page(gate, loads, ops) == [gate |-> gate, loads |-> loads, ops |-> ops, empties |-> FALSE]

ReadOnly(gate) == Page(gate, "once", {})

\* A load that fails leaves an empty list.
Emptied(p) == [p EXCEPT !.empties = TRUE]

Gone == {"absent", "deleted"}   \* of a row that is not there

IsHandler(d) ==
  /\ d.test = "insert" => d.to # Same
  /\ d.test = "read" => d.to = Same
  /\ (d.from \cup d.others) \cap Gone = {} /\ "absent" \notin d.to

\* A control makes at least one call; a creation has no row before its first.
\* Nothing is shown of a row that the call has deleted.
IsOp(op) ==
  /\ op.calls \in Seq(ToSet(op.calls)) /\ op.calls # <<>>
  /\ op.kind = "create" => op.calls[1].does.test = "insert"
  /\ op.from \cap Gone = {}
  /\ op.fatal \in BOOLEAN
  /\ \A c \in ToSet(op.calls) :
       /\ IsHandler(c.does)
       /\ c.show \in {"add", "put", "upsert", "oust", "mark"} => "deleted" \notin c.does.to
       /\ c.show = "mark" => c.does.test # "insert"
       /\ c.during # RowSlot

IsPage(p) == \A op \in p.ops : IsOp(op)

StatusesOf(p) ==
  LET calls == UNION {ToSet(op.calls) : op \in p.ops}
      named == ((UNION {op.from : op \in p.ops})
                \cup (UNION {c.does.from \cup c.does.to \cup c.does.others : c \in calls})) \ {"deleted"}
  IN IF named = {} THEN {"kept"} ELSE named

-----------------------------------------------------------------------------
(* Habits of the pages, on which what they show depends.                    *)
Nested(p) == (UNION {{c.during : c \in ToSet(op.calls)} : op \in p.ops}) \ {NoFlag}
Flags(p) == ({op.flag : op \in p.ops} \ {NoFlag, RowSlot}) \cup Nested(p)
ShownBy(p) == UNION {{c.show : c \in ToSet(op.calls)} : op \in p.ops}

\* All controls of the page share one Boolean flag.
OneFlag(p) == Nested(p) = {} /\ \E f \in Flags(p) : \A op \in p.ops : op.flag = f

\* What is put into a list has just been made.
AddsWhatItMade(p) ==
  \A op \in p.ops : \A c \in ToSet(op.calls) : c.show = "add" => c.does.test = "insert"

\* A page with one flag that loads once waits for the list it loads again, and
\* shows what every call has done: by its answer, or at the end by such a load.
WaitsForReloads(p) == "refetch" \notin ShownBy(p)

ShowsItsWork(p) ==
  \A op \in p.ops : \A n \in DOMAIN op.calls : LET c == op.calls[n] IN
    /\ c.show \in {"add", "put", "upsert", "drop", "reload", "leave"}
    /\ c.show \in {"drop", "reload", "leave"} => n = Len(op.calls)
    /\ c.show = "put" => op.kind # "create" /\ c.does.test # "insert"
    /\ c.show = "drop" => c.does.to = {"deleted"}

KeepsUp(p) ==
  p.loads = "once" /\ OneFlag(p) =>
    /\ WaitsForReloads(p) /\ ~p.empties /\ "mark" \notin ShownBy(p)
    /\ "oust" \in ShownBy(p) \/ ShowsItsWork(p)

\* A call finds the row as the last call before it that gave it a status has
\* left it, or else as the page showed it when the control was pressed.
Gives(op, m) == op.calls[m].does.to # Same /\ (op.calls[m].does.test = "insert" => op.kind = "create")
LastToGive(op, n, m) == m \in 1 .. n - 1 /\ Gives(op, m) /\ \A k \in m + 1 .. n - 1 : ~Gives(op, k)

Expected(op, n, status) ==
  \/ \E m \in 1 .. n - 1 : LastToGive(op, n, m) /\ status \in op.calls[m].does.to
  \/ /\ \A m \in 1 .. n - 1 : ~Gives(op, m)
     /\ status # "deleted" /\ (op.from = {} \/ status \in op.from)
     /\ \A k \in 2 .. n : op.calls[k].when = {} \/ status \in op.calls[k].when

\* A control is offered where the handlers behind it agree to the status.
OffersWhatIsAccepted(p) ==
  \A op \in p.ops : \A n \in DOMAIN op.calls : op.calls[n].does.test # "insert" =>
    \A status \in StatusesOf(p) \cup {"deleted"} : Expected(op, n, status) =>
      status # "deleted" /\ Accepts(op.calls[n].does, status)
=============================================================================

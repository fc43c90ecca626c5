---------------------------- MODULE Access_proofs ---------------------------
(***************************************************************************)
(* Proofs about one request on the rows of a tenant: for any callers,      *)
(* handlers, deployments and databases, and whatever other requests do     *)
(* meanwhile, it acts within the rights of its caller, leaves no strays,   *)
(* answers what it did and tells it.                                       *)
(*                                                                         *)
(* The table of routes is data, so it is proved first, route by route,     *)
(* that each has the form the actions rely on (Sane).  Then what each      *)
(* action does to each field, once, and the invariants from that.          *)
(***************************************************************************)
EXTENDS Access, TLAPS

----------------------------------------------------------------------------
(* The route table, as data.  A builder of module Endpoints takes a route in *)
(* normal form to one in normal form; the sequences are kept folded, so that *)
(* a route is one term for the provers.                                      *)

Form(scope, gate, any, own, on, lists, looks, does, tells) ==
  [scope |-> scope, gate |-> gate, any |-> any, own |-> own, on |-> on,
   lists |-> lists, looks |-> looks, does |-> does, tells |-> tells]
Empty == <<>>
Then(seq, x) == Append(seq, x)
Must(op, kind) == [op |-> op, kind |-> kind, must |-> TRUE]
May(op, kind) == [op |-> op, kind |-> kind, must |-> FALSE]
Sees(kind, missing) == [kind |-> kind, missing |-> missing]

\* What a builder makes of a route.
LEMMA RouteForm ==
  ASSUME NEW scope, NEW gate, NEW any, NEW on
  PROVE  Route(scope, gate, any, on)
           = Form(scope, gate, any, "none", on, "none", Empty, Empty, "nobody")
  BY DEF Route, Form, Empty

LEMMA OrOwnForm ==
  ASSUME NEW scope, NEW gate, NEW any, NEW own, NEW on, NEW lists, NEW looks, NEW does,
         NEW tells, NEW p
  PROVE  OrOwn(p, Form(scope, gate, any, own, on, lists, looks, does, tells))
           = Form(scope, gate, any, p, on, lists, looks, does, tells)
  BY DEF OrOwn, Form

LEMMA ListingForm ==
  ASSUME NEW scope, NEW gate, NEW any, NEW own, NEW on, NEW lists, NEW looks, NEW does,
         NEW tells, NEW k
  PROVE  Listing(k, Form(scope, gate, any, own, on, lists, looks, does, tells))
           = Form(scope, gate, any, own, on, k, looks, does, tells)
  BY DEF Listing, Form

LEMMA TellingForm ==
  ASSUME NEW scope, NEW gate, NEW any, NEW own, NEW on, NEW lists, NEW looks, NEW does,
         NEW tells, NEW t
  PROVE  Telling(t, Form(scope, gate, any, own, on, lists, looks, does, tells))
           = Form(scope, gate, any, own, on, lists, looks, does, t)
  BY DEF Telling, Form

LEMMA LookingForm ==
  ASSUME NEW scope, NEW gate, NEW any, NEW own, NEW on, NEW lists, NEW looks, NEW does,
         NEW tells, NEW k, NEW m
  PROVE  Looking(k, m, Form(scope, gate, any, own, on, lists, looks, does, tells))
           = Form(scope, gate, any, own, on, lists, Then(looks, Sees(k, m)), does, tells)
  BY DEF Looking, Form, Sees, Then

LEMMA DoingForm ==
  ASSUME NEW scope, NEW gate, NEW any, NEW own, NEW on, NEW lists, NEW looks, NEW does,
         NEW tells, NEW op, NEW k
  PROVE  Doing(op, k, Form(scope, gate, any, own, on, lists, looks, does, tells))
           = Form(scope, gate, any, own, on, lists, looks, Then(does, Must(op, k)), tells)
  BY DEF Doing, Form, Must, Then

LEMMA TryingForm ==
  ASSUME NEW scope, NEW gate, NEW any, NEW own, NEW on, NEW lists, NEW looks, NEW does,
         NEW tells, NEW op, NEW k
  PROVE  Trying(op, k, Form(scope, gate, any, own, on, lists, looks, does, tells))
           = Form(scope, gate, any, own, on, lists, looks, Then(does, May(op, k)), tells)
  BY DEF Trying, Form, May, Then

\* An append, element by element.
LEMMA EmptyIs ==
  ASSUME NEW S
  PROVE  Empty \in Seq(S) /\ Len(Empty) = 0
  BY DEF Empty

\* An append to a sequence of a set.
LEMMA ThenIs ==
  ASSUME NEW S, NEW seq \in Seq(S), NEW x \in S
  PROVE  /\ Then(seq, x) \in Seq(S) /\ Len(seq) \in Nat
         /\ Len(Then(seq, x)) = Len(seq) + 1
         /\ Then(seq, x)[Len(seq) + 1] = x
         /\ \A i \in 1 .. Len(seq) : Then(seq, x)[i] = seq[i]
  BY DEF Then

----------------------------------------------------------------------------
(* What the proofs need of a route *)

Tabled ==
  {"org", "member", "app", "credential", "storage", "pool", "access", "key", "generation",
   "log", "artifact", "delivery", "audit", "invitation", "end_user", "limits", "model",
   "setting", "cache", "webhook"}

\* The rows, by name.
LEMMA KindsAre == Kinds = Tabled
  BY DEF Kinds, Stores, Shared, Tabled

Ops == {"insert", "upsert", "keep", "touch", "update", "promote", "delete", "cascade", "own",
        "send"}
Statement == [op : Ops, kind : Tabled, must : BOOLEAN]
Sight == [kind : Tabled \cup {"mode", "ids"},
          missing : {"400", "404", "409", "fresh", "scan"}]

\* An organization is never made, an application only inserted; both go by a cascade.
Placed(s) ==
  /\ s.kind = "org" => s.op \in {"update", "cascade"}
  /\ s.kind = "app" => s.op \in {"insert", "update", "cascade"}
  /\ s.op = "cascade" => s.kind \in {"org", "app"}

\* The statements that report a missing row, whatever the database.
Told(op, kind) ==
  \/ op = "update" /\ kind \in {"org", "app", "key", "generation"}
  \/ op = "cascade" /\ kind \in {"org", "app"}
  \/ op = "promote" /\ kind = "member"
  \/ op = "delete" /\ kind \in {"credential", "storage", "end_user", "limits", "model"}

\* A statement the handler insists on makes its row, or reports that it is missing, or
\* comes first, after a look at it.
Answerable(looks, does, i) ==
  LET s == does[i]
  IN  \/ ~s.must \/ s.op \in Inserts \cup {"send"} \/ Told(s.op, s.kind)
      \/ i = 1 /\ \E j \in 1 .. Len(looks) : looks[j].kind = s.kind /\ looks[j].missing = "404"

\* What is written back was read before.
KeptSeen(looks, s) == s.op = "keep" => \E j \in 1 .. Len(looks) : looks[j].kind = s.kind

Looks(looks) ==
  looks \in Seq(Sight)
  /\ \A j \in 1 .. Len(looks) : looks[j].missing # "scan" => looks[j].kind \in Tabled

Unscanned(looks) == \A j \in 1 .. Len(looks) : looks[j].missing # "scan"

Written(looks, does) ==
  /\ Looks(looks) /\ does \in Seq(Statement)
  /\ \A i \in 1 .. Len(does) : Placed(does[i]) /\ KeptSeen(looks, does[i]) /\ Answerable(looks, does, i)
  /\ Unscanned(looks) \/ (does = Empty /\ \A j \in 1 .. Len(looks) : looks[j].missing = "scan")

\* What each gate stands before.
Gated(scope, gate, on, lists, does, tells) ==
  /\ gate \in {"member", "tenant", "spend", "row", "tracked", "managed", "list", "logs",
               "gateway", "global", "cache", "permission", "self", "caller"}
  /\ lists \in {"none", "key", "generation", "log", "audit"}
  /\ on \in {"path", "app", "active", "context", "key", "generation", "artifact", "platform"}
  /\ on = "platform" <=> gate \in {"gateway", "global", "cache"}
  /\ gate \in {"member", "tenant", "spend"} => on \in {"path", "app", "active"} /\ lists = "none"
  /\ gate \in {"row", "tracked", "managed"} => on \in {"key", "generation", "artifact"}
  /\ gate \in {"list", "logs", "permission"} => on = "context"
  /\ gate = "permission" => lists = "none"
  /\ gate \in {"tracked", "logs", "global", "self", "caller"} => does = Empty
  /\ gate \in {"row", "list"} =>
       scope = "admin" \/ \A i \in 1 .. Len(does) : does[i].kind = "generation"
  /\ gate = "cache" => scope = "admin"
  /\ tells \in {"nobody", "target", "context"}
  /\ tells = "context" => gate \in {"row", "list", "permission", "gateway", "cache"}

Sane(r) ==
  Gated(r.scope, r.gate, r.on, r.lists, r.does, r.tells) /\ Written(r.looks, r.does)

\* A handler that looks at nothing and writes nothing.
LEMMA NothingWritten == Written(Empty, Empty) /\ Unscanned(Empty)
  BY EmptyIs DEF Written, Unscanned, Looks

\* One more row to look at.
LEMMA LookWritten ==
  ASSUME NEW looks, NEW does, Written(looks, does), Unscanned(looks), NEW kind \in Tabled,
         NEW missing \in {"400", "404", "409", "fresh"}
  PROVE  /\ Written(Then(looks, Sees(kind, missing)), does)
         /\ Unscanned(Then(looks, Sees(kind, missing)))
  <1> DEFINE x == Sees(kind, missing)
             more == Then(looks, x)
  <1>1. x \in Sight /\ x.kind = kind /\ x.missing = missing /\ looks \in Seq(Sight)
    BY DEF Sees, Sight, Written, Looks
  <1>2. /\ more \in Seq(Sight) /\ Len(looks) \in Nat /\ Len(more) = Len(looks) + 1
        /\ more[Len(looks) + 1] = x
        /\ \A j \in 1 .. Len(looks) : more[j] = looks[j]
    BY <1>1, ThenIs
  <1> HIDE DEF x, more
  <1>3. Looks(more)
    BY <1>1, <1>2 DEF Written, Looks
  <1>4. Unscanned(more)
    BY <1>1, <1>2 DEF Unscanned
  <1>5. ASSUME NEW i \in 1 .. Len(does)
        PROVE  KeptSeen(more, does[i]) /\ Answerable(more, does, i)
    <2>1. KeptSeen(looks, does[i]) /\ Answerable(looks, does, i)
      BY DEF Written
    <2>2. \A j \in 1 .. Len(looks) : j \in 1 .. Len(more) /\ more[j] = looks[j]
      BY <1>2
    <2> QED BY <2>1, <2>2 DEF KeptSeen, Answerable
  <1> QED
    BY <1>3, <1>4, <1>5 DEF Written, x, more

\* One more statement.
LEMMA StatementWritten ==
  ASSUME NEW looks, NEW does, Written(looks, does), Unscanned(looks), NEW s \in Statement,
         Placed(s), KeptSeen(looks, s),
         \/ ~s.must \/ s.op \in Inserts \cup {"send"} \/ Told(s.op, s.kind)
         \/ does = Empty /\ \E j \in 1 .. Len(looks) : looks[j].kind = s.kind /\ looks[j].missing = "404"
  PROVE  Written(looks, Then(does, s))
  <1> DEFINE more == Then(does, s)
  <1>1. /\ more \in Seq(Statement) /\ Len(does) \in Nat /\ Len(more) = Len(does) + 1
        /\ more[Len(does) + 1] = s
        /\ \A i \in 1 .. Len(does) : more[i] = does[i]
    <2>1. does \in Seq(Statement)
      BY DEF Written
    <2> HIDE DEF Statement
    <2>2. /\ Then(does, s) \in Seq(Statement) /\ Len(does) \in Nat
          /\ Len(Then(does, s)) = Len(does) + 1
          /\ Then(does, s)[Len(does) + 1] = s
          /\ \A i \in 1 .. Len(does) : Then(does, s)[i] = does[i]
      BY <2>1, ThenIs
    <2> QED BY <2>2
  <1>2. does = Empty => Len(does) = 0
    BY EmptyIs
  <1> HIDE DEF more
  <1>3. ASSUME NEW i \in 1 .. Len(more)
        PROVE  Placed(more[i]) /\ KeptSeen(looks, more[i]) /\ Answerable(looks, more, i)
    <2>1. CASE i \in 1 .. Len(does)
      <3>1. Placed(does[i]) /\ KeptSeen(looks, does[i]) /\ Answerable(looks, does, i)
        BY <2>1 DEF Written
      <3> QED BY <1>1, <2>1, <3>1 DEF Answerable
    <2>2. CASE i = Len(does) + 1
      BY <1>1, <1>2, <2>2 DEF Answerable
    <2> QED BY <1>1, <2>1, <2>2
  <1> QED
    BY <1>1, <1>3 DEF Written, more

\* The statements of the handlers, by what makes them answerable.
Plain == Tabled \ {"org", "app"}

LEMMA MakeWritten ==
  ASSUME NEW looks, NEW does, Written(looks, does), Unscanned(looks),
         NEW op \in {"insert", "upsert", "touch", "send"}, NEW kind \in Tabled \ {"org"},
         kind = "app" => op = "insert"
  PROVE  Written(looks, Then(does, Must(op, kind)))
  <1>1. /\ Must(op, kind) \in Statement /\ Must(op, kind).op = op /\ Must(op, kind).kind = kind
    BY DEF Must, Statement, Ops, Tabled
  <1> QED
    BY <1>1, StatementWritten DEF Placed, KeptSeen, Inserts

LEMMA ToldWritten ==
  ASSUME NEW looks, NEW does, Written(looks, does), Unscanned(looks),
         NEW op, NEW kind, Told(op, kind)
  PROVE  Written(looks, Then(does, Must(op, kind)))
  <1>1. /\ Must(op, kind) \in Statement /\ Must(op, kind).op = op /\ Must(op, kind).kind = kind
    BY DEF Must, Statement, Ops, Tabled, Told
  <1>2. Placed(Must(op, kind)) /\ KeptSeen(looks, Must(op, kind))
    BY <1>1 DEF Placed, KeptSeen, Told
  <1> QED
    BY <1>1, <1>2, StatementWritten

LEMMA TryWritten ==
  ASSUME NEW looks, NEW does, Written(looks, does), Unscanned(looks),
         NEW op \in {"own", "delete"}, NEW kind \in Plain
  PROVE  Written(looks, Then(does, May(op, kind)))
  <1>1. /\ May(op, kind) \in Statement /\ May(op, kind).op = op /\ May(op, kind).kind = kind
        /\ ~May(op, kind).must
    BY DEF May, Statement, Ops, Plain, Tabled
  <1> QED
    BY <1>1, StatementWritten DEF Placed, KeptSeen, Plain

\* A row that is looked at may be written back, and changed after a 404.
LEMMA SeenWritten ==
  ASSUME NEW looks, NEW does, Written(looks, does), Unscanned(looks), NEW kind \in Plain,
         NEW missing \in {"400", "404", "409", "fresh"},
         NEW op \in {"keep", "update", "delete"},
         op # "keep" => missing = "404" /\ does = Empty
  PROVE  Written(Then(looks, Sees(kind, missing)), Then(does, Must(op, kind)))
  <1> DEFINE more == Then(looks, Sees(kind, missing))
  <1>1. Written(more, does) /\ Unscanned(more)
    BY LookWritten DEF Plain
  <1>2. /\ Len(looks) + 1 \in 1 .. Len(more)
        /\ more[Len(looks) + 1].kind = kind /\ more[Len(looks) + 1].missing = missing
    <2> DEFINE x == Sees(kind, missing)
    <2>1. x \in Sight /\ x.kind = kind /\ x.missing = missing
      BY DEF Sees, Sight, Plain
    <2>2. looks \in Seq(Sight)
      BY DEF Written, Looks
    <2> HIDE DEF x
    <2>3. /\ Len(looks) \in Nat /\ Len(Then(looks, x)) = Len(looks) + 1
          /\ Then(looks, x)[Len(looks) + 1] = x
      BY <2>1, <2>2, ThenIs
    <2> QED BY <2>1, <2>3 DEF x
  <1>3. /\ Must(op, kind) \in Statement /\ Must(op, kind).op = op /\ Must(op, kind).kind = kind
    BY DEF Must, Statement, Ops, Plain, Tabled
  <1> HIDE DEF more
  <1>4. Placed(Must(op, kind)) /\ KeptSeen(more, Must(op, kind))
    BY <1>2, <1>3 DEF Placed, KeptSeen, Plain
  <1>5. \/ op \in Inserts
        \/ does = Empty /\ \E j \in 1 .. Len(more) : more[j].kind = kind /\ more[j].missing = "404"
    BY <1>2 DEF Inserts
  <1> QED
    BY <1>1, <1>3, <1>4, <1>5, StatementWritten DEF more

\* The three reads of the models a tenant may use.
Scan(looks) == looks \in Seq(Sight) /\ \A j \in 1 .. Len(looks) : looks[j].missing = "scan"

LEMMA ScanReads ==
  ASSUME NEW looks, Scan(looks), NEW kind \in {"pool", "mode", "ids"}
  PROVE  Scan(Then(looks, Sees(kind, "scan")))
  <1> DEFINE x == Sees(kind, "scan")
  <1>1. x \in Sight /\ x.missing = "scan" /\ looks \in Seq(Sight)
    BY DEF Sees, Sight, Tabled, Scan
  <1> HIDE DEF x
  <1>2. /\ Then(looks, x) \in Seq(Sight) /\ Len(looks) \in Nat
        /\ Len(Then(looks, x)) = Len(looks) + 1 /\ Then(looks, x)[Len(looks) + 1] = x
        /\ \A j \in 1 .. Len(looks) : Then(looks, x)[j] = looks[j]
    BY <1>1, ThenIs
  <1> QED
    BY <1>1, <1>2 DEF Scan, x

LEMMA ScansWritten ==
  Written(Then(Then(Then(Empty, Sees("pool", "scan")), Sees("mode", "scan")), Sees("ids", "scan")),
          Empty)
  <1>1. Scan(Empty)
    BY EmptyIs DEF Scan
  <1>2. Scan(Then(Then(Then(Empty, Sees("pool", "scan")), Sees("mode", "scan")), Sees("ids", "scan")))
    BY <1>1, ScanReads
  <1>3. ASSUME NEW looks, Scan(looks) PROVE Written(looks, Empty)
    BY <1>3, EmptyIs DEF Scan, Written, Looks
  <1> QED
    BY <1>2, <1>3

----------------------------------------------------------------------------
(* Every route of the table is sane *)

\* A route is sane when its gate and its sequences are.
LEMMA SaneForm ==
  ASSUME NEW scope, NEW gate, NEW any, NEW own, NEW on, NEW lists, NEW looks, NEW does,
         NEW tells, Gated(scope, gate, on, lists, does, tells), Written(looks, does)
  PROVE  Sane(Form(scope, gate, any, own, on, lists, looks, does, tells))
  BY DEF Sane, Form

LEMMA MemberGate ==
  ASSUME NEW gate \in {"member", "tenant"}, NEW on \in {"path", "app", "active"}, NEW does,
         NEW tells \in {"nobody", "target"}
  PROVE  Gated("any", gate, on, "none", does, tells)
  BY DEF Gated

LEMMA SpendGate == Gated("any", "spend", "active", "none", Empty, "nobody")
  BY DEF Gated

LEMMA ManagedGate ==
  ASSUME NEW does, NEW tells \in {"nobody", "target"}
  PROVE  Gated("any", "managed", "key", "none", does, tells)
  BY DEF Gated

LEMMA KeyGate ==
  ASSUME NEW does, NEW tells \in {"nobody", "context"}
  PROVE  Gated("admin", "row", "key", "none", does, tells)
  BY DEF Gated

LEMMA ListGate ==
  ASSUME NEW does, NEW lists \in {"none", "key", "audit"}, NEW tells \in {"nobody", "context"}
  PROVE  Gated("admin", "list", "context", lists, does, tells)
  BY DEF Gated

\* What a key may do without the admin scope: read, and cancel a generation.
LEMMA ReadGate ==
  /\ Gated("read", "list", "context", "generation", Empty, "nobody")
  /\ Gated("read", "logs", "context", "log", Empty, "nobody")
  /\ Gated("read", "row", "artifact", "none", Empty, "nobody")
  /\ Gated("read", "row", "generation", "none", Empty, "nobody")
  /\ Gated("generate", "tracked", "generation", "none", Empty, "nobody")
  /\ Gated("read", "row", "generation", "none", Then(Empty, Must("update", "generation")), "context")
  <1>1. Len(Empty) = 0
    BY EmptyIs
  <1>2. \A i \in 1 .. Len(Then(Empty, Must("update", "generation"))) :
          Then(Empty, Must("update", "generation"))[i].kind = "generation"
    <2> DEFINE s == Must("update", "generation")
    <2>1. s.kind = "generation"
      BY DEF Must
    <2> HIDE DEF s
    <2>2. /\ Len(Then(Empty, s)) = Len(Empty) + 1 /\ Then(Empty, s)[Len(Empty) + 1] = s
      BY EmptyIs, ThenIs
    <2> QED BY <1>1, <2>1, <2>2 DEF s
  <1>3. \A does : (\A i \in 1 .. Len(does) : does[i].kind = "generation") =>
          Gated("read", "row", "generation", "none", does, "context")
    BY DEF Gated
  <1> QED
    BY <1>1, <1>2, <1>3 DEF Gated

LEMMA GatewayGate ==
  ASSUME NEW does, NEW tells \in {"nobody", "context"}
  PROVE  Gated("any", "gateway", "platform", "none", does, tells)
  BY DEF Gated

LEMMA OtherGates ==
  /\ \A does : Gated("admin", "cache", "platform", "none", does, "nobody")
  /\ Gated("any", "global", "platform", "none", Empty, "nobody")
  /\ \A does : Gated("any", "permission", "context", "none", does, "context")
  /\ \A scope, gate : gate \in {"self", "caller"} =>
       Gated(scope, gate, "context", "none", Empty, "nobody")
  BY EmptyIs DEF Gated

LEMMA Reports ==
  /\ \A kind \in {"org", "app"} : Told("update", kind) /\ Told("cascade", kind)
  /\ \A kind \in {"key", "generation"} : Told("update", kind)
  /\ Told("promote", "member")
  /\ \A kind \in {"credential", "storage", "end_user", "limits", "model"} : Told("delete", kind)
  BY DEF Told

\* The statements of a handler that looks at nothing first.
LEMMA Blind ==
  /\ Written(Empty, Empty)
  /\ \A op, kind : Told(op, kind) => Written(Empty, Then(Empty, Must(op, kind)))
  /\ \A op \in {"insert", "upsert", "touch", "send"}, kind \in Plain :
       Written(Empty, Then(Empty, Must(op, kind)))
  /\ Written(Empty, Then(Empty, Must("insert", "app")))
  /\ Written(Empty, Then(Then(Empty, Must("insert", "key")), May("own", "key")))
  /\ Written(Empty, Then(Then(Empty, Must("delete", "end_user")), May("delete", "limits")))
  <1>1. Written(Empty, Empty) /\ Unscanned(Empty)
    BY NothingWritten
  <1>2. ASSUME NEW op, NEW kind, Told(op, kind)
        PROVE  Written(Empty, Then(Empty, Must(op, kind)))
    BY <1>1, <1>2, ToldWritten
  <1>3. ASSUME NEW op \in {"insert", "upsert", "touch", "send"}, NEW kind \in Plain
        PROVE  Written(Empty, Then(Empty, Must(op, kind)))
    BY <1>1, MakeWritten DEF Plain
  <1>4. Written(Empty, Then(Empty, Must("insert", "app")))
    BY <1>1, MakeWritten DEF Tabled
  <1>5. "key" \in Plain /\ "limits" \in Plain /\ Told("delete", "end_user")
    BY DEF Plain, Tabled, Told
  <1>6. Written(Empty, Then(Then(Empty, Must("insert", "key")), May("own", "key")))
    BY <1>1, <1>3, <1>5, TryWritten
  <1>7. Written(Empty, Then(Then(Empty, Must("delete", "end_user")), May("delete", "limits")))
    BY <1>1, <1>2, <1>5, TryWritten
  <1> QED
    BY <1>1, <1>2, <1>3, <1>4, <1>6, <1>7

\* The statements of a handler that looks first.
LEMMA Sighted ==
  /\ \A kind \in Tabled, m \in {"400", "404", "409", "fresh"} :
       Written(Then(Empty, Sees(kind, m)), Empty)
  /\ \A kind \in Plain, m \in {"400", "404", "fresh"} :
       Written(Then(Empty, Sees(kind, m)), Then(Empty, Must("keep", kind)))
  /\ \A kind \in Plain, op \in {"update", "delete"} :
       Written(Then(Empty, Sees(kind, "404")), Then(Empty, Must(op, kind)))
  /\ \A kind \in {"org", "member"} :
       Written(Then(Then(Empty, Sees(kind, "404")), Sees("limits", "fresh")),
               Then(Empty, Must("keep", "limits")))
  /\ Written(Then(Empty, Sees("limits", "fresh")),
             Then(Then(Empty, Must("touch", "end_user")), Must("keep", "limits")))
  /\ Written(Then(Empty, Sees("pool", "400")), Then(Empty, Must("upsert", "access")))
  /\ Written(Then(Empty, Sees("end_user", "409")), Then(Empty, Must("upsert", "end_user")))
  /\ Written(Then(Empty, Sees("end_user", "409")),
             Then(Then(Empty, Must("upsert", "end_user")), Must("upsert", "limits")))
  <1>1. Written(Empty, Empty) /\ Unscanned(Empty)
    BY NothingWritten
  <1>2. ASSUME NEW kind \in Tabled, NEW m \in {"400", "404", "409", "fresh"}
        PROVE  Written(Then(Empty, Sees(kind, m)), Empty) /\ Unscanned(Then(Empty, Sees(kind, m)))
    BY <1>1, LookWritten
  <1>3. ASSUME NEW kind \in Plain, NEW m \in {"400", "404", "fresh"}
        PROVE  Written(Then(Empty, Sees(kind, m)), Then(Empty, Must("keep", kind)))
    BY <1>1, SeenWritten
  <1>4. ASSUME NEW kind \in Plain, NEW op \in {"update", "delete"}
        PROVE  Written(Then(Empty, Sees(kind, "404")), Then(Empty, Must(op, kind)))
    BY <1>1, SeenWritten
  <1>5. /\ {"org", "member", "limits", "end_user", "access", "pool"} \subseteq Tabled
        /\ {"limits", "end_user", "access"} \subseteq Tabled \ {"org", "app"}
    BY DEF Tabled
  <1>6. ASSUME NEW kind \in {"org", "member"}
        PROVE  Written(Then(Then(Empty, Sees(kind, "404")), Sees("limits", "fresh")),
                       Then(Empty, Must("keep", "limits")))
    <2>1. Written(Then(Empty, Sees(kind, "404")), Empty) /\ Unscanned(Then(Empty, Sees(kind, "404")))
      BY <1>2, <1>5
    <2> QED BY <1>5, <2>1, SeenWritten DEF Plain
  <1>7. Written(Then(Empty, Sees("limits", "fresh")),
                Then(Then(Empty, Must("touch", "end_user")), Must("keep", "limits")))
    <2>1. Written(Empty, Then(Empty, Must("touch", "end_user")))
      BY <1>1, <1>5, MakeWritten
    <2> QED BY <1>1, <1>5, <2>1, SeenWritten DEF Plain
  <1>8. Written(Then(Empty, Sees("pool", "400")), Then(Empty, Must("upsert", "access")))
    BY <1>2, <1>5, MakeWritten
  <1>9. /\ Written(Then(Empty, Sees("end_user", "409")), Then(Empty, Must("upsert", "end_user")))
        /\ Unscanned(Then(Empty, Sees("end_user", "409")))
    BY <1>2, <1>5, MakeWritten
  <1>10. Written(Then(Empty, Sees("end_user", "409")),
                 Then(Then(Empty, Must("upsert", "end_user")), Must("upsert", "limits")))
    BY <1>5, <1>9, MakeWritten
  <1> QED
    BY <1>2, <1>3, <1>4, <1>6, <1>7, <1>8, <1>9, <1>10

LEMMA PlainKinds ==
  /\ Plain \subseteq Tabled /\ "org" \in Tabled
  /\ {"member", "credential", "storage", "pool", "access", "key", "invitation", "end_user",
      "limits", "model", "setting", "cache", "webhook"} \subseteq Plain
  BY DEF Plain, Tabled

\* The handlers, in groups that the provers can split.
OrgNames ==
  {"ListOrgs", "GetOrg", "PatchOrg", "DeleteOrg", "ListMembers", "InviteMember",
   "PatchMember", "RemoveMember"}
AppNames ==
  {"TransferOwner", "ListApps", "CreateApp", "GetApp", "PatchApp", "DeleteApp"}
StorageNames ==
  {"ListOrgProviderCredentials", "CreateOrgProviderCredential",
   "DeleteOrgProviderCredential", "GetAppStorage", "PutAppStorage", "KeepAppStorage",
   "DeleteAppStorage"}
PoolNames ==
  {"GetOrgAllowedModels", "PutOrgAllowedModels", "GetAppAllowedModels",
   "SelectAppModels", "AllAppModels"}
KeyListNames ==
  {"CreateApiKey", "CreateOwnedApiKey", "ListApiKeys"}
KeyNames ==
  {"GetApiKey", "RevokeApiKey", "PatchApiKey", "RotateApiKey", "TestWebhook",
   "ListWebhookDeliveries"}
GenerationNames ==
  {"ListGenerations", "GetGeneration", "GetVideoStatus", "CancelGeneration"}
LogNames ==
  {"GetLogsFiltered", "ListAudit", "GetLogArtifact", "ClearCache"}
AccountNames ==
  {"ListUsers", "InviteUser", "GetAccount", "ListSessions", "ListLimits", "MyLimits"}
KeyLimitNames ==
  {"GetKeyLimits", "PutKeyLimits", "DeleteKeyLimits", "ResetKeyLimits", "SetKeyActive"}
OrgLimitNames ==
  {"GetOrgLimits", "PutOrgLimits", "DeleteOrgLimits", "ResetOrgLimits"}
MemberLimitNames ==
  {"GetMemberLimits", "PutMemberLimits", "DeleteMemberLimits", "ResetMemberLimits"}
AppLimitNames ==
  {"GetAppLimits", "PutAppLimits", "DeleteAppLimits", "ResetAppLimits"}
EndUserNames ==
  {"ListEndUsers", "GetEndUser", "CreateEndUser", "CreateLimitedEndUser",
   "UpdateEndUser", "DeleteEndUser", "SetBlocked"}
EndUserLimitNames ==
  {"GetEndUserLimits", "PutEndUserLimits", "DeleteEndUserLimits", "ResetEndUserLimits"}
ModelNames ==
  {"TenantAllowsModel", "ListModels", "SpendReport", "SpendLogs"}
CatalogueNames ==
  {"AdminListModels", "AdminGetModel", "AdminCreateModel", "AdminReplaceModel",
   "AdminDeleteModel", "AdminListProviders", "AdminGetProvider"}
SettingsNames ==
  {"AdminGetRoutes", "AdminPutRoutes", "AdminGetSettings", "AdminPutSettings"}

\* Every handler is in one of the tables below.
LEMMA NamesSplit ==
  DOMAIN Handlers =
    OrgNames \cup AppNames \cup StorageNames \cup PoolNames \cup KeyListNames \cup
    KeyNames \cup GenerationNames \cup LogNames \cup AccountNames \cup
    KeyLimitNames \cup OrgLimitNames \cup MemberLimitNames \cup AppLimitNames \cup
    EndUserNames \cup EndUserLimitNames \cup ModelNames \cup CatalogueNames \cup
    SettingsNames
  <1>1. DOMAIN Handlers =
         {"ListOrgs", "GetOrg", "PatchOrg", "DeleteOrg", "ListMembers", "InviteMember",
          "PatchMember", "RemoveMember", "TransferOwner", "ListApps", "CreateApp",
          "GetApp", "PatchApp", "DeleteApp", "ListOrgProviderCredentials",
          "CreateOrgProviderCredential", "DeleteOrgProviderCredential",
          "GetAppStorage", "PutAppStorage", "KeepAppStorage", "DeleteAppStorage",
          "GetOrgAllowedModels", "PutOrgAllowedModels", "GetAppAllowedModels",
          "SelectAppModels", "AllAppModels", "CreateApiKey", "CreateOwnedApiKey",
          "ListApiKeys", "GetApiKey", "RevokeApiKey", "PatchApiKey", "RotateApiKey",
          "TestWebhook", "ListWebhookDeliveries", "ListGenerations", "GetGeneration",
          "GetVideoStatus", "CancelGeneration", "GetLogsFiltered", "ListAudit",
          "GetLogArtifact", "ClearCache", "ListUsers", "InviteUser", "GetAccount",
          "ListSessions", "ListLimits", "MyLimits", "GetKeyLimits", "PutKeyLimits",
          "DeleteKeyLimits", "ResetKeyLimits", "SetKeyActive", "GetOrgLimits",
          "PutOrgLimits", "DeleteOrgLimits", "ResetOrgLimits", "GetMemberLimits",
          "PutMemberLimits", "DeleteMemberLimits", "ResetMemberLimits", "GetAppLimits",
          "PutAppLimits", "DeleteAppLimits", "ResetAppLimits", "ListEndUsers",
          "GetEndUser", "CreateEndUser", "CreateLimitedEndUser", "UpdateEndUser",
          "DeleteEndUser", "SetBlocked", "GetEndUserLimits", "PutEndUserLimits",
          "DeleteEndUserLimits", "ResetEndUserLimits", "TenantAllowsModel",
          "ListModels", "SpendReport", "SpendLogs", "AdminListModels", "AdminGetModel",
          "AdminCreateModel", "AdminReplaceModel", "AdminDeleteModel",
          "AdminListProviders", "AdminGetProvider", "AdminGetRoutes", "AdminPutRoutes",
          "AdminGetSettings", "AdminPutSettings"}
    BY DEF Handlers
  <1> QED
    BY <1>1
    DEF OrgNames, AppNames, StorageNames, PoolNames, KeyListNames, KeyNames,
        GenerationNames, LogNames, AccountNames, KeyLimitNames, OrgLimitNames,
        MemberLimitNames, AppLimitNames, EndUserNames, EndUserLimitNames, ModelNames,
        CatalogueNames, SettingsNames

LEMMA OrgRoutes ==
  /\ Sane(ListOrgs) /\ Sane(GetOrg) /\ Sane(PatchOrg) /\ Sane(DeleteOrg)
  /\ Sane(ListMembers) /\ Sane(InviteMember) /\ Sane(PatchMember) /\ Sane(RemoveMember)
  BY SaneForm, RouteForm, LookingForm, DoingForm, TellingForm, Blind, Sighted, Reports,
     PlainKinds, MemberGate, OtherGates
  DEF ListOrgs, GetOrg, PatchOrg, DeleteOrg, ListMembers, InviteMember, PatchMember,
      RemoveMember, OfOrg

LEMMA AppRoutes ==
  /\ Sane(TransferOwner) /\ Sane(ListApps) /\ Sane(CreateApp) /\ Sane(GetApp)
  /\ Sane(PatchApp) /\ Sane(DeleteApp)
  BY SaneForm, RouteForm, DoingForm, TellingForm, Blind, Reports, PlainKinds,
     MemberGate
  DEF TransferOwner, ListApps, CreateApp, GetApp, PatchApp, DeleteApp, OfApp, OfOrg

LEMMA StorageRoutes ==
  /\ Sane(ListOrgProviderCredentials) /\ Sane(CreateOrgProviderCredential)
  /\ Sane(DeleteOrgProviderCredential) /\ Sane(GetAppStorage)
  /\ Sane(PutAppStorage(TRUE)) /\ Sane(PutAppStorage(FALSE)) /\ Sane(DeleteAppStorage)
  BY SaneForm, RouteForm, LookingForm, DoingForm, TellingForm, Blind, Sighted, Reports,
     PlainKinds, MemberGate
  DEF ListOrgProviderCredentials, CreateOrgProviderCredential,
      DeleteOrgProviderCredential, GetAppStorage, PutAppStorage, DeleteAppStorage,
      OfApp, OfOrg

LEMMA PoolRoutes ==
  /\ Sane(GetOrgAllowedModels) /\ Sane(PutOrgAllowedModels)
  /\ Sane(GetAppAllowedModels) /\ Sane(PutAppAllowedModels("select"))
  /\ Sane(PutAppAllowedModels("all"))
  BY SaneForm, RouteForm, LookingForm, DoingForm, Blind, Sighted, Reports, PlainKinds,
     MemberGate
  DEF GetOrgAllowedModels, PutOrgAllowedModels, GetAppAllowedModels,
      PutAppAllowedModels, OfApp, OfOrg

LEMMA KeyListRoutes ==
  /\ Sane(CreateApiKey(FALSE)) /\ Sane(CreateApiKey(TRUE)) /\ Sane(ListApiKeys)
  BY SaneForm, RouteForm, OrOwnForm, ListingForm, DoingForm, TryingForm, TellingForm,
     Blind, Reports, PlainKinds, ListGate
  DEF CreateApiKey, ListApiKeys

LEMMA KeyRoutes ==
  /\ Sane(GetApiKey) /\ Sane(RevokeApiKey) /\ Sane(PatchApiKey) /\ Sane(RotateApiKey)
  /\ Sane(TestWebhook) /\ Sane(ListWebhookDeliveries)
  BY SaneForm, RouteForm, OrOwnForm, DoingForm, TellingForm, Blind, Reports,
     PlainKinds, KeyGate
  DEF GetApiKey, RevokeApiKey, PatchApiKey, RotateApiKey, TestWebhook,
      ListWebhookDeliveries, OnKey

LEMMA GenerationRoutes ==
  /\ Sane(ListGenerations) /\ Sane(GetGeneration) /\ Sane(GetVideoStatus)
  /\ Sane(CancelGeneration)
  BY SaneForm, RouteForm, OrOwnForm, ListingForm, DoingForm, TellingForm, Blind,
     Reports, PlainKinds, ReadGate
  DEF ListGenerations, GetGeneration, GetVideoStatus, CancelGeneration, OnGeneration

LEMMA LogRoutes ==
  /\ Sane(GetLogsFiltered) /\ Sane(ListAudit) /\ Sane(GetLogArtifact)
  /\ Sane(ClearCache)
  BY SaneForm, RouteForm, OrOwnForm, ListingForm, DoingForm, Blind, Reports,
     PlainKinds, ListGate, ReadGate, OtherGates
  DEF GetLogsFiltered, ListAudit, GetLogArtifact, ClearCache

LEMMA AccountRoutes ==
  /\ Sane(ListUsers) /\ Sane(InviteUser) /\ Sane(GetAccount) /\ Sane(ListSessions)
  /\ Sane(ListLimits) /\ Sane(MyLimits)
  BY SaneForm, RouteForm, DoingForm, TellingForm, Blind, Reports, PlainKinds,
     MemberGate, OtherGates
  DEF ListUsers, InviteUser, GetAccount, ListSessions, ListLimits, MyLimits,
      TenantActive

LEMMA KeyLimitRoutes ==
  /\ Sane(GetKeyLimits) /\ Sane(PutKeyLimits) /\ Sane(DeleteKeyLimits)
  /\ Sane(ResetKeyLimits) /\ Sane(SetKeyActive)
  BY SaneForm, RouteForm, OrOwnForm, LookingForm, DoingForm, TellingForm, Blind,
     Sighted, Reports, PlainKinds, ManagedGate
  DEF GetKeyLimits, PutKeyLimits, DeleteKeyLimits, ResetKeyLimits, SetKeyActive,
      LimitsKey, Reset, Deleted, Put, Got

LEMMA OrgLimitRoutes ==
  /\ Sane(GetOrgLimits) /\ Sane(PutOrgLimits) /\ Sane(DeleteOrgLimits)
  /\ Sane(ResetOrgLimits)
  BY SaneForm, RouteForm, LookingForm, DoingForm, TellingForm, Blind, Sighted, Reports,
     PlainKinds, MemberGate
  DEF GetOrgLimits, PutOrgLimits, DeleteOrgLimits, ResetOrgLimits, Reset, TenantOrg,
      Deleted, Put, Got

LEMMA MemberLimitRoutes ==
  /\ Sane(GetMemberLimits) /\ Sane(PutMemberLimits) /\ Sane(DeleteMemberLimits)
  /\ Sane(ResetMemberLimits)
  BY SaneForm, RouteForm, LookingForm, DoingForm, TellingForm, Blind, Sighted, Reports,
     PlainKinds, MemberGate
  DEF GetMemberLimits, PutMemberLimits, DeleteMemberLimits, ResetMemberLimits, Reset,
      TenantOrg, Deleted, Put, Got

LEMMA AppLimitRoutes ==
  /\ Sane(GetAppLimits) /\ Sane(PutAppLimits) /\ Sane(DeleteAppLimits)
  /\ Sane(ResetAppLimits)
  BY SaneForm, RouteForm, LookingForm, DoingForm, TellingForm, Blind, Sighted, Reports,
     PlainKinds, MemberGate
  DEF GetAppLimits, PutAppLimits, DeleteAppLimits, ResetAppLimits, Reset, TenantApp,
      Deleted, Put, Got

LEMMA EndUserRoutes ==
  /\ Sane(ListEndUsers) /\ Sane(GetEndUser) /\ Sane(CreateEndUser(FALSE))
  /\ Sane(CreateEndUser(TRUE)) /\ Sane(UpdateEndUser) /\ Sane(DeleteEndUser)
  /\ Sane(SetBlocked)
  BY SaneForm, RouteForm, LookingForm, DoingForm, TryingForm, TellingForm, Blind,
     Sighted, Reports, PlainKinds, MemberGate
  DEF ListEndUsers, GetEndUser, CreateEndUser, UpdateEndUser, DeleteEndUser,
      SetBlocked, TenantActive

LEMMA EndUserLimitRoutes ==
  /\ Sane(GetEndUserLimits) /\ Sane(PutEndUserLimits) /\ Sane(DeleteEndUserLimits)
  /\ Sane(ResetEndUserLimits)
  BY SaneForm, RouteForm, LookingForm, DoingForm, TellingForm, Blind, Sighted, Reports,
     PlainKinds, MemberGate
  DEF GetEndUserLimits, PutEndUserLimits, DeleteEndUserLimits, ResetEndUserLimits,
      Reset, TenantActive, Deleted, Put, Got

LEMMA ModelRoutes ==
  /\ Sane(TenantAllowsModel) /\ Sane(ListModels) /\ Sane(SpendReport)
  /\ Sane(SpendLogs)
  BY SaneForm, RouteForm, LookingForm, Blind, Sighted, ScansWritten, Reports,
     PlainKinds, ReadGate, SpendGate, OtherGates
  DEF TenantAllowsModel, ListModels, SpendReport, SpendLogs, Scanning

LEMMA CatalogueRoutes ==
  /\ Sane(AdminListModels) /\ Sane(AdminGetModel) /\ Sane(AdminCreateModel)
  /\ Sane(AdminReplaceModel) /\ Sane(AdminDeleteModel) /\ Sane(AdminListProviders)
  /\ Sane(AdminGetProvider)
  BY SaneForm, RouteForm, DoingForm, TellingForm, Blind, Reports, PlainKinds,
     GatewayGate
  DEF AdminListModels, AdminGetModel, AdminCreateModel, AdminReplaceModel,
      AdminDeleteModel, AdminListProviders, AdminGetProvider, Gateway

LEMMA SettingsRoutes ==
  /\ Sane(AdminGetRoutes) /\ Sane(AdminPutRoutes) /\ Sane(AdminGetSettings)
  /\ Sane(AdminPutSettings)
  BY SaneForm, RouteForm, DoingForm, TellingForm, Blind, Reports, PlainKinds,
     GatewayGate
  DEF AdminGetRoutes, AdminPutRoutes, AdminGetSettings, AdminPutSettings, Gateway

\* Every route of the table is sane.
LEMMA RoutesAreSane == \A name \in DOMAIN Handlers : Sane(Handlers[name])
  <1>1. \A name \in OrgNames : Sane(Handlers[name])
    BY OrgRoutes DEF Handlers, OrgNames
  <1>2. \A name \in AppNames : Sane(Handlers[name])
    BY AppRoutes DEF Handlers, AppNames
  <1>3. \A name \in StorageNames : Sane(Handlers[name])
    <2>1. /\ Handlers["ListOrgProviderCredentials"] = ListOrgProviderCredentials
          /\ Handlers["CreateOrgProviderCredential"] = CreateOrgProviderCredential
          /\ Handlers["DeleteOrgProviderCredential"] = DeleteOrgProviderCredential
          /\ Handlers["GetAppStorage"] = GetAppStorage
      BY DEF Handlers
    <2>2. /\ Handlers["PutAppStorage"] = PutAppStorage(TRUE)
          /\ Handlers["KeepAppStorage"] = PutAppStorage(FALSE)
          /\ Handlers["DeleteAppStorage"] = DeleteAppStorage
      BY DEF Handlers
    <2> QED BY <2>1, <2>2, StorageRoutes DEF StorageNames
  <1>4. \A name \in PoolNames : Sane(Handlers[name])
    BY PoolRoutes DEF Handlers, PoolNames
  <1>5. \A name \in KeyListNames : Sane(Handlers[name])
    <2>1. /\ Handlers["CreateApiKey"] = CreateApiKey(FALSE)
          /\ Handlers["CreateOwnedApiKey"] = CreateApiKey(TRUE)
          /\ Handlers["ListApiKeys"] = ListApiKeys
      BY DEF Handlers
    <2> QED BY <2>1, KeyListRoutes DEF KeyListNames
  <1>6. \A name \in KeyNames : Sane(Handlers[name])
    BY KeyRoutes DEF Handlers, KeyNames
  <1>7. \A name \in GenerationNames : Sane(Handlers[name])
    BY GenerationRoutes DEF Handlers, GenerationNames
  <1>8. \A name \in LogNames : Sane(Handlers[name])
    BY LogRoutes DEF Handlers, LogNames
  <1>9. \A name \in AccountNames : Sane(Handlers[name])
    BY AccountRoutes DEF Handlers, AccountNames
  <1>10. \A name \in KeyLimitNames : Sane(Handlers[name])
    BY KeyLimitRoutes DEF Handlers, KeyLimitNames
  <1>11. \A name \in OrgLimitNames : Sane(Handlers[name])
    BY OrgLimitRoutes DEF Handlers, OrgLimitNames
  <1>12. \A name \in MemberLimitNames : Sane(Handlers[name])
    BY MemberLimitRoutes DEF Handlers, MemberLimitNames
  <1>13. \A name \in AppLimitNames : Sane(Handlers[name])
    BY AppLimitRoutes DEF Handlers, AppLimitNames
  <1>14. \A name \in EndUserNames : Sane(Handlers[name])
    <2>1. /\ Handlers["ListEndUsers"] = ListEndUsers
          /\ Handlers["GetEndUser"] = GetEndUser
          /\ Handlers["CreateEndUser"] = CreateEndUser(FALSE)
          /\ Handlers["CreateLimitedEndUser"] = CreateEndUser(TRUE)
      BY DEF Handlers
    <2>2. /\ Handlers["UpdateEndUser"] = UpdateEndUser
          /\ Handlers["DeleteEndUser"] = DeleteEndUser
          /\ Handlers["SetBlocked"] = SetBlocked
      BY DEF Handlers
    <2> QED BY <2>1, <2>2, EndUserRoutes DEF EndUserNames
  <1>15. \A name \in EndUserLimitNames : Sane(Handlers[name])
    BY EndUserLimitRoutes DEF Handlers, EndUserLimitNames
  <1>16. \A name \in ModelNames : Sane(Handlers[name])
    BY ModelRoutes DEF Handlers, ModelNames
  <1>17. \A name \in CatalogueNames : Sane(Handlers[name])
    BY CatalogueRoutes DEF Handlers, CatalogueNames
  <1>18. \A name \in SettingsNames : Sane(Handlers[name])
    BY SettingsRoutes DEF Handlers, SettingsNames
  <1> QED
    BY <1>1, <1>2, <1>3, <1>4, <1>5, <1>6, <1>7, <1>8, <1>9, <1>10, <1>11, <1>12,
       <1>13, <1>14, <1>15, <1>16, <1>17, <1>18, NamesSplit

----------------------------------------------------------------------------
(* The inductive invariant *)

RowStates == {"absent", "old", "mine", "theirs"}
Sighting  == UNION {[S -> RowStates] : S \in SUBSET Tabled}
Steps     == {"authenticate", "find", "gate", "look", "do", "over"}
Answers   == {"none", "ok", "400", "401", "403", "404", "409", "500", "elsewhere", "abandoned"}
Pools     == {"open", "with", "without"}
Modes     == {"all", "select"}

Request ==
  [handler : DOMAIN Handlers, owned : BOOLEAN, named : BOOLEAN, step : Steps, n : Nat,
   ctx : [org : Orgs \cup {"none"}, as : Roles],
   extent : {"refused", "nothing", "own", "all"}, saw : Sighting, did : SUBSET Nat,
   scan : [pool : Pools, mode : Modes, verdict : {"none", "yes", "no"}], answer : Answers]
History ==
  [others : Nat, faults : Nat, held : [Orgs -> SUBSET Roles], late : SUBSET Tabled,
   removed : SUBSET Tabled, unseen : SUBSET Tabled, undone : SUBSET Tabled,
   passed : SUBSET ModelStates, poolMoved : BOOLEAN, torn : BOOLEAN, unlisted : BOOLEAN]

TypeOK ==
  /\ deployment \in Deployment /\ caller \in Caller
  /\ request \in Request
  /\ role \in [Orgs -> Roles]
  /\ rows \in [Tabled -> RowStates]
  /\ models \in ModelStates
  /\ audit \in [state : {"none", "spawned", "inserted", "refused", "lost"},
                under : Orgs \cup {"none", "default"}]
  /\ history \in History

\* Where the handler stands: nothing is done before the statements, which are done in
\* order, and there is no answer and no audit entry before it is over.
Shape ==
  /\ request.n >= 1
  /\ request.step \in {"authenticate", "find", "gate", "look"} => request.did = {}
  /\ request.step \in {"authenticate", "find", "gate"} => request.extent = "refused"
  /\ request.step = "do" => \A i \in request.did : i < request.n
  /\ request.did \subseteq 1 .. Len(route.does)
  /\ request.step # "over" => request.answer = "none"
  /\ audit.state # "none" => request.step = "over" /\ request.answer = "ok"

\* The looks that are behind the handler.
Behind ==
  IF request.step = "look" THEN {j \in 1 .. Len(route.looks) : j < request.n}
  ELSE IF request.step = "do" THEN 1 .. Len(route.looks) ELSE {}

\* A row that a look demanded is there until another request removes it, and the handler
\* knows of every change to a row it looked at but those made after.
Watched ==
  /\ \A j \in Behind : LET l == route.looks[j]
       IN  l.missing # "scan" =>
             /\ l.kind \in DOMAIN request.saw
             /\ l.missing = "404" /\ request.did = {} /\ Gone(l.kind) => l.kind \in history.removed
  /\ \A k \in DOMAIN request.saw :
       rows[k] = "theirs" /\ request.saw[k] # "theirs" => k \in history.unseen

\* A statement behind the handler that it insists on was done or forestalled.
Forestalled(i) ==
  route.does[i].must => i \in request.did \/ route.does[i].kind \in history.removed
Dealt ==
  /\ request.step = "do" => \A i \in 1 .. Len(route.does) : i < request.n => Forestalled(i)
  /\ request.answer = "ok" => \A i \in 1 .. Len(route.does) : Forestalled(i)

\* The organization a request works in: none only for a key that has none, or where the
\* organizations are many.
Placing ==
  request.step \notin {"authenticate", "over"} =>
    /\ Key => request.ctx.org = caller.at
    /\ ~Session => request.ctx.as = "none"
    /\ ~Key /\ request.ctx.org = "none" => deployment.mode = "hosted"

\* What the gate that was passed says for good.
Admitted ==
  request.step \in {"look", "do"} =>
    /\ route.gate = "row" => request.ctx.org = Home
    /\ route.gate = "permission" => request.ctx.as # "none"

Entered ==
  audit.state # "none" =>
    /\ ActsOn = Home => audit.under = Home
    /\ audit.state = "refused" => Gone("org")
Recorded ==
  request.step = "over" /\ request.did # {} /\ route.tells # "nobody" =>
    audit.state # "none" \/ request.answer \in {"404", "500", "abandoned"}

\* The role a session works with was its role while the request ran, or is the rank of a
\* user that has no membership, or none that could be listed.
Ranked ==
  /\ \A o \in Orgs : role[o] \in history.held[o]
  /\ request.step = "authenticate" => request.ctx.org \notin Orgs
  /\ request.step # "authenticate" /\ Session /\ request.ctx.org \in Orgs =>
       \/ request.ctx.as \in history.held[request.ctx.org]
       \/ request.ctx.as = caller.rank /\ request.ctx.org = Home /\ RankCounts
  /\ request.step \notin {"authenticate", "over"} => CheckScope(route.scope)

\* Who may see that much of Home, or change it, whatever statements are to come.
EntitledTo(extent) ==
  IF ActsOn = "platform" THEN RightOnGateway
  ELSE \/ Master
       \/ /\ Session
          /\ \E r \in RolesAtHome :
               \/ route.any \in PermissionsFor[r]
               \/ /\ route.own \in PermissionsFor[r]
                  /\ request.owned \/ extent = "own"
       \/ /\ Key /\ caller.at = Home
          /\ \/ HasScope("admin")
             \/ \A i \in 1 .. Len(route.does) : route.does[i].kind = "generation"
Righted ==
  /\ request.extent \in {"own", "all"} => EntitledTo(request.extent)
  /\ request.step \in {"look", "do"} /\ route.does # <<>> => request.extent \in {"own", "all"}
  /\ request.did # {} => request.extent \in {"own", "all"}

\* The pool that was read stood together with the access as it is now, unless the access
\* was replaced late.
Scanned ==
  /\ request.step # "over" => request.scan.verdict = "none"
  /\ request.step = "look" /\ Scans(request.handler) /\ request.n # 1 =>
       /\ request.n \in {2, 3}
       /\ ~history.poolMoved => models.pool = request.scan.pool
       /\ ~history.torn =>
            \E m \in history.passed :
              m.pool = request.scan.pool /\ m.mode = models.mode /\ m.listed = models.listed
       /\ ~history.torn /\ request.n = 3 => request.scan.mode = models.mode

----------------------------------------------------------------------------
(* What an action does to each field *)

LEMMA RolesAre == Roles = {"none", "viewer", "member", "admin", "owner"}
  BY DEF Roles, PermissionsFor

LEMMA StoresAre == DOMAIN Stores = {"sqlite", "postgres"}
  BY DEF Stores

\* The sequences of a route, and what is known of their elements.
LEMMA RouteFacts ==
  ASSUME TypeOK
  PROVE  /\ Gated(route.scope, route.gate, route.on, route.lists, route.does, route.tells)
         /\ Len(route.looks) \in Nat /\ DOMAIN route.looks = 1 .. Len(route.looks)
         /\ Len(route.does) \in Nat /\ DOMAIN route.does = 1 .. Len(route.does)
         /\ route.does = <<>> => Len(route.does) = 0
         /\ \A j \in 1 .. Len(route.looks) :
              /\ route.looks[j].missing \in {"400", "404", "409", "fresh", "scan"}
              /\ route.looks[j].missing # "scan" => route.looks[j].kind \in Tabled
         /\ \A i \in 1 .. Len(route.does) :
              /\ route.does[i] \in Statement
              /\ Placed(route.does[i]) /\ KeptSeen(route.looks, route.does[i])
              /\ Answerable(route.looks, route.does, i)
         /\ \/ Unscanned(route.looks)
            \/ /\ route.does = <<>>
               /\ \A j \in 1 .. Len(route.looks) : route.looks[j].missing = "scan"
  <1>1. Sane(route)
    BY RoutesAreSane DEF TypeOK, Request, route
  <1>2. Written(route.looks, route.does)
    BY <1>1 DEF Sane
  <1>3. route.looks \in Seq(Sight) /\ route.does \in Seq(Statement)
    BY <1>2 DEF Written, Looks
  <1>4. /\ Len(route.looks) \in Nat /\ DOMAIN route.looks = 1 .. Len(route.looks)
        /\ Len(route.does) \in Nat /\ DOMAIN route.does = 1 .. Len(route.does)
        /\ \A j \in 1 .. Len(route.looks) : route.looks[j] \in Sight
        /\ \A i \in 1 .. Len(route.does) : route.does[i] \in Statement
    BY <1>3
  <1>5. \A j \in 1 .. Len(route.looks) :
          /\ route.looks[j].missing \in {"400", "404", "409", "fresh", "scan"}
          /\ route.looks[j].missing # "scan" => route.looks[j].kind \in Tabled
    BY <1>2, <1>4 DEF Written, Looks, Sight
  <1>6. route.does = <<>> => Len(route.does) = 0
    BY EmptyIs DEF Empty
  <1> QED
    BY <1>1, <1>2, <1>4, <1>5, <1>6 DEF Sane, Written, Empty

\* The fields of a request, one by one.
LEMMA RequestFields ==
  ASSUME TypeOK
  PROVE  /\ request.handler \in DOMAIN Handlers /\ request.owned \in BOOLEAN
         /\ request.named \in BOOLEAN /\ request.step \in Steps /\ request.n \in Nat
         /\ request.ctx \in [org : Orgs \cup {"none"}, as : Roles]
         /\ request.extent \in {"refused", "nothing", "own", "all"}
         /\ request.saw \in Sighting /\ request.did \in SUBSET Nat
         /\ request.scan \in [pool : Pools, mode : Modes, verdict : {"none", "yes", "no"}]
         /\ request.answer \in Answers
  BY DEF TypeOK, Request

SameAsk ==
  /\ request'.handler = request.handler /\ request'.owned = request.owned
  /\ request'.named = request.named
SameFound == request'.ctx = request.ctx /\ request'.extent = request.extent
SameWork  == request'.saw = request.saw /\ request'.did = request.did
SameScan  == request'.scan = request.scan

\* The four ways a request goes on.
LEMMA OverMoves ==
  ASSUME TypeOK, NEW a \in Answers, Over(a)
  PROVE  /\ request' \in Request /\ request'.step = "over" /\ request'.answer = a
         /\ request'.n = request.n
         /\ SameAsk /\ SameFound /\ SameWork /\ SameScan
  BY DEF TypeOK, Request, Over, Steps, Answers, SameAsk, SameFound, SameWork, SameScan

LEMMA GotoMoves ==
  ASSUME TypeOK, NEW s \in Steps, Goto(s)
  PROVE  /\ request' \in Request /\ request'.step = s /\ request'.n = 1
         /\ request'.answer = request.answer
         /\ SameAsk /\ SameFound /\ SameWork /\ SameScan
  BY DEF TypeOK, Request, Goto, SameAsk, SameFound, SameWork, SameScan

LEMMA OnwardMoves ==
  ASSUME TypeOK, NEW r \in Request
  PROVE  /\ OnwardFrom(r) \in Request
         /\ r.n <= Len(route.looks) => OnwardFrom(r) = r
         /\ r.n > Len(route.looks) => OnwardFrom(r).step = "do" /\ OnwardFrom(r).n = 1
         /\ OnwardFrom(r).handler = r.handler /\ OnwardFrom(r).owned = r.owned
         /\ OnwardFrom(r).named = r.named /\ OnwardFrom(r).ctx = r.ctx
         /\ OnwardFrom(r).extent = r.extent /\ OnwardFrom(r).saw = r.saw
         /\ OnwardFrom(r).did = r.did /\ OnwardFrom(r).scan = r.scan
         /\ OnwardFrom(r).answer = r.answer
  <1>1. r.n \in Nat /\ Len(route.looks) \in Nat
    BY RouteFacts DEF Request
  <1>2. CASE r.n > Len(route.looks)
    <2>1. OnwardFrom(r) = [r EXCEPT !.step = "do", !.n = 1]
      BY <1>2 DEF OnwardFrom
    <2>2. ASSUME NEW q, q = [r EXCEPT !.step = "do", !.n = 1]
          PROVE  q \in Request
      BY <2>2 DEF Request, Steps
    <2>3. ASSUME NEW q, q = [r EXCEPT !.step = "do", !.n = 1]
          PROVE  /\ q.step = "do" /\ q.n = 1
                 /\ q.handler = r.handler /\ q.owned = r.owned /\ q.named = r.named
                 /\ q.ctx = r.ctx /\ q.extent = r.extent /\ q.saw = r.saw
                 /\ q.did = r.did /\ q.scan = r.scan /\ q.answer = r.answer
      BY <2>3 DEF Request
    <2>4. ~(r.n <= Len(route.looks))
      BY <1>1, <1>2
    <2> QED BY <1>2, <2>1, <2>2, <2>3, <2>4
  <1>3. CASE ~(r.n > Len(route.looks))
    BY <1>1, <1>3 DEF OnwardFrom
  <1> QED
    BY <1>2, <1>3

LEMMA NextStatementMoves ==
  ASSUME TypeOK, request' = [request EXCEPT !.n = @ + 1]
  PROVE  /\ request' \in Request /\ request'.n = request.n + 1
         /\ request'.step = request.step /\ request'.answer = request.answer
         /\ SameAsk /\ SameFound /\ SameWork /\ SameScan
  BY DEF TypeOK, Request, SameAsk, SameFound, SameWork, SameScan

\* Authentication leaves the organization and the role the request works with.
LEMMA AuthMoves ==
  ASSUME TypeOK, AuthMiddleware
  PROVE  /\ request' \in Request /\ request.step = "authenticate"
         /\ request'.extent = request.extent /\ request'.n = request.n
         /\ SameAsk /\ SameWork /\ SameScan
         /\ \/ request'.step = "over" /\ request'.answer = "403"
            \/ /\ request'.step = "find" /\ request'.answer = request.answer
               /\ CheckScope(route.scope)
               /\ request'.ctx.org \in ActiveOrgs
               /\ request'.ctx.as = IF Session THEN RoleIn(request'.ctx.org) ELSE "none"
         /\ UNCHANGED <<deployment, caller, role, rows, models, audit, history>>
  <1>1. CASE Over("403")
    BY <1>1, OverMoves DEF AuthMiddleware, Answers, SameFound
  <1>2. ASSUME NEW org \in ActiveOrgs, CheckScope(route.scope),
               request' = [request EXCEPT
                 !.ctx  = [org |-> org, as |-> IF Session THEN RoleIn(org) ELSE "none"],
                 !.step = "find"]
        PROVE  /\ request' \in Request /\ SameAsk /\ SameWork /\ SameScan
               /\ request'.extent = request.extent /\ request'.n = request.n
               /\ request'.step = "find" /\ request'.answer = request.answer
               /\ request'.ctx = [org |-> org, as |-> IF Session THEN RoleIn(org) ELSE "none"]
    <2>1. org \in Orgs \cup {"none"}
      <3>1. caller.at \in Orgs \cup {"none"} /\ Memberships \subseteq Orgs
        BY DEF TypeOK, Caller, Memberships
      <3>2. NoOrg \in Orgs \cup {"none"}
        BY DEF NoOrg, Orgs
      <3>3. CASE Key
        BY <3>1, <3>3 DEF ActiveOrgs, Session, Key
      <3>4. CASE ~Key /\ Session /\ caller.at \in Orgs
        BY <3>1, <3>4 DEF ActiveOrgs
      <3>5. CASE ~Key /\ Session /\ caller.at \notin Orgs /\ Memberships # {}
        BY <3>1, <3>5 DEF ActiveOrgs
      <3>6. CASE ~Key /\ ~(Session /\ (caller.at \in Orgs \/ Memberships # {}))
        BY <3>2, <3>6 DEF ActiveOrgs
      <3> QED BY <3>3, <3>4, <3>5, <3>6
    <2>2. /\ RoleIn(org) \in Roles /\ "none" \in Roles
      <3>1. role \in [Orgs -> Roles] /\ caller.rank \in Roles
        BY DEF TypeOK, Caller
      <3> QED BY <3>1, RolesAre DEF RoleIn, Memberships
    <2>3. [org |-> org, as |-> IF Session THEN RoleIn(org) ELSE "none"]
            \in [org : Orgs \cup {"none"}, as : Roles]
      BY <2>1, <2>2
    <2> HIDE DEF Roles, Orgs
    <2> QED BY <1>2, <2>3 DEF TypeOK, Request, Steps, SameAsk, SameWork, SameScan
  <1>3. /\ request.step = "authenticate"
        /\ UNCHANGED <<deployment, caller, role, rows, models, audit, history>>
        /\ \/ Over("403")
           \/ \E org \in ActiveOrgs :
                /\ CheckScope(route.scope)
                /\ request' = [request EXCEPT
                     !.ctx  = [org |-> org, as |-> IF Session THEN RoleIn(org) ELSE "none"],
                     !.step = "find"]
    BY DEF AuthMiddleware
  <1>4. CASE \E org \in ActiveOrgs :
               /\ CheckScope(route.scope)
               /\ request' = [request EXCEPT
                     !.ctx  = [org |-> org, as |-> IF Session THEN RoleIn(org) ELSE "none"],
                     !.step = "find"]
    <2>1. PICK org \in ActiveOrgs :
               /\ CheckScope(route.scope)
               /\ request' = [request EXCEPT
                     !.ctx  = [org |-> org, as |-> IF Session THEN RoleIn(org) ELSE "none"],
                     !.step = "find"]
      BY <1>4
    <2>2. /\ request' \in Request /\ SameAsk /\ SameWork /\ SameScan
          /\ request'.extent = request.extent /\ request'.n = request.n
          /\ request'.step = "find" /\ request'.answer = request.answer
          /\ request'.ctx = [org |-> org, as |-> IF Session THEN RoleIn(org) ELSE "none"]
      BY <1>2, <2>1
    <2>3. /\ request'.ctx.org = org
          /\ request'.ctx.as = IF Session THEN RoleIn(request'.ctx.org) ELSE "none"
      BY <2>2
    <2> QED BY <1>3, <2>1, <2>2, <2>3
  <1> QED
    BY <1>1, <1>3, <1>4

LEMMA FindMoves ==
  ASSUME TypeOK, Find
  PROVE  /\ request' \in Request /\ request.step = "find"
         /\ request'.ctx = request.ctx /\ SameAsk /\ SameWork /\ SameScan
         /\ \/ /\ request'.step = "over" /\ request'.n = request.n
               /\ \/ request'.answer = "404" /\ request'.extent = request.extent
                  \/ /\ route.gate = "tracked" /\ request'.answer = "ok"
                     /\ request'.extent = "nothing"
            \/ /\ request'.step = "gate" /\ request'.n = 1 /\ request'.answer = request.answer
               /\ request'.extent = request.extent
         /\ UNCHANGED <<deployment, caller, role, rows, models, audit, history>>
  <1>1. CASE Over("404")
    BY <1>1, OverMoves DEF Find, Answers, SameFound
  <1>2. CASE Goto("gate")
    BY <1>2, GotoMoves DEF Find, Steps, SameFound
  <1>3. CASE /\ route.gate = "tracked"
             /\ request' = [request EXCEPT !.step = "over", !.answer = "ok", !.extent = "nothing"]
    BY <1>3 DEF Find, TypeOK, Request, Steps, Answers, SameAsk, SameWork, SameScan
  <1> QED
    BY <1>1, <1>2, <1>3 DEF Find

\* Who is let in goes on to the looks, or to the statements if there is nothing to look at.
LEMMA GateMoves ==
  ASSUME TypeOK, Gate
  PROVE  /\ request' \in Request /\ request.step = "gate"
         /\ request'.ctx = request.ctx /\ SameAsk /\ SameWork /\ SameScan
         /\ \/ /\ request'.step = "over" /\ request'.answer \in {"403", "elsewhere"}
               /\ request'.extent = request.extent /\ request'.n = request.n
            \/ /\ LetIn[route.gate] /\ ReachesHome
               /\ request'.extent = Extent /\ request'.n = 1
               /\ request'.answer = request.answer
               /\ \/ request'.step = "look"
                  \/ request'.step = "do" /\ Len(route.looks) = 0
         /\ UNCHANGED <<deployment, caller, role, rows, models, audit, history>>
  <1>1. CASE Over("403")
    BY <1>1, OverMoves DEF Gate, Answers, SameFound
  <1>2. CASE Over("elsewhere")
    BY <1>2, OverMoves DEF Gate, Answers, SameFound
  <1>3. CASE /\ LetIn[route.gate] /\ ReachesHome
             /\ request' = OnwardFrom([request EXCEPT !.extent = Extent, !.step = "look", !.n = 1])
    <2> DEFINE r == [request EXCEPT !.extent = Extent, !.step = "look", !.n = 1]
    <2>1. Extent \in {"refused", "nothing", "own", "all"}
      BY DEF Extent
    <2>2. /\ r \in Request /\ r.extent = Extent /\ r.step = "look" /\ r.n = 1
          /\ r.handler = request.handler /\ r.owned = request.owned /\ r.named = request.named
          /\ r.ctx = request.ctx /\ r.saw = request.saw /\ r.did = request.did
          /\ r.scan = request.scan /\ r.answer = request.answer
      BY <2>1 DEF TypeOK, Request, Steps
    <2>3. request' = OnwardFrom(r)
      BY <1>3
    <2> HIDE DEF r
    <2>4. Len(route.looks) \in Nat
      BY RouteFacts
    <2>5. CASE 1 <= Len(route.looks)
      <3>1. request' = r
        BY <2>2, <2>3, <2>5, OnwardMoves
      <3> QED BY <1>3, <2>2, <3>1 DEF Gate, SameAsk, SameWork, SameScan
    <2>6. CASE Len(route.looks) = 0
      <3>1. request'.step = "do" /\ request'.n = 1
        BY <2>2, <2>3, <2>6, OnwardMoves
      <3>2. /\ request' \in Request /\ request'.extent = Extent /\ request'.ctx = request.ctx
            /\ request'.answer = request.answer
            /\ SameAsk /\ SameWork /\ SameScan
        BY <2>2, <2>3, OnwardMoves DEF SameAsk, SameWork, SameScan
      <3> QED BY <1>3, <2>6, <3>1, <3>2 DEF Gate
    <2> QED BY <2>4, <2>5, <2>6
  <1> QED
    BY <1>1, <1>2, <1>3 DEF Gate

\* A row that was looked at.
LEMMA LookedAt ==
  ASSUME TypeOK, NEW kind \in Tabled
  PROVE  /\ Looked(kind) \in Sighting
         /\ DOMAIN Looked(kind) = DOMAIN request.saw \cup {kind}
         /\ Looked(kind)[kind] = rows[kind]
         /\ \A k \in DOMAIN request.saw : k # kind => Looked(kind)[k] = request.saw[k]
  <1>1. request.saw \in Sighting /\ rows[kind] \in RowStates
    BY DEF TypeOK, Request
  <1>2. PICK S \in SUBSET Tabled : request.saw \in [S -> RowStates]
    BY <1>1 DEF Sighting
  <1>3. Looked(kind) \in [S \cup {kind} -> RowStates]
    BY <1>1, <1>2 DEF Looked
  <1>4. S \cup {kind} \in SUBSET Tabled
    BY <1>2
  <1>5. Looked(kind) \in Sighting
    BY <1>3, <1>4 DEF Sighting
  <1> QED
    BY <1>5 DEF Looked

LEMMA SightMoves ==
  ASSUME TypeOK, NEW w \in Sighting
  PROVE  LET q == [request EXCEPT !.saw = w, !.n = @ + 1]
         IN  /\ q \in Request /\ q.saw = w /\ q.n = request.n + 1
             /\ q.step = request.step /\ q.extent = request.extent
             /\ q.handler = request.handler /\ q.owned = request.owned
             /\ q.named = request.named
             /\ q.ctx = request.ctx /\ q.did = request.did
             /\ q.scan = request.scan /\ q.answer = request.answer
  <1>1. /\ request \in Request /\ request.n + 1 \in Nat
    BY RequestFields DEF TypeOK
  <1>2. ASSUME NEW m \in Nat, m = request.n + 1, NEW q, q = [request EXCEPT !.saw = w, !.n = m]
        PROVE  /\ q \in Request /\ q.saw = w /\ q.n = m
               /\ q.step = request.step /\ q.extent = request.extent
               /\ q.handler = request.handler /\ q.owned = request.owned
               /\ q.named = request.named
               /\ q.ctx = request.ctx /\ q.did = request.did
               /\ q.scan = request.scan /\ q.answer = request.answer
    BY <1>1, <1>2 DEF Request
  <1> QED
    BY <1>1, <1>2

LEMMA LookMoves ==
  ASSUME TypeOK, Look
  PROVE  /\ request' \in Request /\ request.step = "look"
         /\ request.n \in 1 .. Len(route.looks)
         /\ SameAsk /\ SameFound /\ SameScan /\ request'.did = request.did
         /\ route.looks[request.n].missing # "scan"
         /\ route.looks[request.n].kind \in Tabled
         /\ \/ /\ request'.step = "over" /\ request'.answer \in {"400", "404", "409"}
               /\ request'.saw = request.saw /\ request'.n = request.n
            \/ /\ route.looks[request.n].missing = "404" => ~Gone(route.looks[request.n].kind)
               /\ request'.saw = Looked(route.looks[request.n].kind)
               /\ request'.answer = request.answer
               /\ \/ request'.step = "look" /\ request'.n = request.n + 1
                  \/ request'.step = "do" /\ request'.n = 1 /\ request.n = Len(route.looks)
         /\ UNCHANGED <<deployment, caller, role, rows, models, audit, history>>
  <1> DEFINE look == route.looks[request.n]
  <1>1. /\ request.n \in 1 .. Len(route.looks) /\ Len(route.looks) \in Nat
        /\ look.missing \in {"400", "404", "409", "fresh", "scan"}
        /\ look.missing # "scan" /\ look.kind \in Tabled
    BY RouteFacts DEF Look
  <1>2. \/ Over(look.missing) /\ look.missing \in {"400", "404", "409"}
        \/ /\ look.missing = "404" => ~Gone(look.kind)
           /\ request' = OnwardFrom([request EXCEPT !.saw = Looked(look.kind), !.n = @ + 1])
    BY <1>1 DEF Look
  <1>3. /\ request.step = "look"
        /\ UNCHANGED <<deployment, caller, role, rows, models, audit, history>>
    BY DEF Look
  <1> HIDE DEF look
  <1>4. CASE Over(look.missing) /\ look.missing \in {"400", "404", "409"}
    BY <1>1, <1>3, <1>4, OverMoves DEF look, Answers, SameFound, SameWork
  <1>5. CASE /\ look.missing = "404" => ~Gone(look.kind)
             /\ request' = OnwardFrom([request EXCEPT !.saw = Looked(look.kind), !.n = @ + 1])
    <2> DEFINE r == [request EXCEPT !.saw = Looked(look.kind), !.n = @ + 1]
    <2>1. Looked(look.kind) \in Sighting
      BY <1>1, LookedAt
    <2>2. /\ r \in Request /\ r.saw = Looked(look.kind) /\ r.n = request.n + 1
          /\ r.step = request.step /\ r.extent = request.extent
          /\ r.handler = request.handler /\ r.owned = request.owned /\ r.named = request.named
          /\ r.ctx = request.ctx /\ r.did = request.did
          /\ r.scan = request.scan /\ r.answer = request.answer
      BY <2>1, SightMoves
    <2>3. request' = OnwardFrom(r)
      BY <1>5
    <2> HIDE DEF r
    <2>4. /\ request' \in Request /\ request'.saw = Looked(look.kind)
          /\ request'.answer = request.answer
          /\ SameAsk /\ SameFound /\ SameScan /\ request'.did = request.did
      BY <2>2, <2>3, OnwardMoves DEF SameAsk, SameFound, SameScan
    <2>5. \/ request'.step = "look" /\ request'.n = request.n + 1
          \/ request'.step = "do" /\ request'.n = 1 /\ request.n = Len(route.looks)
      <3>1. CASE request.n + 1 <= Len(route.looks)
        BY <1>3, <2>2, <2>3, <3>1, OnwardMoves
      <3>2. CASE request.n = Len(route.looks)
        BY <1>1, <2>2, <2>3, <3>2, OnwardMoves
      <3> QED BY <1>1, <3>1, <3>2
    <2> QED BY <1>1, <1>3, <1>5, <2>4, <2>5 DEF look
  <1> QED
    BY <1>2, <1>4, <1>5

SameHeld  == history'.held = history.held
SameLate  == history'.late = history.late
SameTrace ==
  /\ history'.removed = history.removed /\ history'.unseen = history.unseen
  /\ history'.undone = history.undone
SameModels ==
  /\ history'.passed = history.passed /\ history'.poolMoved = history.poolMoved
  /\ history'.torn = history.torn

LEMMA PassedMoves ==
  ASSUME TypeOK, history' = Passed
  PROVE  /\ history' \in History /\ history'.passed = history.passed \cup {models}
         /\ history'.poolMoved = history.poolMoved /\ history'.torn = history.torn
         /\ SameHeld /\ SameLate /\ SameTrace
  <1>1. history.passed \cup {models} \in SUBSET ModelStates
    BY DEF TypeOK, History
  <1> HIDE DEF ModelStates
  <1> QED
    BY <1>1 DEF TypeOK, History, Passed, SameHeld, SameLate, SameTrace

LEMMA ModelsTyped ==
  ASSUME TypeOK
  PROVE  /\ models.pool \in Pools /\ models.mode \in Modes /\ models.listed \in BOOLEAN
         /\ models.mode = "all" => ~models.listed
         /\ models = [pool |-> models.pool, mode |-> models.mode, listed |-> models.listed]
  BY DEF TypeOK, ModelStates, Pools, Modes

\* The three reads.
LEMMA ScanPoolMoves ==
  ASSUME TypeOK, ScanPool
  PROVE  /\ request' \in Request /\ request.step = "look" /\ Scans(request.handler)
         /\ SameAsk /\ SameFound /\ SameWork
         /\ \/ /\ request'.step = "over" /\ request'.answer = "403" /\ models.pool = "without"
               /\ request'.scan.verdict = "no" /\ request'.n = request.n
            \/ /\ request'.step = "look" /\ request'.answer = request.answer /\ request'.n = 2
               /\ request'.scan.pool = models.pool
               /\ request'.scan.verdict = request.scan.verdict
         /\ history' = Passed
         /\ UNCHANGED <<deployment, caller, role, rows, models, audit>>
  <1>1. models.pool \in Pools
    BY ModelsTyped
  <1>2. CASE /\ models.pool = "without"
             /\ request' = [request EXCEPT !.scan.verdict = "no", !.step = "over", !.answer = "403"]
    BY <1>2 DEF ScanPool, TypeOK, Request, Steps, Answers, SameAsk, SameFound, SameWork
  <1>3. CASE request' = [request EXCEPT !.scan.pool = models.pool, !.n = 2]
    BY <1>1, <1>3 DEF ScanPool, TypeOK, Request, Steps, Answers, SameAsk, SameFound, SameWork
  <1> QED
    BY <1>2, <1>3 DEF ScanPool

LEMMA ScanModeMoves ==
  ASSUME TypeOK, ScanMode
  PROVE  /\ request' \in Request /\ request.step = "look" /\ Scans(request.handler)
         /\ request.n = 2 /\ request'.n = 3
         /\ request'.step = "look" /\ request'.answer = request.answer
         /\ SameAsk /\ SameFound /\ SameWork
         /\ request'.scan.pool = request.scan.pool /\ request'.scan.mode = models.mode
         /\ request'.scan.verdict = request.scan.verdict
         /\ history' = Passed
         /\ UNCHANGED <<deployment, caller, role, rows, models, audit>>
  <1>1. models.mode \in Modes
    BY ModelsTyped
  <1> QED
    BY <1>1 DEF ScanMode, TypeOK, Request, Steps, Answers, SameAsk, SameFound, SameWork

LEMMA ScanIdsMoves ==
  ASSUME TypeOK, ScanIds
  PROVE  /\ request' \in Request /\ request.step = "look" /\ Scans(request.handler)
         /\ request.n = 3 /\ request'.n = request.n
         /\ request'.step = "over" /\ request'.answer = "ok"
         /\ SameAsk /\ SameFound /\ SameWork
         /\ request'.scan.verdict =
              (IF Allows(request.scan.pool, request.scan.mode, models.listed) THEN "yes" ELSE "no")
         /\ history' = Passed
         /\ UNCHANGED <<deployment, caller, role, rows, models, audit>>
  <1> DEFINE v == IF Allows(request.scan.pool, request.scan.mode, models.listed)
                    THEN "yes" ELSE "no"
  <1>1. v \in {"yes", "no"}
    OBVIOUS
  <1>2. /\ request' = [request EXCEPT !.scan.verdict = v, !.step = "over", !.answer = "ok"]
        /\ request.step = "look" /\ Scans(request.handler) /\ request.n = 3
        /\ history' = Passed
        /\ UNCHANGED <<deployment, caller, role, rows, models, audit>>
    BY DEF ScanIds
  <1> HIDE DEF v
  <1>3. /\ request' \in Request /\ request'.n = request.n
        /\ request'.step = "over" /\ request'.answer = "ok" /\ request'.scan.verdict = v
        /\ SameAsk /\ SameFound /\ SameWork
    BY <1>1, <1>2 DEF TypeOK, Request, Steps, Answers, SameAsk, SameFound, SameWork
  <1> QED
    BY <1>2, <1>3 DEF v

\* What a statement does to the rows.

LEMMA AfterTyped ==
  ASSUME TypeOK, NEW op, NEW kind \in Tabled, NEW content \in RowStates
  PROVE  After(op, kind, content) \in [Tabled -> RowStates]
  <1>1. rows \in [Tabled -> RowStates] /\ "absent" \in RowStates
    BY DEF TypeOK, RowStates
  <1>2. [k \in Tabled |-> IF k \in Cascaded(kind) THEN "absent" ELSE rows[k]]
          \in [Tabled -> RowStates]
    BY <1>1
  <1>3. [rows EXCEPT ![kind] = "absent"] \in [Tabled -> RowStates]
    BY <1>1
  <1>4. [rows EXCEPT ![kind] = content] \in [Tabled -> RowStates]
    BY <1>1
  <1> HIDE DEF Tabled, RowStates
  <1> QED
    BY <1>1, <1>2, <1>3, <1>4, KindsAre DEF After

LEMMA RoleAfterTyped ==
  ASSUME TypeOK, NEW op, NEW kind
  PROVE  RoleAfter(op, kind) \in [Orgs -> Roles]
  <1>1. role \in [Orgs -> Roles] /\ "none" \in Roles
    BY RolesAre DEF TypeOK
  <1> QED
    BY <1>1 DEF RoleAfter

LEMMA HeldTyped ==
  ASSUME TypeOK, NEW new \in [Orgs -> Roles]
  PROVE  /\ Held(new) \in [Orgs -> SUBSET Roles]
         /\ \A o \in Orgs : Held(new)[o] = history.held[o] \cup {new[o]}
  <1>1. history.held \in [Orgs -> SUBSET Roles]
    BY DEF TypeOK, History
  <1> QED
    BY <1>1 DEF Held

\* The statement a handler stands at.
LEMMA StatementFacts ==
  ASSUME TypeOK, NEW i \in 1 .. Len(route.does)
  PROVE  /\ route.does[i].op \in Ops /\ route.does[i].kind \in Tabled
         /\ route.does[i].must \in BOOLEAN
         /\ Placed(route.does[i]) /\ KeptSeen(route.looks, route.does[i])
         /\ Answerable(route.looks, route.does, i)
  BY RouteFacts DEF Statement

LEMMA DoHistory ==
  ASSUME TypeOK, NEW op, NEW kind \in Tabled, role' \in [Orgs -> Roles],
         history' = [history EXCEPT !.late = @ \cup LateBy(op, kind),
                                    !.undone = @ \cup UndoneBy(op, kind),
                                    !.held = Held(role')]
  PROVE  /\ history' \in History
         /\ history'.held = Held(role')
         /\ history'.late = history.late \cup LateBy(op, kind)
         /\ history'.removed = history.removed /\ history'.unseen = history.unseen
         /\ history'.undone = history.undone \cup UndoneBy(op, kind)
         /\ SameModels
  <1>1. Held(role') \in [Orgs -> SUBSET Roles]
    BY HeldTyped
  <1> DEFINE l == history.late \cup LateBy(op, kind)
             u == history.undone \cup UndoneBy(op, kind)
  <1>2. history \in History /\ l \in SUBSET Tabled /\ u \in SUBSET Tabled
    BY DEF TypeOK, History, LateBy, UndoneBy
  <1>3. history' = [history EXCEPT !.late = l, !.undone = u, !.held = Held(role')]
    OBVIOUS
  <1> HIDE DEF l, u
  <1>4. ASSUME NEW h, h \in [Orgs -> SUBSET Roles],
               history' = [history EXCEPT !.late = l, !.undone = u, !.held = h]
        PROVE  /\ history' \in History /\ history'.held = h /\ history'.late = l
               /\ history'.removed = history.removed /\ history'.unseen = history.unseen
               /\ history'.undone = u /\ SameModels
    <2> HIDE DEF Tabled, ModelStates, Orgs, Roles
    <2>1. history' \in History
      BY <1>2, <1>4 DEF History
    <2>2. /\ history'.held = h /\ history'.late = l
          /\ history'.removed = history.removed /\ history'.unseen = history.unseen
          /\ history'.undone = u /\ SameModels
      BY <1>2, <1>4 DEF History, SameModels
    <2> QED BY <2>1, <2>2
  <1> QED
    BY <1>1, <1>3, <1>4 DEF l, u

LEMMA DoMoves ==
  ASSUME TypeOK, Do
  PROVE  /\ request' \in Request /\ request.step = "do" /\ request'.step = "do"
         /\ request.n \in 1 .. Len(route.does) /\ request'.n = request.n + 1
         /\ request'.answer = request.answer
         /\ SameAsk /\ SameFound /\ SameScan /\ request'.saw = request.saw
         /\ request'.did = request.did \cup {request.n}
         /\ LET s == route.does[request.n]
            IN  /\ Possible(s.op, s.kind)
                /\ rows' = After(s.op, s.kind, "mine")
                /\ role' = RoleAfter(s.op, s.kind)
                /\ history'.late = history.late \cup LateBy(s.op, s.kind)
                /\ history'.undone = history.undone \cup UndoneBy(s.op, s.kind)
         /\ history' \in History /\ history'.held = Held(role')
         /\ history'.removed = history.removed /\ history'.unseen = history.unseen
         /\ SameModels
         /\ rows' \in [Tabled -> RowStates] /\ role' \in [Orgs -> Roles]
         /\ UNCHANGED <<deployment, caller, models, audit>>
  <1> DEFINE s == route.does[request.n]
  <1>1. /\ request.step = "do" /\ request.n \in 1 .. Len(route.does)
    BY RouteFacts DEF Do
  <1>2. s.kind \in Tabled
    BY <1>1, StatementFacts
  <1>3. /\ Possible(s.op, s.kind)
        /\ rows' = After(s.op, s.kind, "mine")
        /\ role' = RoleAfter(s.op, s.kind)
        /\ history' = [history EXCEPT !.late = @ \cup LateBy(s.op, s.kind),
                                      !.undone = @ \cup UndoneBy(s.op, s.kind),
                                      !.held = Held(role')]
        /\ request' = [request EXCEPT !.did = @ \cup {request.n}, !.n = @ + 1]
        /\ UNCHANGED <<deployment, caller, models, audit>>
    BY DEF Do
  <1>4. /\ request' \in Request /\ request'.step = "do" /\ request'.n = request.n + 1
        /\ request'.answer = request.answer
        /\ SameAsk /\ SameFound /\ SameScan /\ request'.saw = request.saw
        /\ request'.did = request.did \cup {request.n}
    <2>1. /\ request \in Request /\ request.n + 1 \in Nat
          /\ request.did \cup {request.n} \in SUBSET Nat
      BY RequestFields DEF TypeOK
    <2>2. ASSUME NEW m, m \in Nat, NEW d \in SUBSET Nat,
                 request' = [request EXCEPT !.did = d, !.n = m]
          PROVE  /\ request' \in Request /\ request'.step = request.step /\ request'.n = m
                 /\ request'.answer = request.answer
                 /\ SameAsk /\ SameFound /\ SameScan /\ request'.saw = request.saw
                 /\ request'.did = d
      BY <2>1, <2>2 DEF Request, SameAsk, SameFound, SameScan
    <2> QED BY <1>1, <1>3, <2>1, <2>2
  <1>5. role' \in [Orgs -> Roles]
    BY <1>3, RoleAfterTyped
  <1>6. rows' \in [Tabled -> RowStates]
    <2>1. "mine" \in RowStates
      BY DEF RowStates
    <2> QED BY <1>2, <1>3, <2>1, AfterTyped
  <1> HIDE DEF s
  <1>7. /\ history' \in History
        /\ history'.held = Held(role')
        /\ history'.late = history.late \cup LateBy(s.op, s.kind)
        /\ history'.removed = history.removed /\ history'.unseen = history.unseen
        /\ history'.undone = history.undone \cup UndoneBy(s.op, s.kind)
        /\ SameModels
    BY <1>2, <1>3, <1>5, DoHistory
  <1> QED
    BY <1>1, <1>3, <1>4, <1>5, <1>6, <1>7 DEF s

LEMMA DoMissingMoves ==
  ASSUME TypeOK, DoMissing
  PROVE  /\ request' \in Request /\ request.step = "do"
         /\ request.n \in 1 .. Len(route.does)
         /\ SameAsk /\ SameFound /\ SameWork /\ SameScan
         /\ LET s == route.does[request.n]
            IN  /\ s.op \notin Inserts /\ ~Possible(s.op, s.kind)
                /\ \/ request'.step = "over" /\ request'.answer = "404" /\ request'.n = request.n
                   \/ /\ ~(s.must /\ s.op \in TableOf(s.kind).told)
                      /\ request'.step = "do" /\ request'.n = request.n + 1
                      /\ request'.answer = request.answer
         /\ UNCHANGED <<deployment, caller, role, rows, models, audit, history>>
  <1> DEFINE s == route.does[request.n]
  <1>1. /\ request.step = "do" /\ request.n \in 1 .. Len(route.does)
    BY RouteFacts DEF DoMissing
  <1>2. /\ s.op \notin Inserts /\ ~Possible(s.op, s.kind)
        /\ \/ Over("404")
           \/ /\ ~(s.must /\ s.op \in TableOf(s.kind).told)
              /\ request' = [request EXCEPT !.n = @ + 1]
        /\ UNCHANGED <<deployment, caller, role, rows, models, audit, history>>
    BY DEF DoMissing
  <1> HIDE DEF s
  <1>3. CASE Over("404")
    <2>1. "404" \in Answers
      BY DEF Answers
    <2> QED BY <1>1, <1>2, <1>3, <2>1, OverMoves DEF s
  <1>4. CASE /\ ~(s.must /\ s.op \in TableOf(s.kind).told)
             /\ request' = [request EXCEPT !.n = @ + 1]
    BY <1>1, <1>2, <1>4, NextStatementMoves DEF s
  <1> QED
    BY <1>2, <1>3, <1>4

LEMMA DoFailsMoves ==
  ASSUME TypeOK, DoFails
  PROVE  /\ request' \in Request /\ request.step = "do"
         /\ request.n \in 1 .. Len(route.does)
         /\ SameAsk /\ SameFound /\ SameWork /\ SameScan
         /\ \/ request'.step = "over" /\ request'.answer = "500" /\ request'.n = request.n
            \/ /\ ~route.does[request.n].must
               /\ request'.step = "do" /\ request'.n = request.n + 1
               /\ request'.answer = request.answer
         /\ history' \in History /\ SameHeld /\ SameLate /\ SameTrace /\ SameModels
         /\ UNCHANGED <<deployment, caller, role, rows, models, audit>>
  <1> DEFINE s == route.does[request.n]
             fault == IF s.op \in Inserts /\ ~Possible(s.op, s.kind) THEN 0 ELSE 1
  <1>1. /\ request.step = "do" /\ request.n \in 1 .. Len(route.does)
    BY RouteFacts DEF DoFails
  <1>2. /\ history' = [history EXCEPT !.faults = @ + fault]
        /\ \/ Over("500")
           \/ ~s.must /\ request' = [request EXCEPT !.n = @ + 1]
        /\ UNCHANGED <<deployment, caller, role, rows, models, audit>>
    BY DEF DoFails
  <1>3. fault \in Nat
    OBVIOUS
  <1> HIDE DEF fault
  <1>4. history' \in History /\ SameHeld /\ SameLate /\ SameTrace /\ SameModels
    <2> HIDE DEF Tabled, ModelStates, Orgs, Roles
    <2> QED BY <1>2, <1>3 DEF TypeOK, History, SameHeld, SameLate, SameTrace, SameModels
  <1> HIDE DEF s
  <1>5. CASE Over("500")
    <2>1. "500" \in Answers
      BY DEF Answers
    <2> QED BY <1>1, <1>2, <1>4, <1>5, <2>1, OverMoves DEF s
  <1>6. CASE ~s.must /\ request' = [request EXCEPT !.n = @ + 1]
    BY <1>1, <1>2, <1>4, <1>6, NextStatementMoves DEF s
  <1> QED
    BY <1>2, <1>5, <1>6

\* A lookup that fails ends the request.
LEMMA LookupFailsMoves ==
  ASSUME TypeOK, LookupFails
  PROVE  /\ request' \in Request /\ request.step = "authenticate"
         /\ request'.step = "over" /\ request'.answer \in {"401", "500"}
         /\ request'.n = request.n
         /\ SameAsk /\ SameFound /\ SameWork /\ SameScan
         /\ history' \in History /\ SameHeld /\ SameLate /\ SameTrace /\ SameModels
         /\ UNCHANGED <<deployment, caller, role, rows, models, audit>>
  <1>1. /\ request.step = "authenticate" /\ (Over("401") \/ Over("500"))
        /\ history' = [history EXCEPT !.faults = @ + 1]
        /\ UNCHANGED <<deployment, caller, role, rows, models, audit>>
    BY DEF LookupFails
  <1>2. history' \in History /\ SameHeld /\ SameLate /\ SameTrace /\ SameModels
    <2> HIDE DEF Tabled, ModelStates, Orgs, Roles
    <2> QED BY <1>1 DEF TypeOK, History, SameHeld, SameLate, SameTrace, SameModels
  <1>3. {"401", "500"} \subseteq Answers
    BY DEF Answers
  <1> QED
    BY <1>1, <1>2, <1>3, OverMoves

\* A listing that fails leaves a session its own rank.
LEMMA ListingFailsMoves ==
  ASSUME TypeOK, ListingFails
  PROVE  /\ request' \in Request /\ request.step = "authenticate" /\ Session
         /\ request'.extent = request.extent /\ request'.n = request.n
         /\ request'.step = "find" /\ request'.answer = request.answer
         /\ request'.ctx.org = NoOrg /\ request'.ctx.as = caller.rank
         /\ CheckScope(route.scope)
         /\ SameAsk /\ SameWork /\ SameScan
         /\ history' \in History /\ SameHeld /\ SameLate /\ SameTrace /\ SameModels
         /\ history'.unlisted
         /\ UNCHANGED <<deployment, caller, role, rows, models, audit>>
  <1> DEFINE ctx == [org |-> NoOrg, as |-> caller.rank]
  <1>1. /\ request.step = "authenticate" /\ Session /\ CheckScope(route.scope)
        /\ request' = [request EXCEPT !.ctx = ctx, !.step = "find"]
        /\ history' = [history EXCEPT !.faults = @ + 1, !.unlisted = TRUE]
        /\ UNCHANGED <<deployment, caller, role, rows, models, audit>>
    BY DEF ListingFails
  <1>2. /\ history' \in History /\ SameHeld /\ SameLate /\ SameTrace /\ SameModels
        /\ history'.unlisted
    <2> HIDE DEF Tabled, ModelStates, Orgs, Roles
    <2>1. history \in History
      BY DEF TypeOK
    <2>2. ASSUME NEW n, n \in Nat, NEW failed \in BOOLEAN,
                 history' = [history EXCEPT !.faults = n, !.unlisted = failed]
          PROVE  /\ history' \in History /\ SameHeld /\ SameLate /\ SameTrace /\ SameModels
                 /\ history'.unlisted = failed
      <3>1. history' \in History
        BY <2>1, <2>2 DEF History
      <3>2. history'.unlisted = failed /\ SameHeld /\ SameLate
        BY <2>1, <2>2 DEF History, SameHeld, SameLate
      <3>3. SameTrace /\ SameModels
        BY <2>1, <2>2 DEF History, SameTrace, SameModels
      <3> QED BY <3>1, <3>2, <3>3
    <2>3. TRUE \in BOOLEAN /\ history.faults + 1 \in Nat
      BY <2>1 DEF History
    <2> HIDE DEF History, SameHeld, SameLate, SameTrace, SameModels
    <2> QED BY <1>1, <2>2, <2>3
  <1>3. ctx \in [org : Orgs \cup {"none"}, as : Roles]
    BY DEF TypeOK, Caller, NoOrg, Orgs
  <1>4. ctx.org = NoOrg /\ ctx.as = caller.rank
    OBVIOUS
  <1> HIDE DEF ctx, Orgs, Roles
  <1>5. /\ request' \in Request /\ request'.ctx = ctx /\ request'.step = "find"
        /\ request'.extent = request.extent /\ request'.n = request.n
        /\ request'.answer = request.answer /\ SameAsk /\ SameWork /\ SameScan
    BY <1>1, <1>3 DEF TypeOK, Request, Steps, SameAsk, SameWork, SameScan
  <1> QED
    BY <1>1, <1>2, <1>4, <1>5

LEMMA AnswerMoves ==
  ASSUME TypeOK, Answer
  PROVE  /\ request' \in Request /\ request.step = "do" /\ request.n > Len(route.does)
         /\ request'.step = "over" /\ request'.answer = "ok" /\ request'.n = request.n
         /\ SameAsk /\ SameFound /\ SameWork /\ SameScan
         /\ \/ route.tells = "nobody" /\ audit' = audit
            \/ route.tells = "target" /\ audit' = [state |-> "spawned", under |-> Home]
            \/ route.tells = "context" /\ audit' = [state |-> "spawned", under |-> LogAudit]
         /\ UNCHANGED <<deployment, caller, role, rows, models, history>>
  <1>1. "ok" \in Answers
    BY DEF Answers
  <1>2. Over("ok") /\ request.step = "do" /\ request.n > Len(route.does)
    BY DEF Answer
  <1>3. route.tells \in {"nobody", "target", "context"}
    BY RouteFacts DEF Gated
  <1>4. \/ route.tells = "nobody" /\ audit' = audit
        \/ route.tells = "target" /\ audit' = [state |-> "spawned", under |-> Home]
        \/ route.tells = "context" /\ audit' = [state |-> "spawned", under |-> LogAudit]
    BY <1>3 DEF Answer, LogOrgAudit
  <1> QED
    BY <1>1, <1>2, <1>4, OverMoves DEF Answer

LEMMA AbandonMoves ==
  ASSUME TypeOK, Abandon
  PROVE  /\ request' \in Request /\ request.step # "over"
         /\ request'.step = "over" /\ request'.answer = "abandoned" /\ request'.n = request.n
         /\ SameAsk /\ SameFound /\ SameWork /\ SameScan
         /\ UNCHANGED <<deployment, caller, role, rows, models, audit, history>>
  <1>1. "abandoned" \in Answers
    BY DEF Answers
  <1> QED
    BY <1>1, OverMoves DEF Abandon

LEMMA InsertAuditMoves ==
  ASSUME TypeOK, InsertAudit
  PROVE  /\ audit.state = "spawned" /\ audit'.under = audit.under
         /\ audit' \in [state : {"none", "spawned", "inserted", "refused", "lost"},
                        under : Orgs \cup {"none", "default"}]
         /\ \/ audit'.state \in {"inserted", "lost"}
            \/ /\ audit'.state = "refused" /\ audit.under = Home
               /\ \E p \in TableOf("audit").refs : Gone(p)
         /\ history' \in History /\ SameHeld /\ SameLate /\ SameTrace /\ SameModels
         /\ UNCHANGED <<deployment, caller, request, role, rows, models>>
  <1>1. /\ audit.state = "spawned"
        /\ \/ audit' = [audit EXCEPT !.state = "inserted"]
           \/ /\ audit.under = Home /\ \E p \in TableOf("audit").refs : Gone(p)
              /\ audit' = [audit EXCEPT !.state = "refused"]
           \/ audit' = [audit EXCEPT !.state = "lost"]
        /\ UNCHANGED <<deployment, caller, request, role, rows, models>>
    BY DEF InsertAudit
  <1>2. UNCHANGED history \/ history' = [history EXCEPT !.faults = @ + 1]
    BY DEF InsertAudit
  <1>3. history' \in History /\ SameHeld /\ SameLate /\ SameTrace /\ SameModels
    <2> HIDE DEF Tabled, ModelStates, Orgs, Roles
    <2> QED BY <1>2 DEF TypeOK, History, SameHeld, SameLate, SameTrace, SameModels
  <1>4. audit \in [state : {"none", "spawned", "inserted", "refused", "lost"},
                   under : Orgs \cup {"none", "default"}]
    BY DEF TypeOK
  <1> QED
    BY <1>1, <1>3, <1>4

\* What other requests do.
LEMMA OneMore == TypeOK => history \in History /\ history.others + 1 \in Nat
  BY DEF TypeOK, History

LEMMA ChangeRoleMoves ==
  ASSUME TypeOK, NEW org \in Orgs, NEW new \in NewRoles, ChangeRole(org, new)
  PROVE  /\ Meanwhile /\ role' \in [Orgs -> Roles]
         /\ history' \in History /\ history'.held = Held(role')
         /\ SameLate /\ SameTrace /\ SameModels
         /\ UNCHANGED <<deployment, caller, request, rows, models, audit>>
  <1>1. /\ Meanwhile /\ role' = [role EXCEPT ![org] = new]
        /\ history' = [history EXCEPT !.others = @ + 1, !.held = Held(role')]
        /\ UNCHANGED <<deployment, caller, request, rows, models, audit>>
    BY DEF ChangeRole
  <1>2. new \in Roles
    BY AccessAssumption
  <1>3. role' \in [Orgs -> Roles]
    <2> HIDE DEF Roles, Orgs
    <2> QED BY <1>1, <1>2 DEF TypeOK
  <1>4. Held(role') \in [Orgs -> SUBSET Roles]
    BY <1>3, HeldTyped
  <1>5. ASSUME NEW o, o \in Nat, NEW h, h \in [Orgs -> SUBSET Roles],
               history' = [history EXCEPT !.others = o, !.held = h]
        PROVE  /\ history' \in History /\ history'.held = h
               /\ SameLate /\ SameTrace /\ SameModels
    <2> HIDE DEF Tabled, ModelStates, Orgs, Roles
    <2> QED BY <1>5, OneMore DEF History, SameLate, SameTrace, SameModels
  <1> QED
    BY <1>1, <1>3, <1>4, <1>5, OneMore

LEMMA OtherWriteMoves ==
  ASSUME TypeOK, NEW kind \in Kinds, OtherWrite(kind)
  PROVE  /\ Meanwhile /\ kind \in Tabled \ {"org", "app"} /\ Possible("upsert", kind)
         /\ rows' = [rows EXCEPT ![kind] = "theirs"] /\ rows' \in [Tabled -> RowStates]
         /\ history' \in History
         /\ history'.late = history.late \cup LateBy("upsert", kind)
         /\ history'.removed = history.removed /\ history'.undone = history.undone
         /\ history'.unseen =
              history.unseen \cup (IF kind \in DOMAIN request.saw THEN {kind} ELSE {})
         /\ SameHeld /\ SameModels
         /\ UNCHANGED <<deployment, caller, request, role, models, audit>>
  <1>1. /\ Meanwhile /\ kind \notin {"org", "app"} /\ Possible("upsert", kind)
        /\ rows' = [rows EXCEPT ![kind] = "theirs"]
        /\ history' = [history EXCEPT !.others = @ + 1, !.late = @ \cup LateBy("upsert", kind),
             !.unseen = IF kind \in DOMAIN request.saw THEN @ \cup {kind} ELSE @]
        /\ UNCHANGED <<deployment, caller, request, role, models, audit>>
    BY DEF OtherWrite, Traffic
  <1>2. kind \in Tabled
    BY KindsAre
  <1>3. rows' \in [Tabled -> RowStates]
    <2>1. "theirs" \in RowStates
      BY DEF RowStates
    <2> HIDE DEF Tabled, RowStates
    <2> QED BY <1>1, <2>1 DEF TypeOK
  <1>4. LateBy("upsert", kind) \in SUBSET Tabled
    BY <1>2 DEF LateBy
  <1>5. ASSUME NEW o, o \in Nat, NEW l \in SUBSET Tabled, NEW u \in SUBSET Tabled,
               history' = [history EXCEPT !.others = o, !.late = @ \cup l, !.unseen = u]
        PROVE  /\ history' \in History
               /\ history'.late = history.late \cup l
               /\ history'.removed = history.removed /\ history'.undone = history.undone
               /\ history'.unseen = u
               /\ SameHeld /\ SameModels
    <2> HIDE DEF Tabled, ModelStates, Orgs, Roles
    <2> QED BY <1>5, OneMore DEF History, SameHeld, SameModels
  <1> DEFINE u == history.unseen \cup (IF kind \in DOMAIN request.saw THEN {kind} ELSE {})
  <1>6. u \in SUBSET Tabled
    BY <1>2 DEF TypeOK, History
  <1>7. history' = [history EXCEPT !.others = @ + 1, !.late = @ \cup LateBy("upsert", kind),
                                   !.unseen = u]
    <2>1. (IF kind \in DOMAIN request.saw THEN history.unseen \cup {kind} ELSE history.unseen) = u
      OBVIOUS
    <2> HIDE DEF u
    <2> QED BY <1>1, <2>1
  <1>8. /\ history' \in History
        /\ history'.late = history.late \cup LateBy("upsert", kind)
        /\ history'.removed = history.removed /\ history'.undone = history.undone
        /\ history'.unseen = u
        /\ SameHeld /\ SameModels
    <2> HIDE DEF u
    <2> QED BY <1>4, <1>5, <1>6, <1>7, OneMore
  <1> QED
    BY <1>1, <1>2, <1>3, <1>8

LEMMA OtherDeleteMoves ==
  ASSUME TypeOK, NEW kind \in Kinds, OtherDelete(kind)
  PROVE  LET op == IF kind \in {"org", "app"} THEN "cascade" ELSE "delete"
         IN  /\ Meanwhile /\ kind \in Tabled
             /\ rows' = After(op, kind, "theirs") /\ rows' \in [Tabled -> RowStates]
             /\ role' = RoleAfter(op, kind) /\ role' \in [Orgs -> Roles]
             /\ history' \in History /\ history'.held = Held(role')
             /\ history'.removed =
                  history.removed \cup {k \in Tabled : rows'[k] = "absent" /\ ~Gone(k)}
             /\ history'.unseen = history.unseen /\ history'.undone = history.undone
             /\ SameLate /\ SameModels
             /\ UNCHANGED <<deployment, caller, request, models, audit>>
  <1> DEFINE op == IF kind \in {"org", "app"} THEN "cascade" ELSE "delete"
             gone == {k \in Tabled : rows'[k] = "absent" /\ ~Gone(k)}
  <1>1. /\ Meanwhile /\ kind \in Tabled
        /\ rows' = After(op, kind, "theirs") /\ role' = RoleAfter(op, kind)
        /\ history' = [history EXCEPT !.others = @ + 1, !.held = Held(role'),
                                      !.removed = @ \cup gone]
        /\ UNCHANGED <<deployment, caller, request, models, audit>>
    BY KindsAre DEF OtherDelete
  <1>2. gone \in SUBSET Tabled
    OBVIOUS
  <1> HIDE DEF op, gone
  <1>3. rows' \in [Tabled -> RowStates]
    <2>1. "theirs" \in RowStates
      BY DEF RowStates
    <2> QED BY <1>1, <2>1, AfterTyped
  <1>4. role' \in [Orgs -> Roles]
    BY <1>1, RoleAfterTyped
  <1>5. Held(role') \in [Orgs -> SUBSET Roles]
    BY <1>4, HeldTyped
  <1>6. ASSUME NEW o, o \in Nat, NEW h, h \in [Orgs -> SUBSET Roles], NEW g \in SUBSET Tabled,
               history' = [history EXCEPT !.others = o, !.held = h, !.removed = @ \cup g]
        PROVE  /\ history' \in History /\ history'.held = h
               /\ history'.removed = history.removed \cup g
               /\ history'.unseen = history.unseen /\ history'.undone = history.undone
               /\ SameLate /\ SameModels
    <2> HIDE DEF Tabled, ModelStates, Orgs, Roles
    <2> QED BY <1>6, OneMore DEF History, SameLate, SameModels
  <1>7. /\ history' \in History /\ history'.held = Held(role')
        /\ history'.removed = history.removed \cup gone
        /\ history'.unseen = history.unseen /\ history'.undone = history.undone
        /\ SameLate /\ SameModels
    BY <1>1, <1>2, <1>5, <1>6, OneMore
  <1> QED
    BY <1>1, <1>3, <1>4, <1>7 DEF op, gone

\* A new pool, and a new access.
LEMMA ModelsHistory ==
  ASSUME TypeOK, models' \in ModelStates, NEW moved \in BOOLEAN, NEW torn \in BOOLEAN,
         history' = [history EXCEPT !.others = @ + 1, !.passed = @ \cup {models, models'},
                                    !.poolMoved = moved, !.torn = torn]
  PROVE  /\ history' \in History
         /\ history'.passed = history.passed \cup {models, models'}
         /\ history'.poolMoved = moved /\ history'.torn = torn
         /\ SameHeld /\ SameLate /\ SameTrace
  <1>1. history.passed \cup {models, models'} \in SUBSET ModelStates
    BY DEF TypeOK, History
  <1>2. ASSUME NEW o, o \in Nat, NEW p \in SUBSET ModelStates,
               history' = [history EXCEPT !.others = o, !.passed = p,
                                          !.poolMoved = moved, !.torn = torn]
        PROVE  /\ history' \in History /\ history'.passed = p
               /\ history'.poolMoved = moved /\ history'.torn = torn
               /\ SameHeld /\ SameLate /\ SameTrace
    <2> HIDE DEF ModelStates, Tabled, Orgs, Roles
    <2> QED BY <1>2, OneMore DEF History, SameHeld, SameLate, SameTrace
  <1> QED
    BY <1>1, <1>2, OneMore

LEMMA SetPoolMoves ==
  ASSUME TypeOK, NEW pool \in {"open", "with", "without"}, SetPool(pool)
  PROVE  /\ Meanwhile /\ models' \in ModelStates
         /\ models'.mode = models.mode /\ models'.listed = models.listed
         /\ history' \in History
         /\ history'.passed = history.passed \cup {models, models'}
         /\ ~history'.poolMoved => ~history.poolMoved /\ ~(request.n > 1)
         /\ history'.torn = history.torn
         /\ SameHeld /\ SameLate /\ SameTrace
         /\ UNCHANGED <<deployment, caller, request, role, rows, audit>>
  <1>1. /\ Meanwhile /\ models' = [models EXCEPT !.pool = pool]
        /\ history' = [history EXCEPT !.others = @ + 1, !.passed = @ \cup {models, models'},
                                      !.poolMoved = @ \/ request.n > 1]
        /\ UNCHANGED <<deployment, caller, request, role, rows, audit>>
    BY DEF SetPool
  <1>2. /\ models' \in ModelStates
        /\ models'.mode = models.mode /\ models'.listed = models.listed
    BY <1>1 DEF TypeOK, ModelStates
  <1>3. /\ history \in History /\ history.torn \in BOOLEAN /\ history.poolMoved \in BOOLEAN
    BY DEF TypeOK, History
  <1> DEFINE t == history.poolMoved \/ request.n > 1
  <1>4. /\ t \in BOOLEAN
        /\ history' = [history EXCEPT !.others = @ + 1, !.passed = @ \cup {models, models'},
                         !.poolMoved = t, !.torn = history.torn]
    BY <1>1, <1>3 DEF History
  <1> HIDE DEF t
  <1>5. /\ history' \in History
        /\ history'.passed = history.passed \cup {models, models'}
        /\ history'.poolMoved = t /\ history'.torn = history.torn
        /\ SameHeld /\ SameLate /\ SameTrace
    BY <1>2, <1>3, <1>4, ModelsHistory
  <1>6. ~history'.poolMoved => ~history.poolMoved /\ ~(request.n > 1)
    <2>1. CASE t
      BY <1>4, <1>5, <2>1
    <2>2. CASE ~t
      BY <2>2 DEF t
    <2> QED BY <2>1, <2>2
  <1> QED
    BY <1>1, <1>2, <1>5, <1>6

LEMMA SetAccessMoves ==
  ASSUME TypeOK, NEW mode \in {"all", "select"}, NEW listed \in BOOLEAN, SetAccess(mode, listed)
  PROVE  /\ Meanwhile /\ models' \in ModelStates
         /\ models'.pool = models.pool
         /\ history' \in History
         /\ history'.passed = history.passed \cup {models, models'}
         /\ history'.poolMoved = history.poolMoved
         /\ ~history'.torn => ~history.torn /\ ~history.poolMoved /\ request.n # 3
         /\ SameHeld /\ SameLate /\ SameTrace
         /\ UNCHANGED <<deployment, caller, request, role, rows, audit>>
  <1>1. /\ Meanwhile
        /\ mode = "all" => ~listed
        /\ models' = [models EXCEPT !.mode = mode, !.listed = listed]
        /\ history' = [history EXCEPT !.others = @ + 1, !.passed = @ \cup {models, models'},
                                      !.torn = @ \/ history.poolMoved \/ request.n = 3]
        /\ UNCHANGED <<deployment, caller, request, role, rows, audit>>
    BY DEF SetAccess
  <1>2. models' \in ModelStates /\ models'.pool = models.pool
    <2>1. models \in [pool : {"open", "with", "without"}, mode : {"all", "select"},
                      listed : BOOLEAN]
      BY DEF TypeOK, ModelStates
    <2>2. /\ models' \in [pool : {"open", "with", "without"}, mode : {"all", "select"},
                          listed : BOOLEAN]
          /\ models'.pool = models.pool /\ models'.mode = mode /\ models'.listed = listed
      BY <1>1, <2>1
    <2>3. models'.mode = "all" => ~models'.listed
      BY <1>1, <2>2
    <2> QED BY <2>2, <2>3 DEF ModelStates
  <1>3. /\ history \in History /\ history.torn \in BOOLEAN /\ history.poolMoved \in BOOLEAN
    BY DEF TypeOK, History
  <1> DEFINE t == history.torn \/ history.poolMoved \/ request.n = 3
  <1>4. /\ t \in BOOLEAN
        /\ history' = [history EXCEPT !.others = @ + 1, !.passed = @ \cup {models, models'},
                         !.poolMoved = history.poolMoved, !.torn = t]
    BY <1>1, <1>3 DEF History
  <1> HIDE DEF t
  <1>5. /\ history' \in History
        /\ history'.passed = history.passed \cup {models, models'}
        /\ history'.poolMoved = history.poolMoved /\ history'.torn = t
        /\ SameHeld /\ SameLate /\ SameTrace
    BY <1>2, <1>3, <1>4, ModelsHistory
  <1>6. ~history'.torn => ~history.torn /\ ~history.poolMoved /\ request.n # 3
    <2>1. CASE t
      BY <1>4, <1>5, <2>1
    <2>2. CASE ~t
      BY <2>2 DEF t
    <2> QED BY <2>1, <2>2
  <1> QED
    BY <1>1, <1>2, <1>5, <1>6

----------------------------------------------------------------------------
(* Type correctness *)

\* The actions, each in a disjunct of its own.
LEMMA StepCases ==
  ASSUME Next
  PROVE  \/ AuthMiddleware \/ LookupFails \/ ListingFails \/ Find \/ Gate
         \/ Look \/ ScanPool \/ ScanMode \/ ScanIds
         \/ Do \/ DoMissing \/ DoFails \/ Answer \/ Abandon \/ InsertAudit
         \/ \E org \in Orgs, new \in NewRoles : ChangeRole(org, new)
         \/ \E kind \in Kinds : OtherWrite(kind)
         \/ \E kind \in Kinds : OtherDelete(kind)
         \/ \E pool \in {"open", "with", "without"} : SetPool(pool)
         \/ \E mode \in {"all", "select"}, listed \in BOOLEAN : SetAccess(mode, listed)
  BY DEF Next

\* Every step keeps the types, and what was asked of whom.
LEMMA StepKeeps ==
  ASSUME TypeOK, [Next]_vars
  PROVE  /\ TypeOK' /\ SameAsk /\ route' = route
         /\ deployment' = deployment /\ caller' = caller
  <1>1. SUFFICES TypeOK' /\ SameAsk /\ deployment' = deployment /\ caller' = caller
    BY DEF SameAsk, route
  <1>2. CASE AuthMiddleware
    BY <1>2, AuthMoves DEF TypeOK
  <1>3. CASE Find
    BY <1>3, FindMoves DEF TypeOK
  <1>4. CASE Gate
    BY <1>4, GateMoves DEF TypeOK
  <1>5. CASE Look
    BY <1>5, LookMoves DEF TypeOK
  <1>6. CASE ScanPool
    BY <1>6, ScanPoolMoves, PassedMoves DEF TypeOK
  <1>7. CASE ScanMode
    BY <1>7, ScanModeMoves, PassedMoves DEF TypeOK
  <1>8. CASE ScanIds
    BY <1>8, ScanIdsMoves, PassedMoves DEF TypeOK
  <1>9. CASE Do
    BY <1>9, DoMoves DEF TypeOK
  <1>10. CASE DoMissing
    BY <1>10, DoMissingMoves DEF TypeOK
  <1>11. CASE DoFails
    BY <1>11, DoFailsMoves DEF TypeOK
  <1>12. CASE Answer
    <2>1. LogAudit \in Orgs \cup {"none", "default"}
      BY RequestFields DEF LogAudit
    <2>2. audit' \in [state : {"none", "spawned", "inserted", "refused", "lost"},
                      under : Orgs \cup {"none", "default"}]
      BY <1>12, <2>1, AnswerMoves DEF TypeOK, Orgs
    <2> QED BY <1>12, <2>2, AnswerMoves DEF TypeOK
  <1>13. CASE Abandon
    BY <1>13, AbandonMoves DEF TypeOK
  <1>14. CASE InsertAudit
    BY <1>14, InsertAuditMoves DEF TypeOK, SameAsk
  <1>15. CASE \E org \in Orgs, new \in NewRoles : ChangeRole(org, new)
    BY <1>15, ChangeRoleMoves DEF TypeOK, SameAsk
  <1>16. CASE \E kind \in Kinds : OtherWrite(kind)
    BY <1>16, OtherWriteMoves DEF TypeOK, SameAsk
  <1>17. CASE \E kind \in Kinds : OtherDelete(kind)
    BY <1>17, OtherDeleteMoves DEF TypeOK, SameAsk
  <1>18. CASE \E pool \in {"open", "with", "without"} : SetPool(pool)
    BY <1>18, SetPoolMoves DEF TypeOK, SameAsk
  <1>19. CASE \E mode \in {"all", "select"}, listed \in BOOLEAN : SetAccess(mode, listed)
    BY <1>19, SetAccessMoves DEF TypeOK, SameAsk
  <1>20. CASE UNCHANGED vars
    BY <1>20 DEF vars, TypeOK, SameAsk
  <1>21. CASE LookupFails
    BY <1>21, LookupFailsMoves DEF TypeOK
  <1>22. CASE ListingFails
    BY <1>22, ListingFailsMoves DEF TypeOK
  <1> QED
    BY <1>21, <1>22, <1>2, <1>3, <1>4, <1>5, <1>6, <1>7, <1>8, <1>9, <1>10, <1>11, <1>12, <1>13, <1>14,
       <1>15, <1>16, <1>17, <1>18, <1>19, <1>20, StepCases

LEMMA NothingSeen == [k \in {} |-> "absent"] \in Sighting
  <1>1. [k \in {} |-> "absent"] \in [{} -> RowStates]
    OBVIOUS
  <1> QED
    BY <1>1 DEF Sighting

\* The initial states have the types.
LEMMA TypedInit == Init => TypeOK
  <1> SUFFICES ASSUME Init PROVE TypeOK
    OBVIOUS
  <1>1. /\ deployment \in Deployment /\ caller \in Caller
        /\ caller.roles \in [Orgs -> Roles]
    BY AccessAssumption DEF Init, Caller
  <1>2. PICK name \in Names, owned \in BOOLEAN, named \in BOOLEAN :
          /\ request = NewRequest(name, owned, named)
          /\ \E missing \in SUBSET MayMiss(name) :
               rows = [k \in Kinds |->
                        IF \/ k \in Made(name) \cup missing
                           \/ "app" \in Made(name) /\ k \in OfTheApp
                          THEN "absent" ELSE "old"]
          /\ models \in ModelStates
    BY DEF Init
  <1>3. request \in Request
    <2>1. name \in DOMAIN Handlers
      BY AccessAssumption
    <2>2. "none" \in Roles
      BY RolesAre
    <2> DEFINE saw == [k \in {} |-> "absent"]
    <2>3. saw \in Sighting
      BY NothingSeen
    <2>4. request =
            [handler |-> name, owned |-> owned, named |-> named, step |-> "authenticate", n |-> 1,
             ctx |-> [org |-> "none", as |-> "none"], extent |-> "refused",
             saw |-> saw, did |-> {},
             scan |-> [pool |-> "open", mode |-> "all", verdict |-> "none"], answer |-> "none"]
      BY <1>2 DEF NewRequest
    <2> HIDE DEF saw
    <2> QED BY <2>1, <2>2, <2>3, <2>4 DEF Request, Steps, Answers, Pools, Modes
  <1>4. rows \in [Tabled -> RowStates]
    <2>1. {"absent", "old"} \subseteq RowStates
      BY DEF RowStates
    <2> QED BY <1>2, <2>1, KindsAre
  <1>5. role \in [Orgs -> Roles]
    BY <1>1 DEF Init
  <1>6. audit \in [state : {"none", "spawned", "inserted", "refused", "lost"},
                   under : Orgs \cup {"none", "default"}]
    BY DEF Init
  <1>7. history \in History
    <2>1. [o \in Orgs |-> {role[o]}] \in [Orgs -> SUBSET Roles]
      BY <1>5
    <2> DEFINE h == [o \in Orgs |-> {role[o]}]
    <2>2. history = [others |-> 0, faults |-> 0, held |-> h,
                late |-> {}, removed |-> {}, unseen |-> {}, undone |-> {},
                passed |-> {}, poolMoved |-> FALSE, torn |-> FALSE, unlisted |-> FALSE]
      BY DEF Init
    <2>3. h \in [Orgs -> SUBSET Roles]
      BY <2>1
    <2> HIDE DEF h, Tabled, ModelStates, Orgs, Roles
    <2> QED BY <2>2, <2>3 DEF History
  <1> QED
    BY <1>1, <1>2, <1>3, <1>4, <1>5, <1>6, <1>7 DEF TypeOK

\* Every variable keeps its type, for any callers, handlers and deployments: every step of a
\* request leaves one of its kind.
THEOREM TypeCorrect == Spec => []TypeOK
  <1>1. TypeOK /\ [Next]_vars => TypeOK'
    BY StepKeeps
  <1> QED
    BY <1>1, TypedInit, PTL DEF Spec

----------------------------------------------------------------------------
(* Where the handler stands *)

LEMMA ShapeInit == Init => Shape
  <1> SUFFICES ASSUME Init PROVE Shape
    OBVIOUS
  <1>1. /\ request.step = "authenticate" /\ request.n = 1 /\ request.did = {}
        /\ request.extent = "refused" /\ request.answer = "none" /\ audit.state = "none"
    BY DEF Init, NewRequest
  <1> QED
    BY <1>1 DEF Shape

\* Every step keeps where the handler stands.
LEMMA ShapeNext ==
  ASSUME TypeOK, Shape, [Next]_vars
  PROVE  Shape'
  <1>1. /\ request.n \in Nat /\ request.step \in Steps /\ request.did \in SUBSET Nat
        /\ Len(route.does) \in Nat /\ Len(route.looks) \in Nat
    BY RequestFields, RouteFacts
  <1>2. route' = route
    BY StepKeeps
  <1>3. CASE AuthMiddleware \/ LookupFails \/ ListingFails
    BY <1>1, <1>2, <1>3, AuthMoves, LookupFailsMoves, ListingFailsMoves
    DEF Shape, SameWork, SameFound
  <1>4. CASE Find
    BY <1>1, <1>2, <1>4, FindMoves DEF Shape, SameWork
  <1>5. CASE Gate
    BY <1>1, <1>2, <1>5, GateMoves DEF Shape, SameWork
  <1>6. CASE Look
    BY <1>1, <1>2, <1>6, LookMoves DEF Shape, SameFound
  <1>7. CASE ScanPool
    BY <1>1, <1>2, <1>7, ScanPoolMoves DEF Shape, SameFound, SameWork
  <1>8. CASE ScanMode
    BY <1>1, <1>2, <1>8, ScanModeMoves DEF Shape, SameFound, SameWork
  <1>9. CASE ScanIds
    BY <1>1, <1>2, <1>9, ScanIdsMoves DEF Shape, SameFound, SameWork
  <1>10. CASE Do
    BY <1>1, <1>2, <1>10, DoMoves DEF Shape, SameFound
  <1>11. CASE DoMissing
    BY <1>1, <1>2, <1>11, DoMissingMoves DEF Shape, SameFound, SameWork
  <1>12. CASE DoFails
    BY <1>1, <1>2, <1>12, DoFailsMoves DEF Shape, SameFound, SameWork
  <1>13. CASE Answer
    BY <1>1, <1>2, <1>13, AnswerMoves DEF Shape, SameFound, SameWork
  <1>14. CASE Abandon
    BY <1>1, <1>2, <1>14, AbandonMoves DEF Shape, SameFound, SameWork
  <1>15. CASE InsertAudit
    BY <1>2, <1>15, InsertAuditMoves DEF Shape
  <1>16. CASE UNCHANGED <<request, audit>>
    BY <1>2, <1>16 DEF Shape
  <1> QED
    BY <1>3, <1>4, <1>5, <1>6, <1>7, <1>8, <1>9, <1>10, <1>11, <1>12, <1>13, <1>14,
       <1>15, <1>16, StepCases, ChangeRoleMoves, OtherWriteMoves, OtherDeleteMoves,
       SetPoolMoves, SetAccessMoves DEF vars

----------------------------------------------------------------------------
(* The verdict on a model *)

\* A handler that scans looks at nothing else, and does nothing.
LEMMA ScansOnly ==
  ASSUME TypeOK, Scans(request.handler)
  PROVE  /\ Len(route.does) = 0
         /\ \A j \in 1 .. Len(route.looks) : route.looks[j].missing = "scan"
  <1>1. \E i \in 1 .. Len(route.looks) : route.looks[i].missing = "scan"
    BY RouteFacts DEF Scans, route
  <1> QED
    BY <1>1, RouteFacts DEF Unscanned

LEMMA ScannedInit == Init => Scanned
  <1> SUFFICES ASSUME Init PROVE Scanned
    OBVIOUS
  <1>1. request.step = "authenticate" /\ request.scan.verdict = "none"
    BY DEF Init, NewRequest
  <1> QED
    BY <1>1 DEF Scanned

\* What the three reads and the changes to what they read keep.
LEMMA ScannedNext ==
  ASSUME TypeOK, Scanned, [Next]_vars
  PROVE  Scanned'
  <1>1. /\ Scans(request.handler)' = Scans(request.handler)
        /\ history.poolMoved \in BOOLEAN /\ history.torn \in BOOLEAN
    BY StepKeeps DEF SameAsk, Scans, TypeOK, History
  <1>2. CASE request'.step # "look" /\ request'.scan.verdict = request.scan.verdict
             /\ request.step # "over"
    BY <1>1, <1>2 DEF Scanned
  <1>3. CASE request'.step = "over"
    BY <1>3 DEF Scanned
  <1>4. CASE Gate
    BY <1>1, <1>4, GateMoves DEF Scanned, SameScan
  <1>5. CASE Look
    <2>1. ~Scans(request.handler)
      BY <1>5, LookMoves, ScansOnly
    <2> QED BY <1>1, <1>5, <2>1, LookMoves DEF Scanned, SameScan
  <1>6. CASE ScanPool /\ request'.step # "over"
    <2>1. /\ request.step = "look" /\ request'.step = "look" /\ request'.n = 2
          /\ request'.scan.pool = models.pool /\ request'.scan.verdict = request.scan.verdict
          /\ models \in history'.passed /\ models' = models
      BY <1>6, ScanPoolMoves, PassedMoves
    <2> QED BY <2>1 DEF Scanned
  <1>7. CASE ScanMode
    <2>1. /\ request.step = "look" /\ request.n = 2 /\ request'.n = 3 /\ request'.step = "look"
          /\ request'.scan.pool = request.scan.pool /\ request'.scan.mode = models.mode
          /\ request'.scan.verdict = request.scan.verdict
          /\ models' = models /\ history.passed \subseteq history'.passed
          /\ history'.poolMoved = history.poolMoved /\ history'.torn = history.torn
      BY <1>7, ScanModeMoves, PassedMoves
    <2> QED BY <1>1, <1>7, <2>1, ScanModeMoves DEF Scanned
  <1>8. CASE UNCHANGED <<request, models>> /\ SameModels
    BY <1>1, <1>8 DEF Scanned, SameModels
  <1>9. CASE \E pool \in {"open", "with", "without"} : SetPool(pool)
    <2>1. /\ request' = request
          /\ models'.mode = models.mode /\ models'.listed = models.listed
          /\ history.passed \subseteq history'.passed
          /\ ~history'.poolMoved => ~history.poolMoved /\ ~(request.n > 1)
          /\ history'.torn = history.torn
      BY <1>9, SetPoolMoves
    <2>2. ~history'.poolMoved => request.n \notin {2, 3}
      BY <2>1
    <2> QED BY <1>1, <2>1, <2>2 DEF Scanned
  <1>10. CASE \E mode \in {"all", "select"}, listed \in BOOLEAN : SetAccess(mode, listed)
    <2>1. /\ request' = request
          /\ models'.pool = models.pool /\ models' \in history'.passed
          /\ history'.poolMoved = history.poolMoved
          /\ ~history'.torn => ~history.torn /\ ~history.poolMoved /\ request.n # 3
      BY <1>10, SetAccessMoves
    <2> QED BY <1>1, <2>1 DEF Scanned
  <1>11. CASE InsertAudit \/ UNCHANGED vars
    BY <1>8, <1>11, InsertAuditMoves DEF vars, SameModels
  <1>12. CASE AuthMiddleware \/ LookupFails \/ ListingFails \/ Find
    BY <1>2, <1>3, <1>12, AuthMoves, LookupFailsMoves, ListingFailsMoves, FindMoves DEF SameScan
  <1>13. CASE Do \/ DoMissing \/ DoFails \/ Answer \/ Abandon
    BY <1>2, <1>3, <1>13, DoMoves, DoMissingMoves, DoFailsMoves, AnswerMoves, AbandonMoves
    DEF SameScan
  <1>14. CASE \/ \E org \in Orgs, new \in NewRoles : ChangeRole(org, new)
              \/ \E kind \in Kinds : OtherWrite(kind) \/ OtherDelete(kind)
    BY <1>8, <1>14, ChangeRoleMoves, OtherWriteMoves, OtherDeleteMoves
  <1>15. CASE ScanPool \/ ScanIds
    BY <1>3, <1>6, <1>15, ScanIdsMoves
  <1> QED
    BY <1>4, <1>5, <1>7, <1>9, <1>10, <1>11, <1>12, <1>13, <1>14, <1>15 DEF Next

\* The verdict, when it is given and for good.
LEMMA VerdictStep ==
  ASSUME TypeOK, Scanned, VerdictTimely, [Next]_vars
  PROVE  VerdictTimely'
  <1>1. CASE ScanPool
    <2>1. CASE request'.scan.verdict = "none"
      BY <2>1 DEF VerdictTimely
    <2>2. CASE request'.scan.verdict # "none"
      <3>1. /\ request'.scan.verdict = "no" /\ models.pool = "without"
            /\ models \in history'.passed
        BY <1>1, <2>2, ScanPoolMoves, PassedMoves DEF Scanned
      <3>2. ~Allows(models.pool, models.mode, models.listed)
        BY <3>1 DEF Allows
      <3> QED BY <3>1, <3>2 DEF VerdictTimely
    <2> QED BY <2>1, <2>2
  <1>2. CASE ScanIds
    <2>1. /\ request.step = "look" /\ Scans(request.handler) /\ request.n = 3
          /\ request'.scan.verdict =
              (IF Allows(request.scan.pool, request.scan.mode, models.listed) THEN "yes" ELSE "no")
          /\ history.passed \subseteq history'.passed /\ history'.torn = history.torn
      BY <1>2, ScanIdsMoves, PassedMoves
    <2>2. CASE ~history.torn
      <3>1. PICK m \in history.passed :
              m.pool = request.scan.pool /\ m.mode = models.mode /\ m.listed = models.listed
        BY <2>1, <2>2 DEF Scanned
      <3>2. request.scan.mode = models.mode
        BY <2>1, <2>2 DEF Scanned
      <3>3. /\ m \in history'.passed
            /\ request'.scan.verdict = (IF Allows(m.pool, m.mode, m.listed) THEN "yes" ELSE "no")
        BY <2>1, <3>1, <3>2
      <3> QED BY <3>3 DEF VerdictTimely
    <2>3. CASE history.torn
      BY <2>1, <2>3 DEF VerdictTimely
    <2> QED BY <2>2, <2>3
  <1>3. CASE /\ request'.scan.verdict = request.scan.verdict
             /\ history.passed \subseteq history'.passed
             /\ ~history'.torn => ~history.torn
    BY <1>3 DEF VerdictTimely
  <1>4. CASE AuthMiddleware \/ LookupFails \/ ListingFails \/ Find \/ Gate \/ Look
    BY <1>3, <1>4, AuthMoves, LookupFailsMoves, ListingFailsMoves, FindMoves, GateMoves,
       LookMoves DEF SameScan, SameModels
  <1>5. CASE ScanMode
    BY <1>3, <1>5, ScanModeMoves, PassedMoves
  <1>6. CASE Do \/ DoMissing \/ DoFails \/ Answer \/ Abandon \/ InsertAudit \/ UNCHANGED vars
    BY <1>3, <1>6, DoMoves, DoMissingMoves, DoFailsMoves, AnswerMoves, AbandonMoves,
       InsertAuditMoves DEF SameScan, SameModels, vars
  <1>7. CASE \/ \E org \in Orgs, new \in NewRoles : ChangeRole(org, new)
             \/ \E kind \in Kinds : OtherWrite(kind) \/ OtherDelete(kind)
    BY <1>3, <1>7, ChangeRoleMoves, OtherWriteMoves, OtherDeleteMoves DEF SameModels
  <1>8. CASE \E pool \in {"open", "with", "without"} : SetPool(pool)
    BY <1>3, <1>8, SetPoolMoves
  <1>9. CASE \E mode \in {"all", "select"}, listed \in BOOLEAN : SetAccess(mode, listed)
    BY <1>3, <1>9, SetAccessMoves
  <1> QED
    BY <1>1, <1>2, <1>4, <1>5, <1>6, <1>7, <1>8, <1>9 DEF Next

LEMMA VerdictInit == Init => VerdictTimely
  BY DEF Init, NewRequest, VerdictTimely

\* The verdict on a model is what the pool and the access said together at some moment of the
\* check, unless the access was replaced between its statements (tenant_allows_model).
THEOREM VerdictIsTimely == Spec => []VerdictTimely
  <1>1. TypeOK /\ Scanned /\ [Next]_vars => Scanned'
    BY ScannedNext
  <1>2. TypeOK /\ Scanned /\ VerdictTimely /\ [Next]_vars => VerdictTimely'
    BY VerdictStep
  <1>3. TypeOK /\ [Next]_vars => TypeOK'
    BY StepKeeps
  <1> QED
    BY <1>1, <1>2, <1>3, TypedInit, ScannedInit, VerdictInit, PTL DEF Spec

----------------------------------------------------------------------------
(* The tables of either database, as data *)

\* The rows an insert must find.
LEMMA RefsAre ==
  ASSUME NEW b \in {"sqlite", "postgres"}
  PROVE  /\ Stores[b].org.refs = {} /\ Stores[b].member.refs = ByOrg
         /\ Stores[b].app.refs = ByOrg /\ Stores[b].credential.refs = ByOrg
         /\ Stores[b].storage.refs = {"app"} /\ Stores[b].pool.refs = ByOrg
         /\ Stores[b].access.refs = {"app"} /\ Stores[b].key.refs \in {{}, ByApp}
         /\ Stores[b].generation.refs \in {{}, ByApp} /\ Stores[b].log.refs \in {{}, ByApp}
         /\ Stores[b].artifact.refs \in {{}, ByApp} /\ Stores[b].delivery.refs = {}
         /\ Stores[b].audit.refs \in {{}, ByOrg} /\ Stores[b].invitation.refs \in {{}, ByOrg}
  <1>1. CASE b = "sqlite"
    BY <1>1
    DEF Stores, Table, SqliteOrganizations, SqliteMembers, SqliteApps, SqliteCredentials,
        SqliteStorage, SqlitePools, SqliteAccess, SqliteKeys, SqliteGenerations, SqliteLogs,
        SqliteArtifacts, SqliteDeliveries, SqliteAudit, SqliteInvitations
  <1>2. CASE b = "postgres"
    BY <1>2
    DEF Stores, Table, PostgresOrganizations, PostgresMembers, PostgresApps,
        PostgresCredentials, PostgresStorage, PostgresPools, PostgresAccess, PostgresKeys,
        PostgresGenerations, PostgresLogs, PostgresArtifacts, PostgresDeliveries,
        PostgresAudit, PostgresInvitations
  <1> QED BY <1>1, <1>2

\* The tenant columns an insert fills.
LEMMA StampsAre ==
  ASSUME NEW b \in {"sqlite", "postgres"}
  PROVE  /\ Stores[b].member.stamped = ByOrg
         /\ Stores[b].app.stamped = ByOrg /\ Stores[b].credential.stamped = ByOrg
         /\ Stores[b].storage.stamped = {"app"} /\ Stores[b].pool.stamped = ByOrg
         /\ Stores[b].access.stamped = {"app"} /\ Stores[b].key.stamped = ByApp
         /\ Stores[b].generation.stamped = ByApp /\ Stores[b].log.stamped = ByApp
         /\ Stores[b].artifact.stamped = ByApp
         /\ Stores[b].audit.stamped = ByOrg /\ Stores[b].invitation.stamped = ByOrg
  <1>1. CASE b = "sqlite"
    BY <1>1
    DEF Stores, Table, SqliteMembers, SqliteApps, SqliteCredentials,
        SqliteStorage, SqlitePools, SqliteAccess, SqliteKeys, SqliteScopedKeys,
        SqliteGenerations, SqliteLogs, SqliteArtifacts, SqliteAudit, SqliteInvitations
  <1>2. CASE b = "postgres"
    BY <1>2
    DEF Stores, Table, PostgresMembers, PostgresApps, PostgresCredentials,
        PostgresStorage, PostgresPools, PostgresAccess, PostgresKeys, PostgresScopedKeys,
        PostgresGenerations, PostgresLogs, PostgresArtifacts, PostgresAudit,
        PostgresInvitations
  <1> QED BY <1>1, <1>2

\* The statements that report a missing row.
LEMMA ReportsAre ==
  ASSUME NEW b \in {"sqlite", "postgres"}
  PROVE  /\ Stores[b].org.told = {"update", "cascade"} /\ Stores[b].member.told = {"promote"}
         /\ Stores[b].app.told = {"update", "cascade"}
         /\ Stores[b].credential.told = {"delete"} /\ Stores[b].storage.told = {"delete"}
         /\ Stores[b].key.told = {"update"} /\ Stores[b].generation.told = {"update"}
  <1>1. CASE b = "sqlite"
    BY <1>1
    DEF Stores, Table, SqliteOrganizations, SqliteMembers, SqliteApps, SqliteCredentials,
        SqliteStorage, SqliteKeys, SqliteGenerations
  <1>2. CASE b = "postgres"
    BY <1>2
    DEF Stores, Table, PostgresOrganizations, PostgresMembers, PostgresApps,
        PostgresCredentials, PostgresStorage, PostgresKeys, PostgresGenerations
  <1> QED BY <1>1, <1>2

\* The tables both databases have alike.
SharedKinds == {"end_user", "limits", "model", "setting", "cache", "webhook"}

LEMMA SharedAre ==
  /\ DOMAIN Shared = SharedKinds
  /\ Shared.end_user = Table(ByOrg, ByOrg, {"delete"})
  /\ Shared.limits = Table({}, ByOrg, {"delete"})
  /\ \A kind \in {"model", "setting", "cache", "webhook"} : Shared[kind] = Table({}, {}, {"delete"})
  BY DEF Shared, SharedKinds, EndUsers, Limits, Platform

LEMMA BackendIs == TypeOK => deployment.backend \in {"sqlite", "postgres"}
  BY StoresAre DEF TypeOK, Deployment

\* A statement reports a missing row on either database.
LEMMA ToldAnywhere ==
  ASSUME TypeOK, NEW op, NEW kind, Told(op, kind)
  PROVE  op \in TableOf(kind).told
  <1>1. CASE kind \in SharedKinds
    BY <1>1, SharedAre DEF TableOf, Told, SharedKinds, Table
  <1>2. CASE kind \notin SharedKinds
    <2>1. TableOf(kind) = Stores[deployment.backend][kind]
      BY <1>2, SharedAre DEF TableOf
    <2>2. deployment.backend \in {"sqlite", "postgres"}
      BY BackendIs
    <2> QED BY <1>2, <2>1, <2>2, ReportsAre DEF Told, SharedKinds
  <1> QED BY <1>1, <1>2

----------------------------------------------------------------------------
(* An answer of success *)

LEMMA WatchedInit == Init => Watched /\ Dealt /\ history.undone = {}
  <1> SUFFICES ASSUME Init PROVE Watched /\ Dealt /\ history.undone = {}
    OBVIOUS
  <1>1. /\ request.step = "authenticate" /\ request.answer = "none"
        /\ request.saw = [k \in {} |-> "absent"] /\ history.undone = {}
    BY DEF Init, NewRequest
  <1> QED
    BY <1>1 DEF Watched, Behind, Dealt

\* The rows that go are told, the ones that others write after a look are too.
LEMMA OthersWatched ==
  ASSUME TypeOK, Watched, \E kind \in Kinds : OtherWrite(kind) \/ OtherDelete(kind)
  PROVE  Watched'
  <1>1. /\ rows \in [Tabled -> RowStates] /\ request' = request
        /\ history.removed \subseteq history'.removed
        /\ history.unseen \subseteq history'.unseen
    BY OtherWriteMoves, OtherDeleteMoves DEF TypeOK
  <1>2. /\ \A k \in Tabled : rows'[k] = "absent" /\ rows[k] # "absent" => k \in history'.removed
        /\ \A k \in DOMAIN request.saw : rows'[k] = "theirs" =>
             rows[k] = "theirs" \/ k \in history'.unseen
    <2>1. CASE \E kind \in Kinds : OtherWrite(kind)
      <3>1. PICK kind \in Kinds : OtherWrite(kind)
        BY <2>1
      <3>2. /\ kind \in Tabled /\ rows' = [rows EXCEPT ![kind] = "theirs"]
            /\ kind \in DOMAIN request.saw => kind \in history'.unseen
        BY <3>1, OtherWriteMoves
      <3> QED BY <1>1, <3>2
    <2>2. CASE \E kind \in Kinds : OtherDelete(kind)
      <3>1. PICK kind \in Kinds : OtherDelete(kind)
        BY <2>2
      <3> DEFINE op == IF kind \in {"org", "app"} THEN "cascade" ELSE "delete"
      <3>2. /\ kind \in Tabled /\ rows' = After(op, kind, "theirs")
            /\ \A k \in Tabled : rows'[k] = "absent" /\ rows[k] # "absent" => k \in history'.removed
        BY <3>1, OtherDeleteMoves DEF Gone
      <3>3. op \in {"cascade", "delete"}
        OBVIOUS
      <3> HIDE DEF op
      <3>4. rows' = [k \in Tabled |-> IF k \in Cascaded(kind) THEN "absent" ELSE rows[k]]
              \/ rows' = [rows EXCEPT ![kind] = "absent"]
        BY <3>2, <3>3, KindsAre DEF After
      <3>5. DOMAIN request.saw \subseteq Tabled
        <4>1. request.saw \in Sighting
          BY RequestFields
        <4> QED BY <4>1 DEF Sighting
      <3>6. \A k \in Tabled : rows'[k] = "theirs" => rows[k] = "theirs"
        BY <1>1, <3>2, <3>4
      <3> QED BY <3>2, <3>5, <3>6
    <2> QED BY <2>1, <2>2
  <1>3. Behind' = Behind /\ route' = route
    <2>1. route' = route
      BY <1>1 DEF route
    <2> QED BY <1>1, <2>1 DEF Behind
  <1>4. ASSUME NEW j \in Behind, route.looks[j].missing # "scan"
        PROVE  /\ route.looks[j].kind \in Tabled
               /\ route.looks[j].kind \in DOMAIN request.saw
               /\ route.looks[j].missing = "404" /\ request.did = {}
                    /\ rows'[route.looks[j].kind] = "absent" =>
                      route.looks[j].kind \in history'.removed
    <2>1. j \in 1 .. Len(route.looks)
      BY DEF Behind
    <2>2. route.looks[j].kind \in Tabled
      BY <1>4, <2>1, RouteFacts
    <2> QED BY <1>1, <1>2, <1>4, <2>2 DEF Watched, Gone
  <1>5. ASSUME NEW k \in DOMAIN request.saw, rows'[k] = "theirs", request.saw[k] # "theirs"
        PROVE  k \in history'.unseen
    BY <1>1, <1>2, <1>5 DEF Watched
  <1> QED
    BY <1>1, <1>3, <1>4, <1>5 DEF Watched, Gone

LEMMA SawTabled == TypeOK => DOMAIN request.saw \subseteq Tabled
  <1> SUFFICES ASSUME TypeOK PROVE DOMAIN request.saw \subseteq Tabled
    OBVIOUS
  <1>1. request.saw \in Sighting
    BY RequestFields
  <1> QED BY <1>1 DEF Sighting

\* A statement of the handler writes no row as another's.
LEMMA MineOrAbsent ==
  ASSUME TypeOK, NEW op, NEW kind \in Tabled, NEW k \in Tabled,
         After(op, kind, "mine")[k] = "theirs"
  PROVE  rows[k] = "theirs"
  <1>1. rows \in [Tabled -> RowStates]
    BY DEF TypeOK
  <1>2. \/ After(op, kind, "mine") =
             [i \in Tabled |-> IF i \in Cascaded(kind) THEN "absent" ELSE rows[i]]
        \/ After(op, kind, "mine") = [rows EXCEPT ![kind] = "absent"]
        \/ After(op, kind, "mine") = rows
        \/ After(op, kind, "mine") = [rows EXCEPT ![kind] = "mine"]
    BY KindsAre DEF After
  <1> HIDE DEF Tabled
  <1> QED BY <1>1, <1>2

\* Every step keeps what a handler knows of the rows it looked at.
LEMMA WatchedNext ==
  ASSUME TypeOK, Shape, Watched, [Next]_vars
  PROVE  Watched'
  <1>1. /\ route' = route /\ request.n \in Nat /\ Len(route.looks) \in Nat
        /\ DOMAIN request.saw \subseteq Tabled /\ rows \in [Tabled -> RowStates]
    BY StepKeeps, RequestFields, RouteFacts, SawTabled DEF TypeOK
  <1>2. CASE Behind' \subseteq Behind /\ SameWork /\ UNCHANGED rows /\ SameTrace
    BY <1>1, <1>2 DEF Watched, SameWork, SameTrace, Gone
  <1>3. CASE request'.step = "over" /\ SameWork /\ UNCHANGED rows /\ SameTrace
    <2>1. Behind' = {}
      BY <1>3 DEF Behind
    <2> QED BY <1>2, <1>3, <2>1
  <1>4. CASE AuthMiddleware \/ LookupFails \/ ListingFails \/ Find
    <2>1. /\ request'.step \in {"find", "gate", "over"} /\ SameWork
          /\ UNCHANGED rows /\ SameTrace
      BY <1>4, AuthMoves, LookupFailsMoves, ListingFailsMoves, FindMoves DEF SameTrace
    <2>2. Behind' = {}
      BY <2>1 DEF Behind
    <2> QED BY <1>2, <2>1, <2>2
  <1>5. CASE Gate
    <2>1. /\ SameWork /\ UNCHANGED rows /\ SameTrace
          /\ \/ request'.step = "over"
             \/ request'.step = "look" /\ request'.n = 1
             \/ request'.step = "do" /\ Len(route.looks) = 0
      BY <1>5, GateMoves DEF SameTrace
    <2>2. Behind' = {}
      BY <1>1, <2>1 DEF Behind
    <2> QED BY <1>2, <2>1, <2>2
  <1>6. CASE Look
    <2> DEFINE l == route.looks[request.n]
    <2>1. /\ request.step = "look" /\ request.n \in 1 .. Len(route.looks)
          /\ request'.did = request.did
          /\ l.missing # "scan" /\ l.kind \in Tabled
          /\ UNCHANGED rows /\ SameTrace
          /\ \/ request'.step = "over" /\ request'.saw = request.saw
             \/ /\ l.missing = "404" => ~Gone(l.kind)
                /\ request'.saw = Looked(l.kind)
                /\ \/ request'.step = "look" /\ request'.n = request.n + 1
                   \/ request'.step = "do" /\ request'.n = 1 /\ request.n = Len(route.looks)
      BY <1>6, LookMoves DEF SameTrace
    <2>2. CASE request'.step = "over" /\ request'.saw = request.saw
      BY <1>3, <2>1, <2>2 DEF SameWork
    <2>3. CASE /\ l.missing = "404" => ~Gone(l.kind)
               /\ request'.saw = Looked(l.kind)
               /\ \/ request'.step = "look" /\ request'.n = request.n + 1
                  \/ request'.step = "do" /\ request'.n = 1 /\ request.n = Len(route.looks)
      <3>1. /\ \A j \in Behind' : j \in 1 .. Len(route.looks) /\ (j \in Behind \/ j = request.n)
        BY <1>1, <2>1, <2>3 DEF Behind
      <3>2. /\ DOMAIN request'.saw = DOMAIN request.saw \cup {l.kind}
            /\ request'.saw[l.kind] = rows[l.kind]
            /\ \A k \in DOMAIN request.saw : k # l.kind => request'.saw[k] = request.saw[k]
        BY <2>1, <2>3, LookedAt
      <3> HIDE DEF l
      <3>3. ASSUME NEW j \in Behind', route.looks[j].missing # "scan"
            PROVE  /\ route.looks[j].kind \in DOMAIN request'.saw
                   /\ route.looks[j].missing = "404" /\ request'.did = {}
                        /\ rows'[route.looks[j].kind] = "absent" =>
                          route.looks[j].kind \in history'.removed
        <4>1. CASE j \in Behind
          BY <2>1, <3>2, <3>3, <4>1 DEF Watched, Gone, SameTrace
        <4>2. CASE j = request.n
          BY <2>1, <2>3, <3>2, <4>2 DEF l, Gone
        <4> QED BY <3>1, <4>1, <4>2
      <3>4. ASSUME NEW k \in DOMAIN request'.saw, rows'[k] = "theirs", request'.saw[k] # "theirs"
            PROVE  k \in history'.unseen
        BY <2>1, <3>2, <3>4 DEF Watched, SameTrace
      <3> QED BY <1>1, <3>3, <3>4 DEF Watched, Gone
    <2> QED BY <2>1, <2>2, <2>3
  <1>7. CASE ScanPool \/ ScanMode \/ ScanIds
    <2>1. /\ Scans(request.handler) /\ SameWork /\ UNCHANGED rows /\ SameTrace
      BY <1>7, ScanPoolMoves, ScanModeMoves, ScanIdsMoves, PassedMoves
    <2>2. \A j \in Behind' : route.looks[j].missing = "scan"
      BY <1>1, <2>1, ScansOnly DEF Behind
    <2>3. \A k \in DOMAIN request'.saw :
            rows'[k] = "theirs" /\ request'.saw[k] # "theirs" => k \in history'.unseen
      BY <2>1 DEF SameWork, SameTrace, Watched
    <2> QED BY <1>1, <2>2, <2>3 DEF Watched
  <1>8. CASE Do
    <2>1. /\ request.step = "do" /\ request'.step = "do" /\ request'.saw = request.saw
          /\ request'.did # {} /\ history'.unseen = history.unseen
      BY <1>8, DoMoves
    <2>2. \A k \in Tabled : rows'[k] = "theirs" => rows[k] = "theirs"
      <3> DEFINE op == route.does[request.n].op
                 kind == route.does[request.n].kind
      <3>1. request.n \in 1 .. Len(route.does) /\ rows' = After(op, kind, "mine")
        BY <1>8, DoMoves
      <3>2. kind \in Tabled
        BY <3>1, StatementFacts
      <3> HIDE DEF op, kind
      <3> QED BY <3>1, <3>2, MineOrAbsent
    <2>3. Behind' = Behind
      BY <1>1, <2>1 DEF Behind
    <2> QED BY <1>1, <2>1, <2>2, <2>3 DEF Watched
  <1>9. CASE DoMissing \/ DoFails
    <2>1. /\ request.step = "do" /\ request'.step \in {"do", "over"} /\ SameWork
          /\ UNCHANGED rows /\ SameTrace
      BY <1>9, DoMissingMoves, DoFailsMoves DEF SameTrace
    <2>2. Behind' \subseteq Behind
      BY <1>1, <2>1 DEF Behind
    <2> QED BY <1>2, <2>1, <2>2
  <1>10. CASE Answer \/ Abandon
    BY <1>3, <1>10, AnswerMoves, AbandonMoves DEF SameTrace
  <1>11. CASE UNCHANGED <<request, rows>> /\ SameTrace
    <2>1. Behind' = Behind
      BY <1>1, <1>11 DEF Behind
    <2> QED BY <1>2, <1>11, <2>1 DEF SameWork
  <1>12. CASE InsertAudit \/ (\E org \in Orgs, new \in NewRoles : ChangeRole(org, new))
    BY <1>11, <1>12, InsertAuditMoves, ChangeRoleMoves
  <1>13. CASE \/ \E pool \in {"open", "with", "without"} : SetPool(pool)
              \/ \E mode \in {"all", "select"}, listed \in BOOLEAN : SetAccess(mode, listed)
    BY <1>11, <1>13, SetPoolMoves, SetAccessMoves
  <1>14. CASE UNCHANGED vars
    BY <1>11, <1>14 DEF vars, SameTrace
  <1> QED
    BY <1>4, <1>5, <1>6, <1>7, <1>8, <1>9, <1>10, <1>12, <1>13, <1>14, OthersWatched DEF Next

\* A row that a statement of the handler misses although the answer would not say so was
\* seen, and has been removed since.
LEMMA MissingForestalled ==
  ASSUME TypeOK, Shape, Watched, DoMissing, request'.step # "over"
  PROVE  Forestalled(request.n)
  <1> DEFINE s == route.does[request.n]
  <1>1. /\ request.step = "do" /\ request.n \in 1 .. Len(route.does)
        /\ s.op \notin Inserts /\ ~Possible(s.op, s.kind)
        /\ ~(s.must /\ s.op \in TableOf(s.kind).told)
    BY DoMissingMoves
  <1>2. s.op # "send" /\ Gone(s.kind)
    BY <1>1 DEF Possible
  <1>3. /\ Answerable(route.looks, route.does, request.n) /\ s.must \in BOOLEAN
    BY <1>1, StatementFacts
  <1>4. ~Told(s.op, s.kind) \/ ~s.must
    BY <1>1, ToldAnywhere
  <1>5. CASE s.must
    <2>1. /\ request.n = 1
          /\ \E j \in 1 .. Len(route.looks) :
               route.looks[j].kind = s.kind /\ route.looks[j].missing = "404"
      BY <1>1, <1>2, <1>3, <1>4, <1>5 DEF Answerable
    <2>2. PICK j \in 1 .. Len(route.looks) :
            route.looks[j].kind = s.kind /\ route.looks[j].missing = "404"
      BY <2>1
    <2>3. j \in Behind
      BY <1>1 DEF Behind
    <2>4. request.did = {}
      BY <1>1, <2>1, RequestFields DEF Shape
    <2> QED BY <1>2, <2>2, <2>3, <2>4 DEF Watched, Forestalled
  <1>6. CASE ~s.must
    BY <1>6 DEF Forestalled
  <1> QED BY <1>5, <1>6

\* Every step keeps that the statements behind the handler are dealt with.
LEMMA DealtNext ==
  ASSUME TypeOK, Shape, Watched, Dealt, [Next]_vars
  PROVE  Dealt'
  <1>1. /\ route' = route /\ request.n \in Nat /\ Len(route.does) \in Nat
    BY StepKeeps, RequestFields, RouteFacts
  <1>2. ASSUME request.did \subseteq request'.did, history.removed \subseteq history'.removed,
               NEW i \in 1 .. Len(route.does), Forestalled(i)
        PROVE  Forestalled(i)'
    BY <1>1, <1>2 DEF Forestalled
  <1>3. CASE /\ request.did \subseteq request'.did /\ history.removed \subseteq history'.removed
             /\ request'.answer # "ok" \/ request'.answer = request.answer
             /\ request'.step # "do" \/ (request'.step = request.step /\ request'.n = request.n)
    <2>1. request'.step = "do" => \A i \in 1 .. Len(route.does) : i < request'.n => Forestalled(i)'
      BY <1>2, <1>3 DEF Dealt
    <2>2. request'.answer = "ok" => \A i \in 1 .. Len(route.does) : Forestalled(i)'
      BY <1>2, <1>3 DEF Dealt
    <2> QED BY <1>1, <2>1, <2>2 DEF Dealt
  <1>4. CASE /\ request.did \subseteq request'.did /\ history.removed \subseteq history'.removed
             /\ request'.answer # "ok" \/ request'.answer = request.answer
             /\ request'.step = "do" /\ request'.n = 1
    <2>1. \A i \in 1 .. Len(route.does) : ~(i < request'.n)
      BY <1>4
    <2>2. request'.answer = "ok" => \A i \in 1 .. Len(route.does) : Forestalled(i)'
      BY <1>2, <1>4 DEF Dealt
    <2> QED BY <1>1, <2>1, <2>2 DEF Dealt
  <1>5. CASE /\ request.did \subseteq request'.did /\ history.removed \subseteq history'.removed
             /\ request'.answer # "ok" \/ request'.answer = request.answer
             /\ request.step = "do" /\ request'.step = "do" /\ request'.n = request.n + 1
             /\ \A i \in 1 .. Len(route.does) : i = request.n => Forestalled(i)'
    <2>1. ASSUME NEW i \in 1 .. Len(route.does), i < request'.n
          PROVE  Forestalled(i)'
      <3>1. CASE i = request.n
        BY <1>5, <3>1
      <3>2. CASE i < request.n
        BY <1>2, <1>5, <3>2 DEF Dealt
      <3> QED BY <1>1, <1>5, <2>1, <3>1, <3>2
    <2>2. request'.answer = "ok" => \A i \in 1 .. Len(route.does) : Forestalled(i)'
      BY <1>2, <1>5 DEF Dealt
    <2> QED BY <1>1, <2>1, <2>2 DEF Dealt
  <1>6. CASE Len(route.does) = 0
    BY <1>1, <1>6 DEF Dealt
  <1>7. CASE AuthMiddleware \/ LookupFails \/ ListingFails \/ Gate \/ Look
    BY <1>3, <1>4, <1>7, AuthMoves, LookupFailsMoves, ListingFailsMoves, GateMoves, LookMoves
    DEF SameWork, SameTrace
  <1>8. CASE Find
    <2>1. CASE route.gate = "tracked"
      BY <1>6, <2>1, RouteFacts DEF Gated, Empty
    <2>2. CASE route.gate # "tracked"
      BY <1>3, <1>8, <2>2, FindMoves DEF SameWork
    <2> QED BY <2>1, <2>2
  <1>9. CASE ScanPool \/ ScanMode \/ ScanIds
    BY <1>6, <1>9, ScansOnly, ScanPoolMoves, ScanModeMoves, ScanIdsMoves
  <1>10. CASE Do
    <2>1. /\ request.did \subseteq request'.did /\ request.n \in request'.did
          /\ history'.removed = history.removed /\ request'.answer = request.answer
          /\ request.step = "do" /\ request'.step = "do" /\ request'.n = request.n + 1
      BY <1>10, DoMoves
    <2>2. \A i \in 1 .. Len(route.does) : i = request.n => Forestalled(i)'
      BY <1>1, <2>1 DEF Forestalled
    <2> QED BY <1>5, <2>1, <2>2
  <1>11. CASE DoMissing
    <2>1. CASE request'.step = "over"
      BY <1>3, <1>11, <2>1, DoMissingMoves DEF SameWork
    <2>2. CASE request'.step # "over"
      <3>1. /\ request.did \subseteq request'.did /\ history.removed \subseteq history'.removed
            /\ request'.answer = request.answer
            /\ request.step = "do" /\ request'.step = "do" /\ request'.n = request.n + 1
            /\ request.n \in 1 .. Len(route.does)
        BY <1>11, <2>2, DoMissingMoves DEF SameWork
      <3>2. \A i \in 1 .. Len(route.does) : i = request.n => Forestalled(i)
        BY <1>11, <2>2, MissingForestalled
      <3> QED BY <1>2, <1>5, <3>1, <3>2
    <2> QED BY <2>1, <2>2
  <1>12. CASE DoFails
    <2>1. CASE request'.step = "over"
      BY <1>3, <1>12, <2>1, DoFailsMoves DEF SameWork, SameTrace
    <2>2. CASE request'.step # "over"
      <3>1. /\ request.did \subseteq request'.did /\ history.removed \subseteq history'.removed
            /\ request'.answer = request.answer
            /\ request.step = "do" /\ request'.step = "do" /\ request'.n = request.n + 1
            /\ ~route.does[request.n].must
        BY <1>12, <2>2, DoFailsMoves DEF SameWork, SameTrace
      <3>2. \A i \in 1 .. Len(route.does) : i = request.n => Forestalled(i)'
        BY <1>1, <3>1 DEF Forestalled
      <3> QED BY <1>5, <3>1, <3>2
    <2> QED BY <2>1, <2>2
  <1>13. CASE Answer
    <2>1. /\ request.step = "do" /\ request.n > Len(route.does) /\ request'.step = "over"
          /\ request'.did = request.did /\ history' = history
      BY <1>13, AnswerMoves DEF SameWork
    <2>2. \A i \in 1 .. Len(route.does) : i < request.n
      BY <1>1, <2>1
    <2>3. \A i \in 1 .. Len(route.does) : Forestalled(i)'
      BY <1>2, <2>1, <2>2 DEF Dealt
    <2> QED BY <1>1, <2>1, <2>3 DEF Dealt
  <1>14. CASE Abandon
    BY <1>3, <1>14, AbandonMoves DEF SameWork
  <1>15. CASE UNCHANGED request /\ history.removed \subseteq history'.removed
    BY <1>3, <1>15
  <1>16. CASE InsertAudit \/ (\E org \in Orgs, new \in NewRoles : ChangeRole(org, new))
    BY <1>15, <1>16, InsertAuditMoves, ChangeRoleMoves DEF SameTrace
  <1>17. CASE \E kind \in Kinds : OtherWrite(kind) \/ OtherDelete(kind)
    BY <1>15, <1>17, OtherWriteMoves, OtherDeleteMoves
  <1>18. CASE \/ \E pool \in {"open", "with", "without"} : SetPool(pool)
              \/ \E mode \in {"all", "select"}, listed \in BOOLEAN : SetAccess(mode, listed)
    BY <1>15, <1>18, SetPoolMoves, SetAccessMoves DEF SameTrace
  <1>19. CASE UNCHANGED vars
    BY <1>15, <1>19 DEF vars
  <1> QED
    BY <1>7, <1>8, <1>9, <1>10, <1>11, <1>12, <1>13, <1>14, <1>16, <1>17, <1>18, <1>19 DEF Next

\* What is written back undoes no change but those made after it was read.
LEMMA UndoneUnseen ==
  ASSUME TypeOK, Shape, Watched, history.undone \subseteq history.unseen, [Next]_vars
  PROVE  history'.undone \subseteq history'.unseen
  <1>1. CASE Do
    <2> DEFINE s == route.does[request.n]
    <2>1. /\ request.step = "do" /\ request.n \in 1 .. Len(route.does)
          /\ history'.undone = history.undone \cup UndoneBy(s.op, s.kind)
          /\ history'.unseen = history.unseen
      BY <1>1, DoMoves
    <2>2. KeptSeen(route.looks, s)
      BY <2>1, StatementFacts
    <2> HIDE DEF s
    <2>3. ASSUME NEW k \in UndoneBy(s.op, s.kind)
          PROVE  k \in history.unseen
      <3>1. /\ k = s.kind /\ s.op = "keep" /\ rows[k] = "theirs"
            /\ k \in DOMAIN request.saw => request.saw[k] # "theirs"
        BY <2>3 DEF UndoneBy
      <3>2. PICK j \in 1 .. Len(route.looks) : route.looks[j].kind = k
        BY <2>2, <3>1 DEF KeptSeen
      <3>3. j \in Behind
        BY <2>1 DEF Behind
      <3>4. Unscanned(route.looks)
        <4>1. Len(route.does) # 0
          BY <2>1, RouteFacts
        <4> QED BY <4>1, RouteFacts
      <3>5. k \in DOMAIN request.saw
        BY <3>2, <3>3, <3>4 DEF Watched, Unscanned
      <3> QED BY <3>1, <3>5 DEF Watched
    <2> QED BY <2>1, <2>3
  <1>2. CASE history'.undone = history.undone /\ history.unseen \subseteq history'.unseen
    BY <1>2
  <1>3. CASE AuthMiddleware \/ Find \/ Gate \/ Look \/ DoMissing \/ Answer \/ Abandon \/ UNCHANGED vars
    BY <1>2, <1>3, AuthMoves, FindMoves, GateMoves, LookMoves, DoMissingMoves, AnswerMoves,
       AbandonMoves DEF vars
  <1>4. CASE ScanPool \/ ScanMode \/ ScanIds
    BY <1>2, <1>4, ScanPoolMoves, ScanModeMoves, ScanIdsMoves, PassedMoves DEF SameTrace
  <1>5. CASE \/ LookupFails \/ ListingFails \/ DoFails \/ InsertAudit
             \/ \E org \in Orgs, new \in NewRoles : ChangeRole(org, new)
    BY <1>2, <1>5, LookupFailsMoves, ListingFailsMoves, DoFailsMoves, InsertAuditMoves, ChangeRoleMoves DEF SameTrace
  <1>6. CASE \E kind \in Kinds : OtherWrite(kind) \/ OtherDelete(kind)
    BY <1>2, <1>6, OtherWriteMoves, OtherDeleteMoves
  <1>7. CASE \/ \E pool \in {"open", "with", "without"} : SetPool(pool)
             \/ \E mode \in {"all", "select"}, listed \in BOOLEAN : SetAccess(mode, listed)
    BY <1>2, <1>7, SetPoolMoves, SetAccessMoves DEF SameTrace
  <1> QED
    BY <1>1, <1>3, <1>4, <1>5, <1>6, <1>7 DEF Next

\* What is known of a handler's work.
WorkInv == TypeOK /\ Shape /\ Watched /\ Dealt /\ history.undone \subseteq history.unseen

\* The part of the invariant that the statements of a handler need.
LEMMA WorkInvariant == Spec => []WorkInv
  <1>1. Init => WorkInv
    BY TypedInit, ShapeInit, WatchedInit DEF WorkInv
  <1>2. WorkInv /\ [Next]_vars => WorkInv'
    BY StepKeeps, ShapeNext, WatchedNext, DealtNext, UndoneUnseen DEF WorkInv
  <1> QED
    BY <1>1, <1>2, PTL DEF Spec

\* A handler answers with success only when each statement it insists on took effect or was
\* forestalled, and what it writes back undoes no change it had the chance to read.
THEOREM SuccessMeansDone == Spec => []OkMeansDone
  <1>1. WorkInv => OkMeansDone
    <2> SUFFICES ASSUME WorkInv PROVE OkMeansDone
      OBVIOUS
    <2>1. DOMAIN route.does = 1 .. Len(route.does)
      BY RouteFacts DEF WorkInv
    <2> QED BY <2>1 DEF WorkInv, Dealt, Forestalled, OkMeansDone
  <1> QED
    BY <1>1, WorkInvariant, PTL

----------------------------------------------------------------------------
(* The organization and the role that a request works with *)

\* The organizations, by name.
LEMMA OrgsAre == Orgs = {"home", "away"} /\ Home = "home" /\ "none" \notin Orgs
  BY DEF Orgs, Home, Away

\* What a request acts on does not change once it is authenticated.
LEMMA ActsOnStays ==
  ASSUME TypeOK, [Next]_vars, request'.ctx = request.ctx
  PROVE  ActsOn' = ActsOn
  <1>1. /\ route' = route /\ SameAsk /\ deployment' = deployment /\ caller' = caller
    BY StepKeeps
  <1> QED
    BY <1>1 DEF ActsOn, ActiveOrg, CtxOrg, Default, Master, SameAsk

\* What is fixed once a request is authenticated.
LEMMA ContextStays ==
  ASSUME TypeOK, [Next]_vars, request.step # "authenticate"
  PROVE  request'.ctx = request.ctx /\ request'.step # "authenticate"
  <1>1. CASE Find \/ Gate \/ Look
    BY <1>1, FindMoves, GateMoves, LookMoves DEF SameFound
  <1>2. CASE ScanPool \/ ScanMode \/ ScanIds
    BY <1>2, ScanPoolMoves, ScanModeMoves, ScanIdsMoves DEF SameFound
  <1>3. CASE Do \/ DoMissing \/ DoFails \/ Answer \/ Abandon
    BY <1>3, DoMoves, DoMissingMoves, DoFailsMoves, AnswerMoves, AbandonMoves DEF SameFound
  <1>4. CASE UNCHANGED request
    BY <1>4
  <1>5. CASE AuthMiddleware \/ LookupFails \/ ListingFails
    BY <1>5 DEF AuthMiddleware, LookupFails, ListingFails
  <1> QED
    BY <1>1, <1>2, <1>3, <1>4, <1>5, StepCases, InsertAuditMoves, ChangeRoleMoves,
       OtherWriteMoves, OtherDeleteMoves, SetPoolMoves, SetAccessMoves DEF vars

\* Once a request is over, it is over.
LEMMA OverStays ==
  ASSUME TypeOK, [Next]_vars, request.step = "over"
  PROVE  request' = request /\ rows' = rows /\ (audit' = audit \/ InsertAudit)
  <1>1. ~Meanwhile
    BY DEF Meanwhile
  <1>2. /\ ~(AuthMiddleware \/ LookupFails \/ ListingFails \/ Find \/ Gate \/ Look)
        /\ ~(Abandon \/ Do \/ DoMissing \/ DoFails \/ Answer)
    BY DEF AuthMiddleware, LookupFails, ListingFails, Find, Gate, Look, Abandon, Do, DoMissing, DoFails, Answer
  <1>3. ~(ScanPool \/ ScanMode \/ ScanIds)
    BY DEF ScanPool, ScanMode, ScanIds
  <1> QED
    BY <1>1, <1>2, <1>3, StepCases, InsertAuditMoves, ChangeRoleMoves, OtherWriteMoves,
       OtherDeleteMoves, SetPoolMoves, SetAccessMoves DEF vars

\* Where authentication puts a caller.
LEMMA ActiveOrgsAre ==
  ASSUME TypeOK, NEW org \in ActiveOrgs
  PROVE  /\ Key => org = caller.at
         /\ Session /\ org \notin Memberships => org = NoOrg /\ Memberships = {}
         /\ ~Key /\ org = "none" => deployment.mode = "hosted"
  <1>1. deployment.mode \in {"single", "hosted"} /\ caller.who \in {"master", "session", "key"}
    BY DEF TypeOK, Deployment, Caller
  <1>2. "none" \notin Memberships /\ Home # "none"
    BY OrgsAre DEF Memberships
  <1>3. CASE Key
    BY <1>3 DEF ActiveOrgs, Key, Session
  <1>4. CASE ~Key /\ Session /\ caller.at \in Orgs
    BY <1>2, <1>4 DEF ActiveOrgs
  <1>5. CASE ~Key /\ Session /\ caller.at \notin Orgs /\ Memberships # {}
    BY <1>2, <1>5 DEF ActiveOrgs
  <1>6. CASE ~Key /\ ~(Session /\ (caller.at \in Orgs \/ Memberships # {}))
    <2>1. org = NoOrg /\ (Session => Memberships = {})
      BY <1>6 DEF ActiveOrgs
    <2> QED BY <1>1, <1>2, <1>6, <2>1 DEF NoOrg
  <1> QED BY <1>3, <1>4, <1>5, <1>6

\* Every step keeps the place of an authenticated request.
LEMMA PlacingNext ==
  ASSUME TypeOK, Placing, [Next]_vars
  PROVE  Placing'
  <1>1. deployment' = deployment /\ caller' = caller
    BY StepKeeps
  <1>2. CASE request.step # "authenticate"
    <2>1. request'.ctx = request.ctx
      BY <1>2, ContextStays
    <2>2. CASE request.step = "over"
      BY <2>2, OverStays DEF Placing
    <2> QED BY <1>1, <1>2, <2>1, <2>2 DEF Placing, Key, Session
  <1>3. CASE AuthMiddleware
    <2>1. CASE request'.step = "over"
      BY <2>1 DEF Placing
    <2>2. CASE request'.step # "over"
      <3>1. /\ request'.ctx.org \in ActiveOrgs
            /\ request'.ctx.as = IF Session THEN RoleIn(request'.ctx.org) ELSE "none"
        BY <1>3, <2>2, AuthMoves
      <3>2. /\ Key => request'.ctx.org = caller.at
            /\ ~Key /\ request'.ctx.org = "none" => deployment.mode = "hosted"
        BY <3>1, ActiveOrgsAre
      <3> QED BY <1>1, <3>1, <3>2 DEF Placing, Key, Session
    <2> QED BY <2>1, <2>2
  <1>4. CASE ListingFails
    <2>1. Session /\ ~Key /\ request'.ctx.org = NoOrg
      BY <1>4, ListingFailsMoves DEF Session, Key
    <2>2. request'.ctx.org = "none" => deployment.mode = "hosted"
      BY <2>1, OrgsAre DEF NoOrg, TypeOK, Deployment
    <2> QED BY <1>1, <2>1, <2>2 DEF Placing, Key, Session
  <1>5. CASE request.step = "authenticate" /\ ~AuthMiddleware /\ ~ListingFails
    <2>1. request' = request \/ request'.step = "over"
      <3>1. ~(Find \/ Gate \/ Look \/ Do \/ DoMissing \/ DoFails \/ Answer)
        BY <1>5 DEF Find, Gate, Look, Do, DoMissing, DoFails, Answer
      <3>2. ~(ScanPool \/ ScanMode \/ ScanIds)
        BY <1>5 DEF ScanPool, ScanMode, ScanIds
      <3> QED
        BY <1>5, <3>1, <3>2, StepCases, LookupFailsMoves, AbandonMoves, InsertAuditMoves, ChangeRoleMoves,
           OtherWriteMoves, OtherDeleteMoves, SetPoolMoves, SetAccessMoves DEF vars
    <2> QED BY <1>5, <2>1 DEF Placing
  <1> QED BY <1>2, <1>3, <1>4, <1>5

----------------------------------------------------------------------------
(* The audit entry *)

\* What a gate lets in, for the gates whose handlers tell the organization the request
\* works in.
LEMMA LetInSays ==
  ASSUME TypeOK, LetIn[route.gate]
  PROVE  /\ route.gate = "row" => request.ctx.org = Home
         /\ route.gate = "permission" => CtxHas(route.any)
  <1>1. LetIn["row"] = (request.ctx.org = Home /\ (Session => AuthorizeSession))
    BY DEF LetIn
  <1>2. LetIn["permission"] = CtxHas(route.any)
    BY DEF LetIn
  <1> QED BY <1>1, <1>2

LEMMA NoRoleNoPermission ==
  PermissionsFor["none"] = {}
  BY DEF PermissionsFor

\* Every step keeps what the gate said.
LEMMA AdmittedNext ==
  ASSUME TypeOK, Admitted, [Next]_vars
  PROVE  Admitted'
  <1>1. route' = route
    BY StepKeeps
  <1>2. CASE Gate
    <2>1. request.ctx = request'.ctx /\ (request'.step = "over" \/ LetIn[route.gate])
      BY <1>2, GateMoves
    <2>2. CtxHas(route.any) => request.ctx.as # "none"
      BY NoRoleNoPermission DEF CtxHas
    <2> QED BY <1>1, <2>1, <2>2, LetInSays DEF Admitted
  <1>3. CASE request.step \in {"look", "do"}
    BY <1>1, <1>3, ContextStays DEF Admitted
  <1>4. CASE request'.step \notin {"look", "do"}
    BY <1>4 DEF Admitted
  <1>5. CASE request.step \notin {"look", "do"} /\ request'.step \in {"look", "do"} /\ ~Gate
    <2>1. ~(Look \/ Do \/ DoMissing \/ DoFails \/ Answer)
      BY <1>5 DEF Look, Do, DoMissing, DoFails, Answer
    <2>2. ~(ScanPool \/ ScanMode \/ ScanIds)
      BY <1>5 DEF ScanPool, ScanMode, ScanIds
    <2> QED
      BY <1>5, <2>1, <2>2, StepCases, AuthMoves, LookupFailsMoves, ListingFailsMoves, FindMoves,
         AbandonMoves, InsertAuditMoves, ChangeRoleMoves, OtherWriteMoves, OtherDeleteMoves, SetPoolMoves, SetAccessMoves
      DEF vars
  <1> QED BY <1>2, <1>3, <1>4, <1>5

\* The entry stands under Home when the request acts on Home.
LEMMA ToldAtHome ==
  ASSUME TypeOK, Placing, Admitted, request.step = "do", route.tells = "context", ActsOn = Home
  PROVE  LogAudit = Home
  <1>1. /\ route.gate \in {"row", "list", "permission", "gateway", "cache"}
        /\ route.on = "platform" <=> route.gate \in {"gateway", "global", "cache"}
        /\ route.gate \in {"list", "permission"} => route.on = "context"
    BY RouteFacts DEF Gated
  <1>2. route.on # "platform"
    BY OrgsAre DEF ActsOn
  <1>3. CASE route.gate = "row"
    BY <1>3, OrgsAre DEF Admitted, LogAudit
  <1>4. CASE route.gate = "list"
    <2>1. ActsOn = request.ctx.org
      BY <1>1, <1>4 DEF ActsOn, CtxOrg
    <2> QED BY <2>1, OrgsAre DEF LogAudit
  <1>5. CASE route.gate = "permission"
    <2>1. ActsOn = CtxOrg
      BY <1>1, <1>5 DEF ActsOn
    <2>2. Session /\ ~Key
      BY <1>5 DEF Admitted, Placing, Session, Key
    <2>3. CASE request.ctx.org = "none"
      <3>1. deployment.mode = "hosted"
        BY <2>2, <2>3 DEF Placing
      <3>2. CtxOrg = "default"
        BY <1>5, <2>3, <3>1 DEF CtxOrg, Default
      <3> QED BY <2>1, <3>2, OrgsAre
    <2>4. CASE request.ctx.org # "none"
      BY <2>1, <2>4 DEF CtxOrg, LogAudit
    <2> QED BY <2>3, <2>4
  <1> QED BY <1>1, <1>2, <1>3, <1>4, <1>5

LEMMA AuditRefs == TypeOK => TableOf("audit").refs \subseteq {"org"}
  <1> SUFFICES ASSUME TypeOK PROVE TableOf("audit").refs \subseteq {"org"}
    OBVIOUS
  <1>1. TableOf("audit") = Stores[deployment.backend].audit
    BY SharedAre DEF TableOf, SharedKinds
  <1> QED BY <1>1, BackendIs, RefsAre DEF ByOrg

\* Every step keeps the tenant of the entry.
LEMMA EnteredNext ==
  ASSUME TypeOK, Shape, Placing, Admitted, Entered, [Next]_vars
  PROVE  Entered'
  <1>1. CASE Answer
    <2>1. /\ request.step = "do" /\ request'.ctx = request.ctx
          /\ \/ audit' = audit
             \/ /\ audit'.state = "spawned"
                /\ \/ audit'.under = Home
                   \/ audit'.under = LogAudit /\ route.tells = "context"
      BY <1>1, AnswerMoves DEF SameFound
    <2>2. ActsOn' = ActsOn
      BY <2>1, ActsOnStays
    <2>3. audit.state = "none"
      BY <2>1 DEF Shape
    <2> QED BY <2>1, <2>2, <2>3, ToldAtHome DEF Entered
  <1>2. CASE InsertAudit
    <2>1. /\ request' = request /\ rows' = rows /\ audit.state = "spawned"
          /\ audit'.under = audit.under
          /\ \/ audit'.state \in {"inserted", "lost"}
             \/ /\ audit'.state = "refused"
                /\ \E p \in TableOf("audit").refs : Gone(p)
      BY <1>2, InsertAuditMoves
    <2>2. ActsOn' = ActsOn
      BY <2>1, ActsOnStays
    <2>3. audit'.state = "refused" => Gone("org")
      BY <2>1, AuditRefs
    <2> QED BY <2>1, <2>2, <2>3 DEF Entered, Gone
  <1>3. CASE audit' = audit
    <2>1. CASE audit.state = "none"
      BY <1>3, <2>1 DEF Entered
    <2>2. CASE audit.state # "none"
      <3>1. request' = request /\ rows' = rows
        BY <2>2, OverStays DEF Shape
      <3>2. ActsOn' = ActsOn
        BY <3>1, ActsOnStays
      <3> QED BY <1>3, <3>1, <3>2 DEF Entered, Gone
    <2> QED BY <2>1, <2>2
  <1>4. CASE AuthMiddleware \/ LookupFails \/ ListingFails \/ Find \/ Gate \/ Look
             \/ ScanPool \/ ScanMode \/ ScanIds \/ Do \/ DoMissing \/ DoFails \/ Abandon
    BY <1>3, <1>4, AuthMoves, LookupFailsMoves, ListingFailsMoves, FindMoves, GateMoves, LookMoves, ScanPoolMoves, ScanModeMoves,
       ScanIdsMoves, DoMoves, DoMissingMoves, DoFailsMoves, AbandonMoves
  <1>5. CASE \/ \E org \in Orgs, new \in NewRoles : ChangeRole(org, new)
             \/ \E kind \in Kinds : OtherWrite(kind) \/ OtherDelete(kind)
             \/ \E pool \in {"open", "with", "without"} : SetPool(pool)
             \/ \E mode \in {"all", "select"}, listed \in BOOLEAN : SetAccess(mode, listed)
             \/ UNCHANGED vars
    BY <1>3, <1>5, ChangeRoleMoves, OtherWriteMoves, OtherDeleteMoves, SetPoolMoves,
       SetAccessMoves DEF vars
  <1> QED
    BY <1>1, <1>2, <1>4, <1>5 DEF Next

\* Every step keeps that a change that was made is told.
LEMMA RecordedNext ==
  ASSUME TypeOK, Shape, Recorded, [Next]_vars
  PROVE  Recorded'
  <1>1. route' = route
    BY StepKeeps
  <1>2. CASE request.step = "over"
    <2>1. request' = request /\ (audit' = audit \/ InsertAudit)
      BY <1>2, OverStays
    <2>2. audit.state # "none" => audit'.state # "none"
      BY <2>1, InsertAuditMoves
    <2> QED BY <1>1, <2>1, <2>2 DEF Recorded
  <1>3. CASE request'.did = {} \/ request'.step # "over"
    BY <1>3 DEF Recorded
  <1>4. CASE request'.answer \in {"404", "500", "abandoned"}
    BY <1>4 DEF Recorded
  <1>5. CASE AuthMiddleware \/ LookupFails \/ ListingFails \/ Find \/ Gate \/ Look
             \/ ScanPool \/ ScanMode \/ ScanIds
    <2>1. request'.did = request.did /\ request.step \in {"authenticate", "find", "gate", "look"}
      BY <1>5, AuthMoves, LookupFailsMoves, ListingFailsMoves, FindMoves, GateMoves, LookMoves,
         ScanPoolMoves, ScanModeMoves, ScanIdsMoves DEF SameWork
    <2> QED BY <1>3, <2>1 DEF Shape
  <1>6. CASE Do \/ DoMissing \/ DoFails \/ Abandon
    BY <1>3, <1>4, <1>6, DoMoves, DoMissingMoves, DoFailsMoves, AbandonMoves
  <1>7. CASE Answer
    BY <1>1, <1>7, AnswerMoves DEF Recorded
  <1>8. CASE request.step # "over" /\ UNCHANGED request
    BY <1>3, <1>8
  <1> QED
    BY <1>2, <1>5, <1>6, <1>7, <1>8, StepCases, InsertAuditMoves, ChangeRoleMoves,
       OtherWriteMoves, OtherDeleteMoves, SetPoolMoves, SetAccessMoves DEF vars

AuditInv == WorkInv /\ Placing /\ Admitted /\ Entered /\ Recorded

LEMMA AuditInit == Init => Placing /\ Admitted /\ Entered /\ Recorded
  <1> SUFFICES ASSUME Init PROVE Placing /\ Admitted /\ Entered /\ Recorded
    OBVIOUS
  <1>1. /\ request.step = "authenticate" /\ audit.state = "none"
    BY DEF Init, NewRequest
  <1> QED
    BY <1>1 DEF Placing, Admitted, Entered, Recorded

\* An audit entry is about a change that was made or forestalled and stands under the tenant of
\* the row; a change that is to be told has one (log_audit, log_org_audit).
THEOREM AuditIsTold == Spec => []AuditTold
  <1>1. Init => AuditInv
    BY TypedInit, ShapeInit, WatchedInit, AuditInit DEF WorkInv, AuditInv
  <1>2. AuditInv /\ [Next]_vars => AuditInv'
    <2> SUFFICES ASSUME AuditInv, [Next]_vars PROVE AuditInv'
      OBVIOUS
    <2>1. WorkInv'
      BY StepKeeps, ShapeNext, WatchedNext, DealtNext, UndoneUnseen DEF WorkInv, AuditInv
    <2>2. Placing' /\ Admitted' /\ Entered' /\ Recorded'
      BY PlacingNext, AdmittedNext, EnteredNext, RecordedNext DEF WorkInv, AuditInv
    <2> QED BY <2>1, <2>2 DEF AuditInv
  <1>3. AuditInv => AuditTold
    <2> SUFFICES ASSUME AuditInv PROVE AuditTold
      OBVIOUS
    <2>1. DOMAIN route.does = 1 .. Len(route.does)
      BY RouteFacts DEF AuditInv, WorkInv
    <2>2. audit.state # "none" => \A i \in DOMAIN route.does :
            route.does[i].must => i \in request.did \/ route.does[i].kind \in history.removed
      BY <2>1 DEF AuditInv, WorkInv, Shape, Dealt, Forestalled
    <2>3. Entered /\ Recorded
      BY DEF AuditInv
    <2> QED BY <2>2, <2>3 DEF Entered, Recorded, AuditTold
  <1> QED
    BY <1>1, <1>2, <1>3, PTL DEF Spec

----------------------------------------------------------------------------
(* Strays *)

\* What each row belongs to.
LEMMA AboveIs ==
  ASSUME NEW kind \in Tabled
  PROVE  /\ "app" \in Above(kind) <=> kind \in OfTheApp
         /\ "org" \in Above(kind) <=> kind \notin {"org", "model", "setting", "cache", "webhook"}
         /\ Above(kind) \subseteq {"org", "app"}
  BY KindsAre DEF Above, OfTheApp, OfTheOrg, Tabled

\* A table with a foreign key refers to the row's application, or to its organization if it
\* has no application; only what hangs on the application leaves the organization out.
LEMMA TablesRefer ==
  ASSUME TypeOK, NEW kind \in Tabled
  PROVE  /\ TableOf("app").refs = {"org"}
         /\ TableOf(kind).refs # {} /\ "app" \in Above(kind) => "app" \in TableOf(kind).refs
         /\ TableOf(kind).refs # {} /\ "app" \notin Above(kind) => "org" \in TableOf(kind).refs
  <1>1. deployment.backend \in {"sqlite", "postgres"}
    BY BackendIs
  <1>2. TableOf("app").refs = {"org"}
    BY <1>1, SharedAre, RefsAre DEF TableOf, SharedKinds, ByOrg
  <1>3. CASE kind \in SharedKinds
    <2>1. TableOf(kind) = Shared[kind]
      BY <1>3, SharedAre DEF TableOf
    <2>2. "app" \notin Above(kind)
      BY <1>3, AboveIs DEF SharedKinds, OfTheApp
    <2>3. kind = "end_user" => TableOf(kind).refs = {"org"}
      BY <2>1, SharedAre DEF Table, ByOrg
    <2>4. kind # "end_user" => TableOf(kind).refs = {}
      BY <1>3, <2>1, SharedAre DEF Table, SharedKinds
    <2> QED BY <1>2, <2>2, <2>3, <2>4
  <1>4. CASE kind \notin SharedKinds
    <2>1. TableOf(kind) = Stores[deployment.backend][kind]
      BY <1>4, SharedAre DEF TableOf
    <2>2. CASE kind \in OfTheApp
      <3>1. TableOf(kind).refs \in {{}, {"app"}, {"org", "app"}}
        BY <1>1, <2>1, <2>2, RefsAre DEF OfTheApp, ByApp
      <3> QED BY <1>2, <2>2, <3>1, AboveIs
    <2>3. CASE kind \notin OfTheApp
      <3>1. TableOf(kind).refs \in {{}, {"org"}}
        BY <1>1, <1>4, <2>1, <2>3, RefsAre DEF OfTheApp, ByOrg, Tabled, SharedKinds
      <3> QED BY <1>2, <2>3, <3>1, AboveIs
    <2> QED BY <2>2, <2>3
  <1> QED BY <1>3, <1>4

\* The cascade of an organization reaches every row of it but the limits and the webhook
\* deliveries, that of an application every row of it but the deliveries.
LEMMA CascadesReach ==
  ASSUME TypeOK
  PROVE  /\ \A k \in Tabled : k \notin Cascaded("org") =>
              k \in {"limits", "delivery", "model", "setting", "cache", "webhook"}
         /\ \A k \in Tabled : k \in OfTheApp /\ k \notin Cascaded("app") => k = "delivery"
         /\ "org" \notin Cascaded("app") /\ "app" \in Cascaded("app")
  <1> DEFINE b == deployment.backend
  <1>1. b \in {"sqlite", "postgres"}
    BY BackendIs
  <1>2. /\ OrgCascade[b] = SqliteDeleteOrganization
        /\ AppCascade[b] = SqliteDeleteApplication
        /\ SqliteDeleteOrganization = {"delivery", "artifact", "log", "generation", "key",
             "audit", "invitation", "credential", "pool", "member", "access", "storage", "app", "org"}
        /\ SqliteDeleteApplication = {"delivery", "artifact", "log", "generation", "key",
             "access", "storage", "app"}
    BY <1>1 DEF OrgCascade, AppCascade, SqliteDeleteOrganization, SqliteDeleteApplication,
       PostgresDeleteOrganization, PostgresDeleteApplication
  <1>3. \A k \in {"member", "app", "credential", "storage", "pool", "access", "key",
                  "generation", "log", "artifact", "audit", "invitation"} :
          TableOf(k) = Stores[b][k]
    BY SharedAre DEF TableOf, SharedKinds
  <1> HIDE DEF b
  <1>4. /\ \A k \in {"member", "app", "credential", "storage", "pool", "access", "key",
                     "generation", "log", "artifact", "audit", "invitation"} :
             TableOf(k).stamped \cap {"org", "app"} # {}
        /\ \A k \in {"storage", "access", "key", "generation", "log", "artifact"} :
             TableOf(k).stamped \cap {"app"} # {}
    BY <1>1, <1>3, StampsAre DEF ByOrg, ByApp
  <1>5. TableOf("end_user").stamped \cap {"org", "app"} # {}
    BY SharedAre DEF TableOf, SharedKinds, Table, ByOrg
  <1>6. Cascaded("org") = {"org"} \cup {k \in SqliteDeleteOrganization \cup {"end_user"} :
                                           TableOf(k).stamped \cap {"org", "app"} # {}}
    BY <1>2 DEF Cascaded, b
  <1>7. Cascaded("app") = {"app"} \cup {k \in SqliteDeleteApplication :
                                           TableOf(k).stamped \cap {"app"} # {}}
    BY <1>2 DEF Cascaded, b
  <1> HIDE DEF SqliteDeleteOrganization, SqliteDeleteApplication
  <1>8. \A k \in Tabled : k \notin Cascaded("org") =>
              k \in {"limits", "delivery", "model", "setting", "cache", "webhook"}
    BY <1>2, <1>4, <1>5, <1>6 DEF Tabled
  <1>9. \A k \in Tabled : k \in OfTheApp /\ k \notin Cascaded("app") => k = "delivery"
    BY <1>2, <1>4, <1>7 DEF OfTheApp
  <1> QED
    BY <1>2, <1>7, <1>8, <1>9

\* A row inserted under foreign keys has everything above it.
LEMMA NothingMissingAbove ==
  ASSUME TypeOK, NoStrays, NEW kind \in Tabled, TableOf(kind).refs # {},
         \A p \in TableOf(kind).refs : ~Gone(p)
  PROVE  \A p \in Above(kind) : ~Gone(p)
  <1>1. CASE "app" \in Above(kind)
    <2>1. ~Gone("app")
      BY <1>1, TablesRefer
    <2>2. TableOf("app").refs # {} /\ "app" \in Kinds /\ "org" \in Above("app")
      BY TablesRefer, KindsAre, AboveIs DEF Tabled
    <2>3. ~Gone("org")
      BY <2>1, <2>2 DEF NoStrays
    <2> QED BY <2>1, <2>3, AboveIs
  <1>2. CASE "app" \notin Above(kind)
    BY <1>2, TablesRefer, AboveIs
  <1> QED BY <1>1, <1>2

\* A statement that writes a row.
LEMMA WritingStrays ==
  ASSUME TypeOK, NoStrays, NEW kind \in Tabled, NEW content, content # "absent", NEW op,
         Possible(op, kind), op # "send", kind = "org" => op \notin Inserts,
         rows' = [rows EXCEPT ![kind] = content],
         history.late \cup LateBy(op, kind) \subseteq history'.late,
         deployment' = deployment
  PROVE  NoStrays'
  <1>1. rows \in [Tabled -> RowStates]
    BY DEF TypeOK
  <1>2. \A k \in Tabled : k # kind => rows'[k] = rows[k]
    BY <1>1
  <1>3. rows'[kind] # "absent" /\ "org" \in Tabled /\ "app" \in Tabled
    BY <1>1 DEF Tabled
  <1>4. CASE op \notin Inserts
    <2>1. ~Gone(kind)
      BY <1>4 DEF Possible
    <2>2. \A k \in Tabled : rows'[k] = "absent" <=> rows[k] = "absent"
      BY <1>2, <1>3, <2>1 DEF Gone
    <2>3. ASSUME NEW k \in Kinds, rows'[k] # "absent", \E p \in Above(k) : rows'[p] = "absent"
          PROVE  \/ k \in {"limits", "delivery"}
                 \/ k \in history'.late /\ TableOf(k).refs = {}
      <3>1. \E p \in Above(k) : Gone(p)
        BY <1>3, <2>2, <2>3, KindsAre, AboveIs DEF Gone
      <3>2. ~Gone(k)
        BY <2>2, <2>3, KindsAre DEF Gone
      <3> QED BY <3>1, <3>2 DEF NoStrays
    <2> QED BY <2>3 DEF NoStrays, Gone, TableOf
  <1>5. CASE op \in Inserts
    <2>1. \A p \in TableOf(kind).refs : ~Gone(p)
      BY <1>5 DEF Possible
    <2>2. kind # "org"
      BY <1>5
    <2>3. \A p \in {"org", "app"} : rows'[p] = "absent" => Gone(p) /\ p # kind
      BY <1>2, <1>3 DEF Gone
    <2>4. ASSUME NEW k \in Kinds, rows'[k] # "absent", \E p \in Above(k) : rows'[p] = "absent"
          PROVE  \/ k \in {"limits", "delivery"}
                 \/ k \in history'.late /\ TableOf(k).refs = {}
      <3>1. \E p \in Above(k) : Gone(p)
        BY <2>3, <2>4, KindsAre, AboveIs
      <3>2. CASE k = kind
        <4>1. k \in history'.late
          BY <1>5, <3>1, <3>2 DEF LateBy
        <4>2. TableOf(k).refs = {}
          BY <2>1, <3>1, <3>2, NothingMissingAbove
        <4> QED BY <4>1, <4>2
      <3>3. CASE k # kind
        BY <1>2, <2>4, <3>1, <3>3, KindsAre DEF NoStrays, Gone
      <3> QED BY <3>2, <3>3
    <2> QED BY <2>4 DEF NoStrays, Gone, TableOf
  <1> QED BY <1>4, <1>5

\* A row that goes takes what belongs to it along.
LEMMA DeletingStrays ==
  ASSUME TypeOK, NoStrays, NEW kind \in Tabled, NEW op \in {"cascade", "delete"}, NEW content,
         op = "cascade" <=> kind \in {"org", "app"},
         rows' = After(op, kind, content),
         history.late \subseteq history'.late, deployment' = deployment
  PROVE  NoStrays'
  <1>1. rows \in [Tabled -> RowStates] /\ "org" \in Tabled /\ "app" \in Tabled
    BY DEF TypeOK, Tabled
  <1>2. op = "cascade" => \A k \in Tabled : rows'[k] = IF k \in Cascaded(kind) THEN "absent" ELSE rows[k]
    BY KindsAre DEF After
  <1>3. op = "delete" => \A k \in Tabled : rows'[k] = IF k = kind THEN "absent" ELSE rows[k]
    BY <1>1 DEF After
  <1>4. ASSUME NEW k \in Kinds, rows'[k] # "absent", NEW p \in Above(k), rows'[p] = "absent"
        PROVE  \/ k \in {"limits", "delivery"}
               \/ k \in history'.late /\ TableOf(k).refs = {}
    <2>1. k \in Tabled /\ p \in {"org", "app"} /\ ~Gone(k)
      BY <1>2, <1>3, <1>4, KindsAre, AboveIs DEF Gone
    <2>2. CASE Gone(p)
      BY <2>1, <2>2 DEF NoStrays
    <2>3. CASE ~Gone(p)
      <3>1. op = "cascade" /\ p \in Cascaded(kind) /\ k \notin Cascaded(kind)
        BY <1>1, <1>2, <1>3, <1>4, <2>1, <2>3 DEF Gone
      <3>2. CASE kind = "org"
        BY <2>1, <3>1, <3>2, CascadesReach, AboveIs DEF OfTheApp
      <3>3. CASE kind = "app"
        <4>1. p = "app"
          BY <2>1, <3>1, <3>3, CascadesReach
        <4> QED BY <2>1, <3>1, <3>3, <4>1, CascadesReach, AboveIs
      <3> QED BY <3>1, <3>2, <3>3
    <2> QED BY <2>2, <2>3
  <1> QED BY <1>4 DEF NoStrays, Gone, TableOf

\* A step that leaves the rows alone makes no stray.
LEMMA NothingStrays ==
  ASSUME NoStrays, rows' = rows, history.late \subseteq history'.late, deployment' = deployment
  PROVE  NoStrays'
  BY DEF NoStrays, Gone, TableOf

\* At first the application is missing only with all that belongs to it.
LEMMA StraysInit == Init => NoStrays
  <1> SUFFICES ASSUME Init PROVE NoStrays
    OBVIOUS
  <1>0. PICK name \in Names : \E missing \in SUBSET MayMiss(name) :
          rows = [k \in Kinds |->
                   IF \/ k \in Made(name) \cup missing
                      \/ "app" \in Made(name) /\ k \in OfTheApp
                     THEN "absent" ELSE "old"]
    BY DEF Init
  <1>1. PICK missing \in SUBSET MayMiss(name) :
          rows = [k \in Kinds |->
                   IF \/ k \in Made(name) \cup missing
                      \/ "app" \in Made(name) /\ k \in OfTheApp
                     THEN "absent" ELSE "old"]
    BY <1>0
  <1> DEFINE does == Handlers[name].does
  <1>2. does \in Seq(Statement) /\ \A i \in 1 .. Len(does) : Placed(does[i])
    BY AccessAssumption, RoutesAreSane DEF Sane, Written
  <1>3. "org" \notin Made(name)
    <2>1. SUFFICES ASSUME NEW i \in DOMAIN does, does[i].op = "insert"
                   PROVE  does[i].kind # "org"
      BY DEF Made, Range
    <2>2. Placed(does[i])
      BY <1>2, <2>1
    <2> QED BY <2>1, <2>2 DEF Placed
  <1>4. /\ "org" \in Kinds /\ "app" \in Kinds /\ "org" \notin OfTheApp
        /\ \A k \in missing : k \notin {"org", "app"}
    BY KindsAre DEF Tabled, OfTheApp, MayMiss
  <1>5. ~Gone("org")
    BY <1>1, <1>3, <1>4 DEF Gone
  <1>6. Gone("app") => \A k \in Kinds : k \in OfTheApp => Gone(k)
    BY <1>1, <1>4 DEF Gone, OfTheApp
  <1>7. \A k \in Kinds : "app" \in Above(k) => k \in OfTheApp
    BY KindsAre, AboveIs
  <1>8. \A k \in Kinds : Above(k) \subseteq {"org", "app"}
    BY KindsAre, AboveIs
  <1> QED BY <1>5, <1>6, <1>7, <1>8 DEF NoStrays

\* Every step, of the handler and of others, makes no stray but the ones allowed.
LEMMA StraysNext ==
  ASSUME TypeOK, NoStrays, [Next]_vars
  PROVE  NoStrays'
  <1>1. deployment' = deployment
    BY StepKeeps
  <1>2. CASE rows' = rows /\ SameLate
    BY <1>1, <1>2, NothingStrays DEF SameLate
  <1>3. CASE AuthMiddleware \/ LookupFails \/ ListingFails \/ Find \/ Gate \/ Look
    BY <1>2, <1>3, AuthMoves, LookupFailsMoves, ListingFailsMoves, FindMoves, GateMoves,
       LookMoves DEF SameLate
  <1>4. CASE ScanPool \/ ScanMode \/ ScanIds
    BY <1>2, <1>4, ScanPoolMoves, ScanModeMoves, ScanIdsMoves, PassedMoves
  <1>5. CASE DoMissing \/ DoFails \/ Answer \/ Abandon \/ InsertAudit
    BY <1>2, <1>5, DoMissingMoves, DoFailsMoves, AnswerMoves, AbandonMoves, InsertAuditMoves
    DEF SameLate
  <1>6. CASE Do
    <2> DEFINE op == route.does[request.n].op
               kind == route.does[request.n].kind
    <2>1. /\ op \in Ops /\ kind \in Tabled /\ Placed(route.does[request.n])
          /\ Possible(op, kind) /\ rows' = After(op, kind, "mine")
          /\ history'.late = history.late \cup LateBy(op, kind)
      BY <1>6, DoMoves, StatementFacts
    <2>2. /\ op = "cascade" => kind \in {"org", "app"}
          /\ kind \in {"org", "app"} => op \in {"insert", "update", "cascade"}
          /\ kind = "org" => op \in {"update", "cascade"}
      BY <2>1 DEF Placed
    <2> HIDE DEF op, kind
    <2>3. CASE op \in {"cascade", "delete"}
      <3>1. op = "cascade" <=> kind \in {"org", "app"}
        BY <2>2, <2>3
      <3> QED BY <1>1, <2>1, <2>3, <3>1, DeletingStrays
    <2>4. CASE op = "send" \/ (op = "touch" /\ ~Gone(kind))
      <3>1. rows' = rows
        BY <2>1, <2>4 DEF After
      <3> QED BY <1>1, <2>1, <3>1, NothingStrays
    <2>5. CASE op \notin {"cascade", "delete", "send"} /\ ~(op = "touch" /\ ~Gone(kind))
      <3>1. rows' = [rows EXCEPT ![kind] = "mine"]
        BY <2>1, <2>5 DEF After
      <3>2. kind = "org" => op \notin Inserts
        BY <2>2 DEF Inserts
      <3> QED BY <1>1, <2>1, <2>5, <3>1, <3>2, WritingStrays
    <2> QED BY <2>3, <2>4, <2>5
  <1>7. CASE \E kind \in Kinds : OtherWrite(kind)
    <2>1. PICK kind \in Kinds : OtherWrite(kind)
      BY <1>7
    <2>2. /\ kind \in Tabled \ {"org", "app"} /\ Possible("upsert", kind)
          /\ rows' = [rows EXCEPT ![kind] = "theirs"]
          /\ history'.late = history.late \cup LateBy("upsert", kind)
      BY <2>1, OtherWriteMoves
    <2> QED BY <1>1, <2>2, WritingStrays
  <1>8. CASE \E kind \in Kinds : OtherDelete(kind)
    <2>1. PICK kind \in Kinds : OtherDelete(kind)
      BY <1>8
    <2> DEFINE op == IF kind \in {"org", "app"} THEN "cascade" ELSE "delete"
    <2>2. kind \in Tabled /\ rows' = After(op, kind, "theirs") /\ history'.late = history.late
      BY <2>1, OtherDeleteMoves DEF SameLate
    <2>3. op \in {"cascade", "delete"} /\ (op = "cascade" <=> kind \in {"org", "app"})
      OBVIOUS
    <2> HIDE DEF op
    <2> QED BY <1>1, <2>2, <2>3, DeletingStrays
  <1>9. CASE \E org \in Orgs, new \in NewRoles : ChangeRole(org, new)
    BY <1>2, <1>9, ChangeRoleMoves
  <1>10. CASE \/ \E pool \in {"open", "with", "without"} : SetPool(pool)
              \/ \E mode \in {"all", "select"}, listed \in BOOLEAN : SetAccess(mode, listed)
    BY <1>2, <1>10, SetPoolMoves, SetAccessMoves
  <1>11. CASE UNCHANGED vars
    BY <1>2, <1>11 DEF vars, SameLate
  <1> QED
    BY <1>3, <1>4, <1>5, <1>6, <1>7, <1>8, <1>9, <1>10, <1>11, StepCases

\* What the deletion of an organization or an application leaves behind, on both databases
\* and for every handler, is the limits, the deliveries, and rows inserted afterwards into
\* a table without a foreign key (delete_organization, delete_application).
THEOREM DeletionLeavesNoStrays == Spec => []NoStrays
  <1>1. TypeOK /\ NoStrays /\ [Next]_vars => TypeOK' /\ NoStrays'
    BY StepKeeps, StraysNext
  <1> QED
    BY <1>1, TypedInit, StraysInit, PTL DEF Spec

----------------------------------------------------------------------------
(* Rights *)

\* Every caller is one of three.
LEMMA CallerIs ==
  ASSUME TypeOK
  PROVE  /\ Master \/ Session \/ Key
         /\ ~(Session /\ Key) /\ ~(Master /\ Key) /\ ~(Master /\ Session)
  BY DEF TypeOK, Caller, Master, Session, Key

\* A role does not leave the roles held.
LEMMA HeldGrows ==
  ASSUME TypeOK, \A o \in Orgs : role[o] \in history.held[o], [Next]_vars
  PROVE  \A o \in Orgs : role'[o] \in history'.held[o] /\ history.held[o] \subseteq history'.held[o]
  <1>1. ASSUME role' \in [Orgs -> Roles], history'.held = Held(role')
        PROVE  \A o \in Orgs : role'[o] \in history'.held[o] /\ history.held[o] \subseteq history'.held[o]
    BY <1>1, HeldTyped
  <1>2. CASE UNCHANGED role /\ SameHeld
    BY <1>2 DEF SameHeld
  <1>3. CASE AuthMiddleware \/ LookupFails \/ ListingFails \/ Find \/ Gate \/ Look
    BY <1>2, <1>3, AuthMoves, LookupFailsMoves, ListingFailsMoves, FindMoves, GateMoves,
       LookMoves DEF SameHeld
  <1>4. CASE ScanPool \/ ScanMode \/ ScanIds
    BY <1>2, <1>4, ScanPoolMoves, ScanModeMoves, ScanIdsMoves, PassedMoves
  <1>5. CASE DoMissing \/ DoFails \/ Answer \/ Abandon \/ InsertAudit
    BY <1>2, <1>5, DoMissingMoves, DoFailsMoves, AnswerMoves, AbandonMoves, InsertAuditMoves
    DEF SameHeld
  <1>6. CASE Do
    BY <1>1, <1>6, DoMoves
  <1>7. CASE \E org \in Orgs, new \in NewRoles : ChangeRole(org, new)
    BY <1>1, <1>7, ChangeRoleMoves
  <1>8. CASE \E kind \in Kinds : OtherWrite(kind)
    BY <1>2, <1>8, OtherWriteMoves
  <1>9. CASE \E kind \in Kinds : OtherDelete(kind)
    BY <1>1, <1>9, OtherDeleteMoves
  <1>10. CASE \/ \E pool \in {"open", "with", "without"} : SetPool(pool)
              \/ \E mode \in {"all", "select"}, listed \in BOOLEAN : SetAccess(mode, listed)
    BY <1>2, <1>10, SetPoolMoves, SetAccessMoves
  <1>11. CASE UNCHANGED vars
    BY <1>2, <1>11 DEF vars, SameHeld
  <1> QED
    BY <1>3, <1>4, <1>5, <1>6, <1>7, <1>8, <1>9, <1>10, <1>11, StepCases

LEMMA RankedInit == Init => Ranked
  <1> SUFFICES ASSUME Init PROVE Ranked
    OBVIOUS
  <1>1. /\ history.held = [o \in Orgs |-> {role[o]}] /\ request.step = "authenticate"
        /\ request.ctx.org = "none"
    BY DEF Init, NewRequest
  <1> QED BY <1>1, OrgsAre DEF Ranked

\* Who is authenticated, in which organization and as what.
LEMMA AuthFinds ==
  ASSUME TypeOK, AuthMiddleware, ~Over("403")
  PROVE  /\ request'.step = "find" /\ CheckScope(route.scope)
         /\ request'.ctx.org \in ActiveOrgs
         /\ request'.ctx.as = IF Session THEN RoleIn(request'.ctx.org) ELSE "none"
         /\ UNCHANGED <<role, history>>
  <1>1. PICK org \in ActiveOrgs :
          /\ CheckScope(route.scope)
          /\ request' = [request EXCEPT
               !.ctx  = [org |-> org, as |-> IF Session THEN RoleIn(org) ELSE "none"],
               !.step = "find"]
    BY DEF AuthMiddleware
  <1>2. request \in Request /\ UNCHANGED <<role, history>>
    BY DEF TypeOK, AuthMiddleware
  <1>3. /\ request'.step = "find"
        /\ request'.ctx = [org |-> org, as |-> IF Session THEN RoleIn(org) ELSE "none"]
    BY <1>1, <1>2 DEF Request
  <1> QED BY <1>1, <1>2, <1>3

\* A listing that failed, failed for good.
LEMMA UnlistedStays ==
  ASSUME TypeOK, [Next]_vars, history.unlisted
  PROVE  history'.unlisted
  <1>1. history \in History
    BY DEF TypeOK
  <1> HIDE DEF Tabled, ModelStates, Orgs, Roles
  <1>2. CASE AuthMiddleware \/ Find \/ Gate \/ Look \/ DoMissing \/ Answer \/ Abandon
             \/ UNCHANGED vars
    BY <1>2 DEF AuthMiddleware, Find, Gate, Look, DoMissing, Answer, Abandon, vars
  <1>3. CASE LookupFails \/ ListingFails \/ DoFails
    BY <1>1, <1>3 DEF LookupFails, ListingFails, DoFails, History
  <1>4. CASE ScanPool \/ ScanMode \/ ScanIds
    BY <1>1, <1>4 DEF ScanPool, ScanMode, ScanIds, Passed, History
  <1>5. CASE Do
    BY <1>1, <1>5 DEF Do, History
  <1>6. CASE InsertAudit
    BY <1>1, <1>6 DEF InsertAudit, History
  <1>7. CASE \E org \in Orgs, new \in NewRoles : ChangeRole(org, new)
    BY <1>1, <1>7 DEF ChangeRole, History
  <1>8. CASE \E kind \in Kinds : OtherWrite(kind)
    BY <1>1, <1>8 DEF OtherWrite, History
  <1>9. CASE \E kind \in Kinds : OtherDelete(kind)
    BY <1>1, <1>9 DEF OtherDelete, History
  <1>10. CASE \E pool \in {"open", "with", "without"} : SetPool(pool)
    BY <1>1, <1>10 DEF SetPool, History
  <1>11. CASE \E mode \in {"all", "select"}, listed \in BOOLEAN : SetAccess(mode, listed)
    BY <1>1, <1>11 DEF SetAccess, History
  <1> QED
    BY <1>2, <1>3, <1>4, <1>5, <1>6, <1>7, <1>8, <1>9, <1>10, <1>11, StepCases

\* A user's own rank that counted once, counts for good.
LEMMA RankCountsStays ==
  ASSUME TypeOK, \A o \in Orgs : role[o] \in history.held[o], [Next]_vars, RankCounts
  PROVE  RankCounts'
  BY HeldGrows, UnlistedStays, StepKeeps DEF RankCounts, WithoutMembership

\* Every step keeps that a session works with a role it held.
LEMMA RankedNext ==
  ASSUME TypeOK, Ranked, [Next]_vars
  PROVE  Ranked'
  <1>1. /\ \A o \in Orgs : role'[o] \in history'.held[o]
        /\ \A o \in Orgs : history.held[o] \subseteq history'.held[o]
    BY HeldGrows DEF Ranked
  <1>2. /\ deployment' = deployment /\ caller' = caller /\ route' = route
    BY StepKeeps
  <1>3. Home \in Orgs
    BY DEF Orgs
  <1>4. CASE request.step # "authenticate"
    <2>1. request'.ctx = request.ctx /\ request'.step # "authenticate"
      BY <1>4, ContextStays
    <2>2. request.step = "over" => request'.step = "over"
      BY OverStays
    <2>3. /\ request.ctx.org \in Orgs => history.held[request.ctx.org] \subseteq history'.held[request.ctx.org]
          /\ history.held[Home] \subseteq history'.held[Home]
      BY <1>1, <1>3
    <2>4. CheckScope(route.scope)' <=> CheckScope(route.scope)
      BY <1>2 DEF CheckScope
    <2>5. RankCounts => RankCounts'
      BY RankCountsStays DEF Ranked
    <2> QED BY <1>1, <1>2, <1>4, <2>1, <2>2, <2>3, <2>4, <2>5 DEF Ranked, Session
  <1>5. CASE request.step = "authenticate" /\ UNCHANGED request
    BY <1>1, <1>5 DEF Ranked
  <1>6. CASE request.step = "authenticate" /\ request'.step = "over" /\ request'.ctx = request.ctx
    BY <1>1, <1>6 DEF Ranked
  <1>7. CASE AuthMiddleware
    <2>1. CASE Over("403")
      BY <1>6, <1>7, <2>1, OverMoves DEF AuthMiddleware, Answers, SameFound
    <2>2. CASE ~Over("403")
      <3> DEFINE org == request'.ctx.org
      <3>1. /\ request'.step = "find" /\ CheckScope(route.scope) /\ org \in ActiveOrgs
            /\ request'.ctx.as = IF Session THEN RoleIn(org) ELSE "none"
            /\ UNCHANGED <<role, history>>
        BY <1>7, <2>2, AuthFinds
      <3>2. ASSUME Session, org \in Orgs
            PROVE  \/ request'.ctx.as \in history.held[org]
                   \/ request'.ctx.as = caller.rank /\ org = Home /\ RankCounts
        <4>1. CASE org \in Memberships
          BY <3>1, <3>2, <4>1 DEF RoleIn, Ranked
        <4>2. CASE org \notin Memberships
          <5>1. org = NoOrg /\ Memberships = {}
            BY <3>1, <3>2, <4>2, ActiveOrgsAre
          <5>2. org = Home /\ deployment.mode = "single"
            BY <3>2, <5>1, OrgsAre DEF NoOrg
          <5>3. WithoutMembership
            BY <5>1 DEF Memberships, Ranked, WithoutMembership
          <5> QED BY <3>1, <3>2, <4>2, <5>2, <5>3 DEF RoleIn, RankCounts
        <4> QED BY <4>1, <4>2
      <3> HIDE DEF org
      <3>3. CheckScope(route.scope)'
        BY <1>2, <3>1 DEF CheckScope
      <3>4. history' = history /\ (Session' <=> Session)
        BY <1>2, <3>1 DEF Session
      <3>5. request'.ctx.org \in Orgs /\ Session' =>
              \/ request'.ctx.as \in history'.held[request'.ctx.org]
              \/ request'.ctx.as = caller'.rank /\ request'.ctx.org = Home /\ RankCounts'
        BY <1>2, <3>2, <3>4 DEF org, RankCounts, WithoutMembership
      <3>6. request'.step # "authenticate"
        BY <3>1
      <3> QED BY <1>1, <3>3, <3>5, <3>6 DEF Ranked
    <2> QED BY <2>1, <2>2
  <1>9. CASE ListingFails
    <2>1. /\ request'.step = "find" /\ CheckScope(route.scope) /\ request'.ctx.org = NoOrg
          /\ request'.ctx.as = caller.rank /\ history'.unlisted
      BY <1>9, ListingFailsMoves
    <2>2. NoOrg \in Orgs => NoOrg = Home /\ deployment.mode = "single"
      BY OrgsAre DEF NoOrg
    <2>3. CheckScope(route.scope)'
      BY <1>2, <2>1 DEF CheckScope
    <2>4. request'.ctx.org \in Orgs =>
            request'.ctx.as = caller'.rank /\ request'.ctx.org = Home /\ RankCounts'
      BY <1>2, <2>1, <2>2 DEF RankCounts
    <2> QED BY <1>1, <2>1, <2>3, <2>4 DEF Ranked
  <1>8. CASE request.step = "authenticate" /\ ~AuthMiddleware /\ ~ListingFails
    <2>1. ~(Find \/ Gate \/ Look \/ Do \/ DoMissing \/ DoFails \/ Answer)
      BY <1>8 DEF Find, Gate, Look, Do, DoMissing, DoFails, Answer
    <2>2. ~(ScanPool \/ ScanMode \/ ScanIds)
      BY <1>8 DEF ScanPool, ScanMode, ScanIds
    <2>3. CASE Abandon \/ LookupFails
      BY <1>6, <1>8, <2>3, AbandonMoves, LookupFailsMoves DEF SameFound
    <2> QED
      BY <1>5, <1>8, <2>1, <2>2, <2>3, StepCases, InsertAuditMoves, ChangeRoleMoves,
         OtherWriteMoves, OtherDeleteMoves, SetPoolMoves, SetAccessMoves DEF vars
  <1> QED BY <1>4, <1>7, <1>8, <1>9

\* The permissions a session works with are those of a role that gives a right.
LEMMA RankAtHome ==
  ASSUME TypeOK, Ranked, request.step # "authenticate", Session, request.ctx.org = Home
  PROVE  request.ctx.as \in RolesAtHome
  <1>1. Home \in Orgs
    BY DEF Orgs
  <1> QED BY <1>1 DEF Ranked, RolesAtHome

LEMMA RankAnywhere ==
  ASSUME TypeOK, Ranked, request.step # "authenticate", Session, request.ctx.org \in Orgs
  PROVE  request.ctx.as \in RolesAtHome \cup history.held[Away]
  BY DEF Ranked, RolesAtHome, Orgs

\* A listing filters on the organization or on its application, in either database.
LEMMA ListingsFilter ==
  ASSUME TypeOK, NEW listed \in {"key", "generation", "owned", "log", "audit"}
  PROVE  {"org", "app"} \cap TenantListings[deployment.backend][listed] # {}
  <1>1. deployment.backend \in {"sqlite", "postgres"}
    BY BackendIs
  <1>2. /\ TenantListings.sqlite[listed] \in {{"app"}, ByApp, ByOrg}
        /\ TenantListings.postgres[listed] \in {{"app"}, ByApp, ByOrg}
    BY DEF TenantListings, SqliteTenantListings, PostgresTenantListings, SqliteAppKeys,
       SqliteTenantGenerations, SqliteOwnerGenerations, SqliteTenantLogs, SqliteTenantAudit,
       PostgresAppKeys, PostgresTenantGenerations, PostgresOwnerGenerations,
       PostgresTenantLogs, PostgresTenantAudit
  <1>3. TenantListings[deployment.backend][listed] \in {{"app"}, ByApp, ByOrg}
    BY <1>1, <1>2
  <1> QED BY <1>3 DEF ByApp, ByOrg

\* Only a request on Home, or on the gateway, reaches the rows of Home.
LEMMA ReachedHome ==
  ASSUME TypeOK, ReachesHome
  PROVE  /\ route.on = "platform" => ActsOn = "platform"
         /\ route.on # "platform" => ActsOn = Home
         /\ route.on = "context" => ActsOn = CtxOrg
  <1>1. /\ route.lists \in {"none", "key", "generation", "log", "audit"}
        /\ request.ctx.org \in {"home", "away", "none"}
    BY RouteFacts, RequestFields, OrgsAre DEF Gated
  <1>2. ActsOn \in {Home, "platform"}
    <2>1. CASE route.lists = "none"
      BY <2>1 DEF ReachesHome
    <2>2. CASE route.lists # "none"
      <3>1. Listed \in {"key", "generation", "owned", "log", "audit"}
        BY <1>1, <2>2 DEF Listed
      <3>2. {"org", "app"} \cap TenantListings[deployment.backend][Listed] # {}
        BY <3>1, ListingsFilter
      <3> QED BY <3>2 DEF ReachesHome
    <2> QED BY <2>1, <2>2
  <1>3. CtxOrg # "platform" /\ ActiveOrg # "platform" /\ Home # "platform"
    BY <1>1, OrgsAre DEF CtxOrg, ActiveOrg, Default
  <1>4. route.on = "platform" => ActsOn = "platform"
    BY DEF ActsOn
  <1>5. route.on # "platform" => ActsOn # "platform"
    BY <1>3 DEF ActsOn
  <1>6. route.on = "context" => ActsOn = CtxOrg
    BY DEF ActsOn
  <1> QED BY <1>2, <1>4, <1>5, <1>6

\* What each gate asks.
LEMMA GatesAre ==
  /\ LetIn["member"] = RequireMemberPerm(ActsOn)
  /\ LetIn["tenant"] = (ActsOn # "none" /\ RequireOrg(ActsOn))
  /\ LetIn["spend"] = (Master \/ (ActsOn # "none" /\ RequireOrg(ActsOn)))
  /\ LetIn["managed"] = AuthorizeKey
  /\ LetIn["gateway"] = RequireGatewayAdmin
  /\ LetIn["global"] = AuthorizeGlobalUserAdmin
  /\ LetIn["cache"] = MayClearCache
  BY DEF LetIn

LEMMA RowGatesAre ==
  /\ LetIn["row"] = (request.ctx.org = Home /\ (Session => AuthorizeSession))
  /\ LetIn["tracked"] = (request.ctx.org = Home /\ (Session => AuthorizeSession))
  /\ LetIn["list"] =
       (ActsOn # "none" /\ (Session => CtxHas(route.any) \/ CtxHas(route.own)))
  /\ LetIn["logs"] =
       (IF Session THEN CtxHas(route.any) \/ CtxHas(route.own) ELSE ActsOn # "none")
  /\ LetIn["permission"] = CtxHas(route.any)
  BY DEF LetIn

\* A key that gets to a gate has the scope its route asks for.
LEMMA KeyAtGate ==
  ASSUME TypeOK, Ranked, request.step = "gate"
  PROVE  /\ route.scope = "admin" => HasScope("admin")
         /\ route.scope = "admin" \/ (\A i \in 1 .. Len(route.does) : route.does[i].kind = "generation")
              => \/ HasScope("admin")
                 \/ \A i \in 1 .. Len(route.does) : route.does[i].kind = "generation"
  BY DEF Ranked, CheckScope, HasScope

\* A session that may do it to any row, or to its own.
SessionMay(extent) ==
  \E r \in RolesAtHome :
    \/ route.any \in PermissionsFor[r]
    \/ /\ route.own \in PermissionsFor[r]
       /\ request.owned \/ extent = "own"

\* A permission of the session's role at Home is a right at Home.
LEMMA SessionHas ==
  ASSUME TypeOK, Ranked, request.step = "gate", Session, request.ctx.org = Home, NEW extent,
         CtxHas(route.any) \/ (CtxHas(route.own) /\ (request.owned \/ extent = "own"))
  PROVE  SessionMay(extent)
  BY RankAtHome DEF SessionMay, CtxHas

\* A request on rows of Home.
LEMMA HomeEntitles ==
  ASSUME TypeOK, ActsOn = Home, NEW extent,
         \/ Master
         \/ Session /\ SessionMay(extent)
         \/ /\ Key /\ caller.at = Home
            /\ \/ HasScope("admin")
               \/ \A i \in 1 .. Len(route.does) : route.does[i].kind = "generation"
  PROVE  EntitledTo(extent)
  BY OrgsAre DEF EntitledTo, SessionMay

LEMMA GatewayEntitles ==
  ASSUME TypeOK, ActsOn = "platform", NEW extent, RightOnGateway
  PROVE  EntitledTo(extent)
  BY DEF EntitledTo

\* The gates of an organization: the members', the tenant's and the spend reports'.
LEMMA TenantGates ==
  ASSUME TypeOK, Ranked, Placing, request.step = "gate", LetIn[route.gate], ReachesHome,
         route.gate \in {"member", "tenant", "spend"}, NEW extent
  PROVE  EntitledTo(extent)
  <1>1. route.on \in {"path", "app", "active"}
    BY RouteFacts DEF Gated
  <1>2. ActsOn = Home
    BY <1>1, ReachedHome
  <1>3. Master \/ RequireOrg(Home)
    BY <1>2, GatesAre DEF RequireOrg
  <1>4. CASE Session /\ RequireMemberPerm(Home)
    <2>1. role[Home] \in RolesAtHome
      BY DEF Ranked, RolesAtHome, Orgs
    <2>2. route.any \in PermissionsFor[role[Home]]
      BY <1>4, CallerIs DEF RequireMemberPerm
    <2> QED BY <1>2, <1>4, <2>1, <2>2, HomeEntitles DEF SessionMay
  <1>5. CASE /\ Key /\ request.ctx.org = Home
             /\ HasScope("admin") \/ (~Writes /\ HasScope("read"))
    <2>1. caller.at = Home
      BY <1>5 DEF Placing
    <2>2. ~Writes => \A i \in 1 .. Len(route.does) : route.does[i].kind = "generation"
      BY RouteFacts DEF Writes
    <2> QED BY <1>2, <1>5, <2>1, <2>2, HomeEntitles
  <1>6. CASE Master
    BY <1>2, <1>6, HomeEntitles
  <1> QED BY <1>3, <1>4, <1>5, <1>6 DEF RequireOrg, RequireMemberPerm

\* The gates of a row, which look at whose it is.
LEMMA RowGates ==
  ASSUME TypeOK, Ranked, Placing, request.step = "gate", LetIn[route.gate], ReachesHome,
         route.gate \in {"row", "tracked", "managed"}, NEW extent
  PROVE  EntitledTo(extent)
  <1>1. /\ route.on \in {"key", "generation", "artifact"}
        /\ route.gate = "row" =>
             route.scope = "admin" \/ \A i \in 1 .. Len(route.does) : route.does[i].kind = "generation"
        /\ route.gate = "tracked" => Len(route.does) = 0
    BY RouteFacts, EmptyIs DEF Gated
  <1>2. ActsOn = Home
    BY <1>1, ReachedHome
  <1>3. \/ Master
        \/ /\ request.ctx.org = Home
           /\ Session => AuthorizeSession
           /\ route.gate = "managed" /\ Key => HasScope("admin")
    BY GatesAre, RowGatesAre, CallerIs DEF AuthorizeKey
  <1>4. CASE Session /\ request.ctx.org = Home /\ AuthorizeSession
    <2>1. SessionMay(extent)
      BY <1>4, SessionHas DEF AuthorizeSession
    <2> QED BY <1>2, <1>4, <2>1, HomeEntitles
  <1>5. CASE Key /\ request.ctx.org = Home /\ (route.gate = "managed" => HasScope("admin"))
    <2>1. caller.at = Home
      BY <1>5 DEF Placing
    <2>2. \/ HasScope("admin")
          \/ \A i \in 1 .. Len(route.does) : route.does[i].kind = "generation"
      BY <1>1, <1>5, KeyAtGate
    <2> QED BY <1>2, <1>5, <2>1, <2>2, HomeEntitles
  <1>6. CASE Master
    BY <1>2, <1>6, HomeEntitles
  <1> QED BY <1>3, <1>4, <1>5, <1>6, CallerIs

\* The gates of the listings, which show a member its own rows.
LEMMA ListingGates ==
  ASSUME TypeOK, Ranked, Placing, request.step = "gate", LetIn[route.gate], ReachesHome,
         route.gate \in {"list", "logs"}, Extent \in {"own", "all"}
  PROVE  EntitledTo(Extent)
  <1>1. /\ route.on = "context"
        /\ route.gate = "list" =>
             route.scope = "admin" \/ \A i \in 1 .. Len(route.does) : route.does[i].kind = "generation"
        /\ route.gate = "logs" => Len(route.does) = 0
    BY RouteFacts, EmptyIs DEF Gated
  <1>2. ActsOn = Home /\ request.ctx.org = Home
    BY <1>1, ReachedHome, OrgsAre DEF CtxOrg
  <1>3. CASE Session
    <2>1. CtxHas(route.any) \/ CtxHas(route.own)
      BY <1>3, RowGatesAre
    <2>2. ~CtxHas(route.any) => Extent = "own"
      BY <1>3 DEF Extent
    <2>3. SessionMay(Extent)
      BY <1>2, <1>3, <2>1, <2>2, SessionHas
    <2> QED BY <1>2, <1>3, <2>3, HomeEntitles
  <1>4. CASE Key
    <2>1. caller.at = Home
      BY <1>2, <1>4 DEF Placing
    <2>2. \/ HasScope("admin")
          \/ \A i \in 1 .. Len(route.does) : route.does[i].kind = "generation"
      BY <1>1, KeyAtGate
    <2> QED BY <1>2, <1>4, <2>1, <2>2, HomeEntitles
  <1>5. CASE Master
    BY <1>2, <1>5, HomeEntitles
  <1> QED BY <1>3, <1>4, <1>5, CallerIs

\* The gate of a permission in the organization the session works in.
LEMMA PermissionGate ==
  ASSUME TypeOK, Ranked, Placing, request.step = "gate", LetIn[route.gate], ReachesHome,
         route.gate = "permission", NEW extent
  PROVE  EntitledTo(extent)
  <1>1. route.on = "context"
    BY RouteFacts DEF Gated
  <1>2. ActsOn = Home /\ CtxOrg = Home
    BY <1>1, ReachedHome
  <1>3. CtxHas(route.any)
    BY RowGatesAre
  <1>4. Session /\ ~Key
    BY <1>3, NoRoleNoPermission, CallerIs DEF Placing, CtxHas
  <1>5. request.ctx.org = Home
    <2>1. CASE request.ctx.org = "none"
      <3>1. deployment.mode = "hosted"
        BY <1>4, <2>1 DEF Placing
      <3>2. CtxOrg = "default"
        BY <2>1, <3>1 DEF CtxOrg, Default
      <3> QED BY <1>2, <3>2, OrgsAre
    <2>2. CASE request.ctx.org # "none"
      BY <1>2, <2>2 DEF CtxOrg
    <2> QED BY <2>1, <2>2
  <1>6. SessionMay(extent)
    BY <1>3, <1>4, <1>5, SessionHas
  <1> QED BY <1>2, <1>4, <1>6, HomeEntitles

\* The gates of the gateway's own configuration.
LEMMA GatewayGates ==
  ASSUME TypeOK, Ranked, Placing, request.step = "gate", LetIn[route.gate], ReachesHome,
         route.gate \in {"gateway", "global", "cache"}, NEW extent
  PROVE  EntitledTo(extent)
  <1>1. route.on = "platform" /\ (route.gate = "cache" => route.scope = "admin")
    BY RouteFacts DEF Gated
  <1>2. ActsOn = "platform"
    BY <1>1, ReachedHome
  <1>3. deployment.mode \in {"single", "hosted"}
    BY DEF TypeOK, Deployment
  <1>4. \/ Master
        \/ /\ deployment.mode = "single"
           /\ Session => CtxHas(route.any)
           /\ route.gate = "gateway" /\ Key => HasScope("admin")
           /\ route.gate = "global" => CtxHas(route.any)
    BY <1>3, GatesAre, CallerIs DEF RequireGatewayAdmin, AuthorizeGlobalUserAdmin, MayClearCache
  <1>5. CASE Session /\ deployment.mode = "single" /\ CtxHas(route.any)
    <2>1. request.ctx.org \in Orgs
      BY <1>5, RequestFields, CallerIs DEF Placing
    <2>2. request.ctx.as \in RolesAtHome \cup history.held[Away]
      BY <1>5, <2>1, RankAnywhere
    <2>3. RightOnGateway
      BY <1>5, <2>2 DEF RightOnGateway, CtxHas
    <2> QED BY <1>2, <2>3, GatewayEntitles
  <1>6. CASE /\ Key /\ deployment.mode = "single"
             /\ route.gate = "gateway" => HasScope("admin")
             /\ route.gate = "global" => CtxHas(route.any)
    <2>1. ~CtxHas(route.any)
      BY <1>6, NoRoleNoPermission, CallerIs DEF Placing, CtxHas
    <2>2. HasScope("admin")
      BY <1>1, <1>6, <2>1, KeyAtGate
    <2>3. RightOnGateway
      BY <1>6, <2>2 DEF RightOnGateway
    <2> QED BY <1>2, <2>3, GatewayEntitles
  <1>7. CASE Master
    <2>1. RightOnGateway
      BY <1>7 DEF RightOnGateway
    <2> QED BY <1>2, <2>1, GatewayEntitles
  <1> QED BY <1>4, <1>5, <1>6, <1>7, CallerIs

\* Every gate entitles whom it lets in to what the handler then shows, and a handler that
\* writes is let in to all that it writes to.
LEMMA GatesEntitle ==
  ASSUME TypeOK, Ranked, Placing, request.step = "gate", LetIn[route.gate], ReachesHome
  PROVE  /\ Extent \in {"own", "all"} => EntitledTo(Extent)
         /\ route.does # <<>> => Extent \in {"own", "all"}
  <1>1. /\ route.gate \in {"member", "tenant", "spend", "row", "tracked", "managed", "list",
                           "logs", "gateway", "global", "cache", "permission", "self", "caller"}
        /\ route.gate \in {"tracked", "logs", "global", "self", "caller"} => route.does = <<>>
    BY RouteFacts DEF Gated, Empty
  <1>2. route.gate \in {"self", "caller"} => Extent = "nothing"
    BY DEF Extent
  <1>3. route.does # <<>> => Extent \in {"own", "all"}
    BY <1>1 DEF Extent
  <1> QED
    BY <1>1, <1>2, <1>3, TenantGates, RowGates, ListingGates, PermissionGate, GatewayGates

\* A right that the caller had, it had.
LEMMA EntitledStays ==
  ASSUME TypeOK, Ranked, [Next]_vars, request'.ctx = request.ctx, NEW extent,
         EntitledTo(extent)
  PROVE  EntitledTo(extent)'
  <1>1. /\ ActsOn' = ActsOn /\ route' = route /\ request'.owned = request.owned
        /\ deployment' = deployment /\ caller' = caller
    BY ActsOnStays, StepKeeps DEF SameAsk
  <1>2. \A o \in Orgs : history.held[o] \subseteq history'.held[o]
    BY HeldGrows DEF Ranked
  <1>3. RolesAtHome \subseteq RolesAtHome'
    BY <1>1, <1>2, RankCountsStays DEF RolesAtHome, Orgs, Ranked
  <1>4. (RolesAtHome \cup history.held[Away]) \subseteq (RolesAtHome \cup history.held[Away])'
    BY <1>2, <1>3 DEF Orgs
  <1>5. RightOnGateway => RightOnGateway'
    BY <1>1, <1>4 DEF RightOnGateway, Master, Session, Key, HasScope
  <1>6. CASE ActsOn = "platform"
    BY <1>1, <1>5, <1>6 DEF EntitledTo
  <1>7. CASE ActsOn # "platform"
    BY <1>1, <1>3, <1>7 DEF EntitledTo, Master, Session, Key, HasScope
  <1> QED BY <1>6, <1>7

LEMMA RightedInit == Init => Righted
  <1> SUFFICES ASSUME Init PROVE Righted
    OBVIOUS
  <1>1. /\ request.step = "authenticate" /\ request.extent = "refused" /\ request.did = {}
    BY DEF Init, NewRequest
  <1> QED BY <1>1 DEF Righted

\* Every step keeps that what is shown or done is within the rights of the caller.
LEMMA RightedNext ==
  ASSUME TypeOK, Shape, Ranked, Placing, Righted, [Next]_vars
  PROVE  Righted'
  <1>1. route' = route
    BY StepKeeps
  <1>2. CASE /\ request'.extent \notin {"own", "all"} /\ request'.did = {}
             /\ request'.step \notin {"look", "do"}
    BY <1>2 DEF Righted
  <1>3. CASE /\ SameFound
             /\ request'.step \in {"look", "do"} => request.step \in {"look", "do"}
             /\ request'.did # {} => request.did # {} \/ (request.step = "do" /\ route.does # <<>>)
    <2>1. request.extent \in {"own", "all"} => EntitledTo(request.extent)
      BY DEF Righted
    <2>2. ASSUME NEW e \in {"own", "all"}, request'.extent = e
          PROVE  EntitledTo(e)'
      BY <1>3, <2>1, <2>2, EntitledStays DEF SameFound
    <2>3. request'.extent \in {"own", "all"} => EntitledTo(request.extent)'
      BY <2>2 DEF EntitledTo
    <2> QED BY <1>1, <1>3, <2>3 DEF Righted, SameFound
  <1>4. CASE AuthMiddleware \/ LookupFails \/ ListingFails \/ Find
    BY <1>2, <1>4, AuthMoves, LookupFailsMoves, ListingFailsMoves, FindMoves
    DEF Shape, SameWork, SameFound
  <1>5. CASE Gate
    <2>1. /\ request.step = "gate" /\ request'.ctx = request.ctx /\ request'.did = {}
          /\ request.extent = "refused"
          /\ \/ request'.step = "over" /\ request'.extent = request.extent
             \/ LetIn[route.gate] /\ ReachesHome /\ request'.extent = Extent
      BY <1>5, GateMoves DEF Shape, SameWork
    <2>2. CASE request'.step = "over" /\ request'.extent = request.extent
      BY <1>2, <2>1, <2>2
    <2>3. CASE LetIn[route.gate] /\ ReachesHome /\ request'.extent = Extent
      <3>1. /\ Extent \in {"own", "all"} => EntitledTo(Extent)
            /\ route.does # <<>> => Extent \in {"own", "all"}
        BY <2>1, <2>3, GatesEntitle
      <3>2. ASSUME NEW e \in {"own", "all"}, request'.extent = e
            PROVE  EntitledTo(e)'
        BY <2>1, <2>3, <3>1, <3>2, EntitledStays
      <3>3. request'.extent \in {"own", "all"} => EntitledTo(request.extent)'
        BY <3>2 DEF EntitledTo
      <3>4. route'.does # <<>> => request'.extent \in {"own", "all"}
        BY <1>1, <2>3, <3>1
      <3> QED BY <2>1, <3>3, <3>4 DEF Righted
    <2> QED BY <2>1, <2>2, <2>3
  <1>6. CASE Look \/ ScanPool \/ ScanMode \/ ScanIds
    BY <1>3, <1>6, LookMoves, ScanPoolMoves, ScanModeMoves, ScanIdsMoves DEF SameWork
  <1>7. CASE Do
    <2>1. request.step = "do" /\ SameFound /\ request.n \in 1 .. Len(route.does)
      BY <1>7, DoMoves
    <2>2. route.does # <<>>
      BY <2>1, RouteFacts
    <2> QED BY <1>3, <2>1, <2>2
  <1>8. CASE DoMissing \/ DoFails \/ Answer
    BY <1>3, <1>8, DoMissingMoves, DoFailsMoves, AnswerMoves DEF SameWork
  <1>9. CASE Abandon
    BY <1>3, <1>9, AbandonMoves DEF SameWork
  <1>10. CASE UNCHANGED request
    BY <1>3, <1>10 DEF SameFound
  <1> QED
    BY <1>4, <1>5, <1>6, <1>7, <1>8, <1>9, <1>10, StepCases, InsertAuditMoves,
       ChangeRoleMoves, OtherWriteMoves, OtherDeleteMoves, SetPoolMoves, SetAccessMoves
    DEF vars

LEMMA PlacingInit == Init => Placing
  BY AuditInit

\* What is done to a row of Home, shown of it, or done to the gateway's configuration, is
\* done for a caller that had the right to it during the request, for each of the handlers,
\* gates, roles, key scopes and deployments (require_org_perm, authorize_key and the rest),
\* and a single tenant's user whose memberships could not be listed acts by its own rank.
THEOREM RightsHold == Spec => []ActedWithRights
  <1> DEFINE RightsInv == TypeOK /\ Shape /\ Ranked /\ Placing /\ Righted
  <1>1. Init => RightsInv
    BY TypedInit, ShapeInit, RankedInit, PlacingInit, RightedInit
  <1>2. RightsInv /\ [Next]_vars => RightsInv'
    BY StepKeeps, ShapeNext, RankedNext, PlacingNext, RightedNext
  <1>3. RightsInv => ActedWithRights
    <2> SUFFICES ASSUME RightsInv,
                        request.did # {} \/ (request.answer = "ok" /\ request.extent \in {"own", "all"})
                 PROVE  IF ActsOn = "platform" THEN RightOnGateway ELSE RightAtHome
      BY DEF ActedWithRights, Acted
    <2>1. EntitledTo(request.extent)
      BY DEF Righted
    <2>2. request.did \subseteq 1 .. Len(route.does)
      BY DEF Shape
    <2>3. CASE ActsOn = "platform"
      BY <2>1, <2>3 DEF EntitledTo
    <2>4. CASE ActsOn # "platform"
      BY <2>1, <2>2, <2>4 DEF EntitledTo, RightAtHome
    <2> QED BY <2>3, <2>4
  <1> QED
    BY <1>1, <1>2, <1>3, PTL DEF Spec
=============================================================================

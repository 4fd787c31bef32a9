--------------------------- MODULE IdentityProofs ---------------------------
(***************************************************************************)
(* Safety of Identity for every number of users, tenants and calls.  Four  *)
(* facts rest on one invariant (IInv): rows are only written, by Write, at *)
(* a place at which the call has met everybody who has the document it     *)
(* writes (Checked); a call for someone barred, or with a session that has *)
(* ended, is still before the check that stops it (Stopped); and a session *)
(* carries the number of the call that opened it, which no other call has  *)
(* (Numbered), so that a session that has ended is not opened again.       *)
(***************************************************************************)
EXTENDS Identity, TLAPS

\* What the calls carry.
Body   == [open : Fields.open, email : Fields.email, doc : Fields.doc, role : Roles, status : Statuses]
Forms  == {[email |-> n] : n \in Names}
Places == {"idle", "current", "previous", "renew", "leave", "in", "taken", "look", "upsert", "password",
           "charge", "session", "child", "read", "check", "rewrite", "find", "compare", "token",
           "active", "member", "announce"}
Ops    == {"ensure", "register", "upsert", "dependent", "paid", "profile", "update", "login", "me",
           "admin", "rename", "retax"}
Call   == [pc : Places, op : Ops \cup {None}, n : Nat, u : Users \cup Tenants \cup {None},
           in : Body \cup Forms \cup Changes \cup Taxes \cup {None}, new : User \cup Row \cup {None},
           guardian : Users \cup {None}, at : Nat, met : SUBSET Users, dead : BOOLEAN, barred : BOOLEAN,
           late : BOOLEAN]

\* A user and the membership come together; what is public of a user is the row.
PeopleInv ==
  /\ user \in [Users -> User \cup {None}] /\ member \in [Users -> Member \cup {None}]
  /\ shown \in [Users -> User \cup {None}]
  /\ \A u \in Users : user[u] = None <=> member[u] = None
  /\ \A u \in Made : u \notin apart => shown[u] \in {user[u], None}

\* Users who are barred have no active membership.
BarredInv == \A u \in barred : u \in Made /\ member[u].status # "ACTIVE"

\* A session that has ended is none any more, and its number is that of a call.
AccessInv ==
  /\ credential \subseteq Made /\ session \cup ended \subseteq (1 .. MaxCalls) \X Made
  /\ session \cap ended = {}
  /\ \A s \in session \cup ended : s[1] <= calls

\* Commercial profiles are those of tenants; what was announced last is current.
Public == [row : Row, data : Taxes]
Event  == [name : Names, status : Standings, data : Taxes]
ShowsTenant(t) ==
  event[t] # None => /\ event[t].data = profile[t]
                     /\ asset[t][event[t].name].data = profile[t]
                     /\ asset[t][event[t].name].row.status = event[t].status
                     /\ t \notin moved => asset[t][event[t].name].row = tenant[t]
FirmsInv ==
  /\ tenant \in [Tenants -> Row \cup {None}] /\ profile \in [Tenants -> Taxes \cup {None}]
  /\ asset \in [Tenants -> [Names -> Public \cup {None}]]
  /\ event \in [Tenants -> Event \cup {None}]
  /\ \A t \in Tenants : /\ tenant[t] = None => profile[t] = None
                        /\ ShowsTenant(t)

\* Who is about to announce a tenant carries its row, or one that is known to be old.
Aware(c) ==
  LET k == call[c] IN
  k.pc = "announce" =>
    /\ k.u \in Tenants /\ tenant[k.u] # None /\ k.new \in Row /\ k.in \in Taxes
    /\ k.op \in {"retax", "rename"} /\ (k.op = "retax" /\ ~ k.late => k.new = tenant[k.u])

\* What a call carries at each of its places.
Carries(c) ==
  LET k == call[c] IN
  /\ k.pc \in {"current", "previous", "renew"} =>
       k.at \in 0 .. 1 /\ (k.op \in {"register", "upsert"} => k.in \in Body)
  /\ k.pc \in {"taken", "look", "upsert"} => k.in \in Body
  /\ k.pc = "upsert" => k.u \in Made \cup {None}
  /\ k.pc \in {"password", "charge", "session", "child", "read", "check", "rewrite", "compare",
               "token", "active", "member"} => k.u \in Made
  /\ k.pc \in {"child", "read"} => k.in \in Changes
  /\ k.pc \in {"check", "rewrite"} => k.new \in User
  /\ Aware(c)

\* The document that a call is about to write, and whose row it is.
Bears(c) == IF call[c].pc = "upsert" THEN call[c].in.doc ELSE call[c].new.doc

\* Nobody else has that document except users whom the call has met since it checked.
Checked(c) ==
  call[c].pc \in {"upsert", "rewrite"} /\ Bears(c) # None =>
    \A v \in Made \ {call[c].u} : user[v].doc = Bears(c) => v \in call[c].met

\* A call for a barred user is before the check of the membership; one with a session
\* that had ended is before the check of the session.
Stopped(c) ==
  /\ call[c].barred => call[c].pc \in {"active", "member"} /\ call[c].op = "admin" /\ call[c].u \in barred
  /\ call[c].dead => call[c].pc = "token" /\ <<call[c].at, call[c].u>> \in ended

\* The number of a call is its own, and no session has it yet.
Numbered(c) ==
  call[c].pc # "idle" =>
    /\ call[c].n \in 1 .. calls
    /\ \A s \in session \cup ended : s[1] # call[c].n
    /\ \A d \in Calls \ {c} : call[d].pc # "idle" => call[d].n # call[c].n

CallInv == /\ call \in [Calls -> Call] /\ calls \in 0 .. MaxCalls
           /\ \A c \in Calls : Carries(c) /\ Checked(c) /\ Stopped(c) /\ Numbered(c)

IInv == /\ platform \in [current : 0 .. 2, previous : 0 .. 1]
        /\ PeopleInv /\ BarredInv /\ AccessInv /\ FirmsInv /\ CallInv /\ DocumentsApart
-----------------------------------------------------------------------------
(* Rows and calls *)

\* A new status or role leaves a row a row, and a membership a membership ...
LEMMA StatusEdited ==
  ASSUME NEW row \in User, NEW m \in Member, NEW s \in Statuses
  PROVE  /\ [row EXCEPT !.status = s] \in User /\ [row EXCEPT !.status = s].doc = row.doc
         /\ [m EXCEPT !.status = MemberStatus(s)] \in Member
         /\ [m EXCEPT !.status = MemberStatus(s)].status = MemberStatus(s)
<1>1. MemberStatus(s) \in {"ACTIVE", "SUSPENDED", "REMOVED"}
  BY DEF MemberStatus, Statuses
<1> QED
  BY <1>1 DEF User, Fields, Member

LEMMA RoleEdited ==
  ASSUME NEW row \in User, NEW m \in Member, NEW r \in Roles
  PROVE  /\ [row EXCEPT !.role = r] \in User /\ [row EXCEPT !.role = r].doc = row.doc
         /\ [m EXCEPT !.role = MemberRole(r)] \in Member
         /\ [m EXCEPT !.role = MemberRole(r)].status = m.status
<1>1. MemberRole(r) \in {"PLATFORM_ADMIN", "MEMBER"}
  BY DEF MemberRole, Roles
<1> QED
  BY <1>1 DEF User, Fields, Member

\* ... and so do the fields that an update lays on it.
LEMMA RowLaid ==
  ASSUME NEW row \in User, NEW x \in Changes
  PROVE  [f \in DOMAIN row |-> IF f \in DOMAIN x THEN x[f] ELSE row[f]] \in User
<1> DEFINE D == {"open", "email", "doc", "role", "status", "guardian"}
<1>1. DOMAIN row = D /\ DOMAIN Fields = D
  BY DEF User, Fields
<1>2. \A f \in D : row[f] \in Fields[f]
  BY DEF User, Fields
<1>3. \A f \in DOMAIN x : x[f] \in Fields[f]
  BY ChangesAssumption
<1> DEFINE new == [f \in DOMAIN row |-> IF f \in DOMAIN x THEN x[f] ELSE row[f]]
<1>4. DOMAIN new = D /\ \A f \in D : new[f] \in Fields[f]
  BY <1>1, <1>2, <1>3
<1>5. new = [f \in D |-> new[f]]
  BY <1>1
<1> HIDE DEF new
<1>6. new = [open |-> new.open, email |-> new.email, doc |-> new.doc, role |-> new.role,
             status |-> new.status, guardian |-> new.guardian]
  BY <1>5
<1>7. new \in User
  BY <1>4, <1>6 DEF User
<1> QED
  BY <1>7 DEF new

LEMMA MembershipType ==
  ASSUME NEW row \in User
  PROVE  Membership(row) \in Member
BY DEF User, Fields, Member, Membership, MemberRole, MemberStatus, Roles, Statuses

LEMMA IdleCall == Idle \in Call /\ Idle.pc = "idle" /\ ~ Idle.barred /\ ~ Idle.dead /\ ~ Idle.late
BY DEF Idle, Call, Places

\* Steps of a call at which no row is written.
Alone(c)  == \A d \in Calls \ {c} : call'[d] = call[d]
Reads     == /\ UNCHANGED <<people, session, ended, firms>> /\ credential' \subseteq Made
             /\ platform' \in [current : 0 .. 2, previous : 0 .. 1]
Facts(c)  == Carries(c) /\ Checked(c) /\ Stopped(c)

LEMMA OnlyReads ==
  ASSUME IInv, UNCHANGED <<platform, people, access, firms>>
  PROVE  Reads
BY DEF IInv, AccessInv, access, Reads

LEMMA Turned ==
  ASSUME IInv, NEW c \in Calls, Alone(c), Reads, call' \in [Calls -> Call],
         calls' \in calls .. MaxCalls, Facts(c)', Numbered(c)'
  PROVE  IInv'
<1>1. calls \in 0 .. MaxCalls /\ calls' \in 0 .. MaxCalls /\ calls <= calls'
  BY DEF IInv, CallInv
<1>2. /\ platform' \in [current : 0 .. 2, previous : 0 .. 1]
      /\ PeopleInv' /\ BarredInv' /\ FirmsInv' /\ DocumentsApart'
  BY DEF IInv, Reads, people, firms, PeopleInv, BarredInv, FirmsInv, ShowsTenant, DocumentsApart, Made
<1>3. AccessInv'
  <2>1. \A s \in session \cup ended : s[1] \in Nat
    BY DEF IInv, AccessInv
  <2> QED
    BY <1>1, <2>1 DEF IInv, Reads, people, access, AccessInv, Made
<1>4. ASSUME NEW d \in Calls \ {c} PROVE Facts(d)' /\ Numbered(d)'
  <2>1. call'[d] = call[d] /\ Carries(d) /\ Checked(d) /\ Stopped(d) /\ Numbered(d)
    BY DEF Alone, IInv, CallInv
  <2>2. Carries(d)'
    BY <2>1 DEF Carries, Aware, Reads, people, firms, Made
  <2>3. Checked(d)'
    BY <2>1 DEF Checked, Bears, Reads, people, Made
  <2>4. Stopped(d)'
    BY <2>1 DEF Stopped, Reads, people, access
  <2>5. Numbered(d)'
    <3> SUFFICES ASSUME call[d].pc # "idle"
                 PROVE  /\ call[d].n \in 1 .. calls'
                        /\ \A s \in session \cup ended : s[1] # call[d].n
                        /\ \A e \in Calls \ {d} : call'[e].pc # "idle" => call'[e].n # call[d].n
      BY <2>1 DEF Numbered, Reads, access
    <3>1. /\ call[d].n \in 1 .. calls
          /\ \A s \in session \cup ended : s[1] # call[d].n
          /\ \A e \in Calls \ {d} : call[e].pc # "idle" => call[e].n # call[d].n
      BY <2>1 DEF Numbered
    <3>2. call[d].n \in 1 .. calls'
      BY <1>1, <3>1
    <3>3. call'[c].pc # "idle" => call'[c].n # call[d].n
      BY <2>1 DEF Numbered
    <3> QED
      BY <3>1, <3>2, <3>3 DEF Alone
  <2> QED
    BY <2>2, <2>3, <2>4, <2>5 DEF Facts
<1>5. CallInv'
  BY <1>1, <1>4 DEF CallInv, Facts
<1> QED
  BY <1>2, <1>3, <1>5 DEF IInv

\* A call goes on under the number it has.
LEMMA GoesOn ==
  ASSUME IInv, NEW c \in Calls, Alone(c), Reads, UNCHANGED calls, call' \in [Calls -> Call],
         call'[c].pc # "idle" => call[c].pc # "idle" /\ call'[c].n = call[c].n, Facts(c)'
  PROVE  IInv'
<1>1. calls' \in calls .. MaxCalls
  BY DEF IInv, CallInv
<1>2. Numbered(c)'
  BY DEF IInv, CallInv, Numbered, Reads, access, Alone
<1> QED
  BY <1>1, <1>2, Turned

\* A call ends.
LEMMA Ends ==
  ASSUME IInv, NEW c \in Calls, End(c), Reads, UNCHANGED calls
  PROVE  IInv'
<1>1. Alone(c) /\ call' \in [Calls -> Call] /\ call'[c] = Idle
  BY IdleCall DEF IInv, CallInv, End, Alone
<1>2. Facts(c)'
  BY <1>1 DEF Idle, Facts, Carries, Aware, Checked, Stopped
<1> QED
  BY <1>1, <1>2, IdleCall, GoesOn

\* A call begins, under a number that was not used before.
LEMMA Begins ==
  ASSUME IInv, NEW c \in Calls, NEW pc \in Places, NEW op \in Ops, NEW rest \in Call,
         Begin(c, pc, op, rest), Facts(c)'
  PROVE  IInv'
<1>1. /\ call[c].pc = "idle" /\ calls \in 0 .. MaxCalls /\ calls < MaxCalls /\ calls' = calls + 1
      /\ call \in [Calls -> Call] /\ Reads
      /\ call' = [call EXCEPT ![c] = [rest EXCEPT !.pc = pc, !.op = op, !.n = calls + 1]]
  BY OnlyReads DEF Begin, IInv, CallInv
<1>2. [rest EXCEPT !.pc = pc, !.op = op, !.n = calls + 1] \in Call
  <2>1. calls + 1 \in Nat
    BY <1>1
  <2> QED
    BY <2>1 DEF Call
<1>3. Alone(c) /\ call' \in [Calls -> Call] /\ call'[c].n = calls + 1
  BY <1>1, <1>2 DEF Alone, Call
<1>4. calls' \in calls .. MaxCalls
  <2>1. MaxCalls \in Nat
    BY IdentityAssumption
  <2> QED
    BY <1>1, <2>1
<1>5. Numbered(c)'
  <2>1. \A s \in session \cup ended : s[1] \in Nat /\ s[1] <= calls
    BY DEF IInv, AccessInv
  <2>2. \A d \in Calls \ {c} : call[d].pc # "idle" => call[d].n \in 1 .. calls
    BY DEF IInv, CallInv, Numbered
  <2>3. \A m \in Nat : m <= calls => m # calls + 1
    BY <1>1
  <2>4. calls + 1 \in 1 .. calls'
    BY <1>1
  <2>5. \A s \in session' \cup ended' : s[1] # calls + 1
    BY <1>1, <2>1, <2>3 DEF Reads, access
  <2>6. \A d \in Calls \ {c} : call'[d].pc # "idle" => call'[d].n # calls + 1
    BY <1>1, <1>3, <2>2, <2>3 DEF Alone
  <2> QED
    BY <1>3, <2>4, <2>5, <2>6 DEF Numbered
<1> QED
  BY <1>1, <1>3, <1>4, <1>5, Turned

\* What a call begins with.
LEMMA Opening ==
  ASSUME IInv, NEW c \in Calls, NEW pc \in Places, NEW op \in Ops, NEW rest \in Call,
         Begin(c, pc, op, rest)
  PROVE  /\ call'[c].pc = pc /\ call'[c].op = op /\ call'[c].u = rest.u /\ call'[c].in = rest.in
         /\ call'[c].new = rest.new /\ call'[c].at = rest.at /\ call'[c].met = rest.met
         /\ call'[c].dead = rest.dead /\ call'[c].barred = rest.barred /\ call'[c].late = rest.late
         /\ UNCHANGED <<platform, people, access, firms>>
<1>1. /\ call \in [Calls -> Call]
      /\ call' = [call EXCEPT ![c] = [rest EXCEPT !.pc = pc, !.op = op, !.n = calls + 1]]
      /\ UNCHANGED <<platform, people, access, firms>>
  BY DEF Begin, IInv, CallInv
<1>2. call'[c] = [rest EXCEPT !.pc = pc, !.op = op, !.n = calls + 1]
  BY <1>1
<1> QED
  BY <1>1, <1>2 DEF Call
-----------------------------------------------------------------------------
(* Writing a row *)

\* What Write needs to know of the row: whoever has its document was met.
LEMMA Written ==
  ASSUME IInv, NEW c \in Calls, NEW u \in Users, NEW row \in User,
         NEW then \in {"idle", "password", "charge"},
         Write(c, u, row, then), then # "idle" => call[c].pc = "upsert",
         call[c].barred => call[c].pc # "upsert", call[c].dead => call[c].pc # "upsert",
         row.doc # None => \A v \in Made \ {u} : user[v].doc = row.doc => {u, v} \in mates',
         member' \in [Users -> Member \cup {None}], member'[u] \in Member,
         \A v \in Users \ {u} : member'[v] = member[v],
         \A v \in barred' : v \in barred \cup {u},
         u \in barred' => member'[u].status # "ACTIVE",
         UNCHANGED <<platform, access, firms>>, calls' \in calls .. MaxCalls
  PROVE  IInv'
<1>1. calls \in 0 .. MaxCalls /\ calls' \in 0 .. MaxCalls /\ calls <= calls'
  BY DEF IInv, CallInv
<1>2. /\ user' = [user EXCEPT ![u] = row] /\ shown' = [shown EXCEPT ![u] = row] /\ apart' = apart \ {u}
      /\ user \in [Users -> User \cup {None}] /\ shown \in [Users -> User \cup {None}]
  BY DEF Write, IInv, PeopleInv
<1>3. /\ row # None /\ \A m \in Member : m # None
      /\ Made' = Made \cup {u} /\ user'[u] = row /\ \A v \in Users \ {u} : user'[v] = user[v]
      /\ Made \subseteq Users
  BY <1>2, ChangesAssumption DEF Made
<1>4. PeopleInv'
  <2>1. \A v \in Users : user'[v] = None <=> member'[v] = None
    BY <1>3 DEF IInv, PeopleInv
  <2>2. \A v \in Made' : v \notin apart' => shown'[v] \in {user'[v], None}
    BY <1>2, <1>3 DEF IInv, PeopleInv
  <2> QED
    BY <1>2, <2>1, <2>2 DEF PeopleInv
<1>5. BarredInv'
  BY <1>3 DEF IInv, BarredInv, Made
<1>6. AccessInv'
  <2>1. \A s \in session \cup ended : s[1] \in Nat
    BY DEF IInv, AccessInv
  <2> QED
    BY <1>1, <1>3, <2>1 DEF IInv, AccessInv, access
<1>7. FirmsInv' /\ platform' \in [current : 0 .. 2, previous : 0 .. 1]
  BY DEF IInv, FirmsInv, ShowsTenant, firms
<1>8. DocumentsApart'
  <2> SUFFICES ASSUME NEW v \in Made', NEW w \in Made', v # w, user'[v].doc # None,
                      user'[v].doc = user'[w].doc
               PROVE  {v, w} \in mates'
    BY DEF DocumentsApart
  <2>1. mates \subseteq mates'
    BY DEF Write
  <2>2. CASE v = u
    BY <1>3, <2>2
  <2>3. CASE w = u
    <3>1. {w, v} \in mates'
      BY <1>3, <2>3
    <3> QED
      BY <3>1
  <2>4. CASE v # u /\ w # u
    BY <1>3, <2>1, <2>4 DEF IInv, DocumentsApart
  <2> QED
    BY <2>2, <2>3, <2>4
<1>9. /\ call'[c] = (IF then = "idle" THEN Idle ELSE [call[c] EXCEPT !.pc = then, !.u = u, !.met = {}])
      /\ \A d \in Calls \ {c} : call'[d] =
           [call[d] EXCEPT !.met = IF call[d].pc \in {"upsert", "rewrite"} THEN @ \cup {u} ELSE @,
                           !.barred = @ /\ call[d].u \notin (barred \ barred')]
      /\ call' = [d \in Calls |-> call'[d]]
  BY DEF Write
<1>10. call'[c] \in Call
  <2>1. [call[c] EXCEPT !.pc = then, !.u = u, !.met = {}] \in Call
    <3>1. call[c] \in Call
      BY DEF IInv, CallInv
    <3> QED
      BY <3>1 DEF Call, Places
  <2> QED
    BY <1>9, <2>1, IdleCall
<1>11. ASSUME NEW d \in Calls \ {c}
       PROVE  /\ call'[d] \in Call
              /\ call'[d].pc = call[d].pc /\ call'[d].op = call[d].op /\ call'[d].n = call[d].n
              /\ call'[d].u = call[d].u /\ call'[d].in = call[d].in /\ call'[d].new = call[d].new
              /\ call'[d].at = call[d].at /\ call'[d].dead = call[d].dead
              /\ call'[d].late = call[d].late
              /\ call[d].met \subseteq call'[d].met
              /\ call[d].pc \in {"upsert", "rewrite"} => u \in call'[d].met
              /\ call'[d].barred => call[d].barred /\ call[d].u \notin (barred \ barred')
  <2> DEFINE met == IF call[d].pc \in {"upsert", "rewrite"} THEN call[d].met \cup {u} ELSE call[d].met
             bar == call[d].barred /\ call[d].u \notin (barred \ barred')
  <2>1. call[d] \in Call
    BY DEF IInv, CallInv
  <2>2. met \in SUBSET Users /\ bar \in BOOLEAN
    BY <2>1 DEF Call
  <2>3. call'[d] = [call[d] EXCEPT !.met = met, !.barred = bar]
    BY <1>9
  <2>4. call'[d].met = met /\ (call'[d].barred <=> bar)
    <3> HIDE DEF met, bar
    <3> QED
      BY <2>1, <2>2, <2>3 DEF Call
  <2>5. /\ call'[d] \in Call
        /\ call'[d].pc = call[d].pc /\ call'[d].op = call[d].op /\ call'[d].n = call[d].n
        /\ call'[d].u = call[d].u /\ call'[d].in = call[d].in /\ call'[d].new = call[d].new
        /\ call'[d].at = call[d].at /\ call'[d].dead = call[d].dead
        /\ call'[d].late = call[d].late
    <3> HIDE DEF met, bar
    <3> QED
      BY <2>1, <2>2, <2>3 DEF Call
  <2> QED
    BY <2>4, <2>5
<1>12. call' \in [Calls -> Call]
  BY <1>9, <1>10, <1>11
<1>13. ASSUME NEW d \in Calls \ {c} PROVE Carries(d)' /\ Checked(d)' /\ Stopped(d)'
  <2> DEFINE k == call[d]
  <2>1. /\ call'[d].pc = k.pc /\ call'[d].op = k.op /\ call'[d].u = k.u /\ call'[d].in = k.in
        /\ call'[d].new = k.new /\ call'[d].at = k.at /\ call'[d].dead = k.dead
        /\ call'[d].late = k.late
    BY <1>11
  <2>2. Carries(d) /\ Checked(d) /\ Stopped(d)
    BY DEF IInv, CallInv
  <2>3. Carries(d)'
    BY <1>3, <2>1, <2>2 DEF Carries, Aware, firms
  <2>4. Checked(d)'
    <3> SUFFICES ASSUME k.pc \in {"upsert", "rewrite"}, Bears(d) # None, NEW v \in Made',
                        v # k.u, user'[v].doc = Bears(d)
                 PROVE  v \in call'[d].met
      BY <2>1 DEF Checked, Bears
    <3>1. CASE v = u
      BY <1>11, <3>1
    <3>2. CASE v # u
      BY <1>3, <1>11, <2>2, <3>2 DEF Checked
    <3> QED
      BY <3>1, <3>2
  <2>5. Stopped(d)'
    BY <1>11, <2>1, <2>2 DEF Stopped, access
  <2> QED
    BY <2>3, <2>4, <2>5
<1>14. Carries(c)' /\ Checked(c)' /\ Stopped(c)'
  <2>1. CASE then = "idle"
    <3>1. call'[c] = Idle
      BY <1>9, <2>1
    <3> QED
      BY <3>1 DEF Idle, Carries, Aware, Checked, Stopped
  <2>2. CASE then # "idle"
    <3>1. /\ call'[c].pc \in {"password", "charge"} /\ call'[c].u = u
          /\ call'[c].barred = call[c].barred /\ call'[c].dead = call[c].dead
          /\ call[c].barred \in BOOLEAN /\ call[c].dead \in BOOLEAN
      <4>1. call[c] \in Call
        BY DEF IInv, CallInv
      <4>2. call'[c] = [call[c] EXCEPT !.pc = then, !.u = u, !.met = {}]
        BY <1>9, <2>2
      <4> QED
        BY <2>2, <4>1, <4>2 DEF Call
    <3>2. ~ call'[c].barred /\ ~ call'[c].dead
      BY <2>2, <3>1
    <3> QED
      BY <1>3, <3>1, <3>2 DEF Carries, Aware, Checked, Stopped
  <2> QED
    BY <2>1, <2>2
<1>15. /\ call'[c].pc # "idle" => call[c].pc # "idle" /\ call'[c].n = call[c].n
       /\ \A d \in Calls \ {c} : call'[d].pc = call[d].pc /\ call'[d].n = call[d].n
  <2>1. CASE then = "idle"
    BY <1>9, <1>11, <2>1, IdleCall
  <2>2. CASE then # "idle"
    <3>1. call[c] \in Call
      BY DEF IInv, CallInv
    <3>2. call'[c].n = call[c].n
      BY <1>9, <2>2, <3>1 DEF Call
    <3> QED
      BY <1>11, <2>2, <3>2
  <2> QED
    BY <2>1, <2>2
<1>16. ASSUME NEW d \in Calls PROVE Numbered(d)'
  <2> SUFFICES ASSUME call'[d].pc # "idle"
               PROVE  /\ call'[d].n \in 1 .. calls'
                      /\ \A s \in session \cup ended : s[1] # call'[d].n
                      /\ \A e \in Calls \ {d} : call'[e].pc # "idle" => call'[e].n # call'[d].n
    BY DEF Numbered, access
  <2>1. call[d].pc # "idle" /\ call'[d].n = call[d].n
    BY <1>15
  <2>2. /\ call[d].n \in 1 .. calls
        /\ \A s \in session \cup ended : s[1] # call[d].n
        /\ \A e \in Calls \ {d} : call[e].pc # "idle" => call[e].n # call[d].n
    BY <2>1 DEF IInv, CallInv, Numbered
  <2>3. call'[d].n \in 1 .. calls'
    BY <1>1, <2>1, <2>2
  <2> QED
    BY <1>15, <2>1, <2>2, <2>3
<1>17. CallInv'
  BY <1>1, <1>12, <1>13, <1>14, <1>16 DEF CallInv
<1> QED
  BY <1>4, <1>5, <1>6, <1>7, <1>8, <1>17 DEF IInv
-----------------------------------------------------------------------------
(* The steps *)

\* What holds of a call before its step.
LEMMA CallTypes ==
  ASSUME IInv, NEW c \in Calls
  PROVE  call[c] \in Call /\ Facts(c) /\ call \in [Calls -> Call] /\ calls \in 0 .. MaxCalls
BY DEF IInv, CallInv, Facts

\* Going on to another place.
LEMMA WentOn ==
  ASSUME IInv, NEW c \in Calls, NEW pc \in Places, Go(c, pc)
  PROVE  /\ Alone(c) /\ call' \in [Calls -> Call]
         /\ call'[c] = [call[c] EXCEPT !.pc = pc]
         /\ call'[c].pc = pc /\ call'[c].op = call[c].op /\ call'[c].n = call[c].n
         /\ call'[c].u = call[c].u /\ call'[c].in = call[c].in /\ call'[c].new = call[c].new
         /\ call'[c].at = call[c].at /\ call'[c].dead = call[c].dead
         /\ call'[c].barred = call[c].barred /\ call'[c].met = call[c].met
<1>1. call[c] \in Call /\ call \in [Calls -> Call]
  BY CallTypes
<1>2. call' = [call EXCEPT ![c] = [call[c] EXCEPT !.pc = pc]]
  BY DEF Go
<1>3. [call[c] EXCEPT !.pc = pc] \in Call
  BY <1>1 DEF Call
<1>4. call'[c] = [call[c] EXCEPT !.pc = pc]
  BY <1>1, <1>2
<1> QED
  BY <1>1, <1>2, <1>3, <1>4 DEF Alone, Call

\* ensureBootstrapPlatformAdmin, and calls whose server dies.
LEMMA PlatformSteps ==
  ASSUME IInv, NEW c \in Calls, Platform(c)
  PROVE  IInv'
<1>1. CASE FindCurrent(c)
  <2>1. PICK pc \in {"renew", "previous"} : Go(c, pc)
    BY <1>1 DEF FindCurrent
  <2>2. pc \in Places
    BY DEF Places
  <2>3. Facts(c)'
    BY <1>1, <2>1, <2>2, WentOn, CallTypes DEF FindCurrent, At, Facts, Carries, Aware, Checked, Stopped
  <2> QED
    BY <1>1, <2>1, <2>2, <2>3, WentOn, GoesOn, OnlyReads DEF FindCurrent, At
<1>2. CASE FindPrevious(c)
  <2>1. /\ call[c].pc = "previous" /\ call[c] \in Call /\ Facts(c) /\ call \in [Calls -> Call]
        /\ call' = [call EXCEPT ![c] = [call[c] EXCEPT !.pc = "renew", !.at = platform.previous]]
        /\ platform.previous \in 0 .. 1 /\ Reads /\ UNCHANGED calls
    BY <1>2, CallTypes, OnlyReads DEF FindPrevious, At, IInv
  <2>2. call'[c] \in Call /\ Alone(c) /\ call' \in [Calls -> Call]
    <3>1. platform.previous \in Nat
      BY <2>1
    <3>2. [call[c] EXCEPT !.pc = "renew", !.at = platform.previous] \in Call
      BY <2>1, <3>1 DEF Call, Places
    <3> QED
      BY <2>1, <3>2 DEF Alone
  <2>3. /\ call'[c].pc = "renew" /\ call'[c].at = platform.previous /\ call'[c].op = call[c].op
        /\ call'[c].n = call[c].n /\ call'[c].in = call[c].in
        /\ call'[c].barred = call[c].barred /\ call'[c].dead = call[c].dead
    BY <2>1 DEF Call
  <2>4. Facts(c)'
    BY <2>1, <2>3 DEF Facts, Carries, Aware, Checked, Stopped
  <2> QED
    BY <2>1, <2>2, <2>3, <2>4, GoesOn
<1>3. CASE Renew(c)
  <2>1. PICK pc \in {"find", "taken", "look", "leave"} :
          /\ call' = [call EXCEPT ![c] = [call[c] EXCEPT !.at = 0, !.pc = pc]]
          /\ pc \in {"taken", "look"} => call[c].op \in {"register", "upsert"}
    BY <1>3, Zenon DEF Renew
  <2>2. /\ call[c].pc = "renew" /\ call[c] \in Call /\ Facts(c) /\ call \in [Calls -> Call]
        /\ UNCHANGED <<people, access, firms, calls>>
    BY <1>3, CallTypes DEF Renew, At
  <2>3. call'[c] \in Call /\ Alone(c) /\ call' \in [Calls -> Call]
    <3>1. [call[c] EXCEPT !.at = 0, !.pc = pc] \in Call
      BY <2>2 DEF Call, Places
    <3> QED
      BY <2>1, <2>2, <3>1 DEF Alone
  <2>4. /\ call'[c].pc = pc /\ call'[c].op = call[c].op
        /\ call'[c].n = call[c].n /\ call'[c].in = call[c].in
        /\ call'[c].barred = call[c].barred /\ call'[c].dead = call[c].dead
    BY <2>1, <2>2 DEF Call
  <2>5. Facts(c)'
    BY <2>1, <2>2, <2>4 DEF Facts, Carries, Aware, Checked, Stopped
  <2>6. Reads
    BY <1>3, <2>2 DEF Renew, Reads, IInv, AccessInv, access, Facts, Carries
  <2> QED
    BY <2>1, <2>2, <2>3, <2>4, <2>5, <2>6, GoesOn
<1>4. CASE Leave(c) \/ Die(c)
  BY <1>4, Ends, OnlyReads DEF Leave, Die
<1>5. CASE Ensure(c)
  <2>1. Begin(c, "current", "ensure", Idle) /\ "current" \in Places /\ "ensure" \in Ops
    BY <1>5 DEF Ensure, Places, Ops
  <2>2. /\ call'[c].pc = "current" /\ call'[c].op = "ensure" /\ call'[c].at = 0
        /\ ~ call'[c].dead /\ ~ call'[c].barred
    BY <2>1, IdleCall, Opening DEF Idle
  <2>3. Facts(c)'
    BY <2>2 DEF Facts, Carries, Aware, Checked, Stopped
  <2> QED
    BY <2>1, <2>3, IdleCall, Begins
<1> QED
  BY <1>1, <1>2, <1>3, <1>4, <1>5 DEF Platform

LEMMA InputsAreBodies ==
  /\ Inputs \subseteq Body
  /\ \A n \in Names : [open |-> n, email |-> n, doc |-> None, role |-> "MEMBER", status |-> "ACTIVE"] \in Body
BY IdentityAssumption DEF Body, Fields, Roles, Statuses

\* What is not set is as in a call that does nothing.
LEMMA IdleIn ==
  ASSUME NEW i \in Body \cup Forms \cup Changes \cup Taxes \cup {None}, NEW g \in Users \cup {None},
         NEW rest \in {[Idle EXCEPT !.in = i], [Idle EXCEPT !.in = i, !.guardian = g]}
  PROVE  rest \in Call /\ rest.in = i /\ rest.at = 0 /\ ~ rest.dead /\ ~ rest.barred
<1>1. Idle \in Call /\ Idle.at = 0 /\ ~ Idle.dead /\ ~ Idle.barred
  BY IdleCall DEF Idle
<1>2. CASE rest = [Idle EXCEPT !.in = i]
  BY <1>1, <1>2 DEF Call
<1>3. CASE rest = [Idle EXCEPT !.in = i, !.guardian = g]
  BY <1>1, <1>3 DEF Call
<1> QED
  BY <1>2, <1>3

\* A call that begins with a body.
LEMMA BeginsWithBody ==
  ASSUME IInv, NEW c \in Calls, NEW pc \in {"current", "look"}, NEW op \in Ops, NEW i \in Body,
         NEW g \in Users \cup {None},
         NEW rest \in {[Idle EXCEPT !.in = i], [Idle EXCEPT !.in = i, !.guardian = g]},
         Begin(c, pc, op, rest)
  PROVE  IInv'
<1>1. /\ rest \in Call /\ rest.in = i /\ rest.at = 0 /\ ~ rest.dead /\ ~ rest.barred
  <2>1. i \in Body \cup Forms \cup Changes \cup Taxes \cup {None}
    OBVIOUS
  <2> QED
    BY <2>1, IdleIn
<1>2. pc \in Places
  BY DEF Places
<1>3. /\ call'[c].pc = pc /\ call'[c].in = rest.in /\ call'[c].at = rest.at
      /\ call'[c].dead = rest.dead /\ call'[c].barred = rest.barred
  BY <1>1, <1>2, Opening
<1>4. Facts(c)'
  BY <1>1, <1>3 DEF Facts, Carries, Aware, Checked, Stopped
<1> QED
  BY <1>1, <1>2, <1>4, Begins

\* The row that an upsert writes.
LEMMA UpsertedType ==
  ASSUME IInv, NEW c \in Calls, call[c].pc = "upsert"
  PROVE  Upserted(c) \in User /\ Upserted(c).doc = call[c].in.doc
<1>1. call[c] \in Call /\ call[c].in \in Body /\ call[c].u \in Made \cup {None}
  BY CallTypes DEF Facts, Carries
<1>2. call[c].u # None => user[call[c].u] \in User
  BY <1>1 DEF IInv, PeopleInv, Made
<1>3. /\ call[c].in.open \in Fields.open /\ call[c].in.email \in Fields.email
      /\ call[c].in.doc \in Fields.doc /\ call[c].in.role \in Roles /\ call[c].in.status \in Statuses
  BY <1>1 DEF Body
<1>4. call[c].guardian \in Users \cup {None}
  BY <1>1 DEF Call
<1>5. \A r \in User : r.guardian \in Users \cup {None}
  BY DEF User, Fields
<1> DEFINE role == IF call[c].guardian # None THEN "DEPENDENT" ELSE call[c].in.role
           old == IF call[c].u = None THEN None ELSE user[call[c].u]
           guardian == IF call[c].guardian # None \/ old = None THEN call[c].guardian ELSE old.guardian
<1>6. role \in Roles /\ guardian \in Users \cup {None}
  BY <1>2, <1>3, <1>4, <1>5 DEF Roles
<1>7. Upserted(c) = [open |-> call[c].in.open, email |-> call[c].in.email, doc |-> call[c].in.doc,
                     status |-> call[c].in.status, role |-> role, guardian |-> guardian]
  BY DEF Upserted
<1> HIDE DEF role, guardian
<1>8. Fields.role = Roles /\ Fields.status = Statuses /\ Fields.guardian = Users \cup {None}
  BY DEF Fields
<1> QED
  BY <1>3, <1>6, <1>7, <1>8 DEF User

\* A call whose transaction writes met everybody who has its document.
LEMMA MetThem ==
  ASSUME IInv, NEW c \in Calls, NEW u \in Users, NEW row, NEW then, Write(c, u, row, then),
         call[c].pc \in {"upsert", "rewrite"}, call[c].u \in {None, u}, row.doc = Bears(c)
  PROVE  row.doc # None => \A v \in Made \ {u} : user[v].doc = row.doc => {u, v} \in mates'
<1> SUFFICES ASSUME row.doc # None, NEW v \in Made \ {u}, user[v].doc = row.doc
             PROVE  {u, v} \in mates'
  OBVIOUS
<1>1. v \in Made \ {call[c].u}
  BY IdentityAssumption DEF Made
<1>2. v \in call[c].met
  BY <1>1, CallTypes DEF Facts, Checked
<1> QED
  BY <1>2 DEF Write

\* Who writes a row is past the checks that bar a user.
LEMMA Unbarred ==
  ASSUME IInv, NEW c \in Calls, call[c].pc \in {"upsert", "rewrite"}
  PROVE  ~ call[c].barred /\ ~ call[c].dead
BY CallTypes DEF Facts, Stopped

\* upsertB2CUser, the registration around it and createDependentChild.
LEMMA UpsertingSteps ==
  ASSUME IInv, NEW c \in Calls, Upserting(c)
  PROVE  IInv'
<1>1. CASE Upsert(c)
  <2>1. PICK i \in Inputs, pc \in {"current", "look"} : Begin(c, pc, "upsert", [Idle EXCEPT !.in = i])
    BY <1>1 DEF Upsert
  <2>2. "upsert" \in Ops
    BY DEF Ops
  <2> QED
    BY <2>1, <2>2, InputsAreBodies, BeginsWithBody
<1>2. CASE Register(c)
  <2>1. PICK i \in Body : Begin(c, "current", "register", [Idle EXCEPT !.in = i])
    BY <1>2, InputsAreBodies DEF Register
  <2>2. "register" \in Ops
    BY DEF Ops
  <2> QED
    BY <2>1, <2>2, BeginsWithBody
<1>3. CASE Dependent(c)
  <2>1. PICK i \in Inputs, g \in Made, op \in {"dependent", "paid"} :
          Begin(c, "look", op, [Idle EXCEPT !.in = i, !.guardian = g])
    BY <1>3 DEF Dependent
  <2>2. op \in Ops /\ g \in Users
    BY DEF Ops, Made
  <2> QED
    BY <2>1, <2>2, InputsAreBodies, BeginsWithBody
<1>4. CASE EmailTaken(c)
  <2>1. call[c].pc = "taken" /\ UNCHANGED <<platform, people, access, firms, calls>> /\ "look" \in Places
    BY <1>4 DEF EmailTaken, At, Places
  <2>2. CASE End(c)
    BY <2>1, <2>2, Ends, OnlyReads
  <2>3. CASE Go(c, "look")
    <3>1. Facts(c)'
      BY <2>1, <2>3, WentOn, CallTypes DEF Facts, Carries, Aware, Checked, Stopped
    <3> QED
      BY <2>1, <2>3, <3>1, WentOn, GoesOn, OnlyReads
  <2> QED
    BY <1>4, <2>2, <2>3 DEF EmailTaken
<1>5. CASE Look(c)
  <2>1. call[c].pc = "look" /\ UNCHANGED <<platform, people, access, firms, calls>>
        /\ call[c] \in Call /\ call \in [Calls -> Call] /\ Facts(c)
    BY <1>5, CallTypes DEF Look, At
  <2>2. CASE End(c)
    BY <2>1, <2>2, Ends, OnlyReads
  <2>3. ASSUME NEW u \in Made \cup {None}, Available(call[c].in.doc, u),
               call' = [call EXCEPT ![c].pc = "upsert", ![c].u = u, ![c].met = {}]
        PROVE  IInv'
    <3>1. call' = [call EXCEPT ![c] = [call[c] EXCEPT !.pc = "upsert", !.u = u, !.met = {}]]
      BY <2>3
    <3>2. [call[c] EXCEPT !.pc = "upsert", !.u = u, !.met = {}] \in Call
      BY <2>1 DEF Call, Places, Made
    <3>3. call' \in [Calls -> Call] /\ Alone(c)
      BY <2>1, <3>1, <3>2 DEF Alone
    <3>4. /\ call'[c].pc = "upsert" /\ call'[c].u = u /\ call'[c].in = call[c].in /\ call'[c].n = call[c].n
          /\ call'[c].barred = call[c].barred /\ call'[c].dead = call[c].dead
      BY <2>1, <3>1 DEF Call
    <3>5. Facts(c)'
      BY <2>1, <2>3, <3>4 DEF Facts, Carries, Aware, Checked, Bears, Stopped, Available, people, Made
    <3> QED
      BY <2>1, <3>3, <3>4, <3>5, GoesOn, OnlyReads
  <2> QED
    BY <1>5, <2>2, <2>3 DEF Look, Found, ByOpen, ByDoc, ByEmail
<1>6. CASE UpsertUser(c)
  <2>1. call[c].pc = "upsert" /\ UNCHANGED <<platform, access, firms, calls>> /\ calls' \in calls .. MaxCalls
    BY <1>6, CallTypes DEF UpsertUser, At
  <2>2. CASE End(c) /\ UNCHANGED people
    BY <2>1, <2>2, Ends, OnlyReads
  <2>3. ASSUME NEW u \in Users, call[c].u \in {None, u},
               member' = [member EXCEPT ![u] = Membership(Upserted(c))],
               barred' = barred \ {u}, NEW then \in {"idle", "password", "charge"},
               Write(c, u, Upserted(c), then)
        PROVE  IInv'
    <3>1. PICK row \in User : row = Upserted(c) /\ row.doc = Bears(c)
      BY <2>1, UpsertedType DEF Bears
    <3>2. Write(c, u, row, then) /\ member' = [member EXCEPT ![u] = Membership(row)]
      BY <2>3, <3>1
    <3>3. row.doc # None => \A v \in Made \ {u} : user[v].doc = row.doc => {u, v} \in mates'
      BY <2>1, <2>3, <3>1, <3>2, MetThem
    <3>4. /\ member' \in [Users -> Member \cup {None}] /\ member'[u] \in Member
          /\ \A v \in Users \ {u} : member'[v] = member[v]
      BY <3>2, MembershipType DEF IInv, PeopleInv
    <3>5. (\A v \in barred' : v \in barred \cup {u}) /\ u \notin barred'
      BY <2>3
    <3> QED
      BY <2>1, <3>2, <3>3, <3>4, <3>5, Unbarred, Written
  <2>4. \A u \in (IF call[c].u = None THEN Users \ Made ELSE {call[c].u}) :
           u \in Users /\ call[c].u \in {None, u}
    BY <2>1, CallTypes DEF Facts, Carries, Made
  <2>5. (CASE call[c].op = "register" -> "password" [] call[c].op = "paid" -> "charge" [] OTHER -> "idle")
          \in {"idle", "password", "charge"}
    BY Zenon
  <2> QED
    BY <1>6, <2>2, <2>3, <2>4, <2>5 DEF UpsertUser
<1>7. CASE Consumed(c)
  BY <1>7, Ends, OnlyReads DEF Consumed
<1>8. CASE Compensate(c)
  <2>1. /\ call[c].pc = "charge" /\ call[c].u \in Made /\ Made \subseteq Users
        /\ user \in [Users -> User \cup {None}] /\ member[call[c].u] \in Member
    BY <1>8, CallTypes DEF Compensate, At, Facts, Carries, Made, IInv, PeopleInv
  <2>2. PICK u \in Users : u = call[c].u /\ user[u] \in User /\ member[u] \in Member
    BY <2>1 DEF Made
  <2>3. PICK row \in User : row = [user[u] EXCEPT !.status = "ARCHIVED"] /\ row.doc = user[u].doc
    <3>1. "ARCHIVED" \in Statuses
      BY DEF Statuses
    <3> QED
      BY <2>2, <3>1, StatusEdited
  <2>4. /\ user' = [user EXCEPT ![u] = row] /\ apart' = apart \cup {u} /\ End(c)
        /\ UNCHANGED <<platform, member, shown, barred, mates, access, firms, calls>>
    BY <1>8, <2>2, <2>3 DEF Compensate
  <2>5. Made' = Made /\ \A v \in Made : user'[v].doc = user[v].doc
    BY <2>1, <2>2, <2>3, <2>4, ChangesAssumption DEF Made
  <2>6. PeopleInv'
    <3>1. user' \in [Users -> User \cup {None}] /\ \A v \in Users : user'[v] = None <=> user[v] = None
      BY <2>1, <2>2, <2>4, ChangesAssumption
    <3>2. \A v \in Made' : v \notin apart' => shown'[v] \in {user'[v], None}
      BY <2>1, <2>4, <2>5 DEF IInv, PeopleInv, Made
    <3> QED
      BY <2>4, <3>1, <3>2 DEF IInv, PeopleInv
  <2>7. /\ BarredInv' /\ AccessInv' /\ FirmsInv' /\ DocumentsApart'
        /\ platform' \in [current : 0 .. 2, previous : 0 .. 1]
    BY <2>4, <2>5 DEF IInv, BarredInv, AccessInv, FirmsInv, ShowsTenant, DocumentsApart, access, firms
  <2>8. CallInv'
    <3>1. call' \in [Calls -> Call] /\ call'[c] = Idle /\ \A d \in Calls \ {c} : call'[d] = call[d]
      BY <2>4, CallTypes, IdleCall DEF End
    <3>2. ASSUME NEW d \in Calls \ {c} PROVE Carries(d)' /\ Checked(d)' /\ Stopped(d)'
      <4>1. Carries(d) /\ Checked(d) /\ Stopped(d) /\ call'[d] = call[d]
        BY <3>1 DEF IInv, CallInv
      <4> QED
        BY <2>4, <2>5, <4>1 DEF Carries, Aware, Checked, Bears, Stopped, access, firms
    <3>3. Carries(c)' /\ Checked(c)' /\ Stopped(c)'
      BY <3>1 DEF Idle, Carries, Aware, Checked, Stopped
    <3>4. ASSUME NEW d \in Calls PROVE Numbered(d)'
      BY <2>4, <3>1, IdleCall DEF IInv, CallInv, Numbered, access
    <3> QED
      BY <2>4, <3>1, <3>2, <3>3, <3>4 DEF IInv, CallInv
  <2> QED
    BY <2>6, <2>7, <2>8 DEF IInv
<1> QED
  BY <1>1, <1>2, <1>3, <1>4, <1>5, <1>6, <1>7, <1>8 DEF Upserting

\* A call about a user who is there.
LEMMA BeginsWithUser ==
  ASSUME IInv, NEW c \in Calls, NEW pc \in {"read", "child"}, NEW op \in Ops, NEW x \in Changes,
         NEW u \in Made,
         NEW g \in Users \cup {None},
         NEW rest \in {[Idle EXCEPT !.u = u, !.in = x], [Idle EXCEPT !.u = u, !.guardian = g, !.in = x]},
         Begin(c, pc, op, rest)
  PROVE  IInv'
<1>1. /\ rest \in Call /\ rest.in = x /\ rest.u = u /\ ~ rest.dead /\ ~ rest.barred
  <2>1. Idle \in Call /\ ~ Idle.dead /\ ~ Idle.barred /\ u \in Users
    BY IdleCall DEF Made
  <2>2. CASE rest = [Idle EXCEPT !.u = u, !.in = x]
    BY <2>1, <2>2 DEF Call
  <2>3. CASE rest = [Idle EXCEPT !.u = u, !.guardian = g, !.in = x]
    BY <2>1, <2>3 DEF Call
  <2> QED
    BY <2>2, <2>3
<1>2. pc \in Places
  BY DEF Places
<1>3. /\ call'[c].pc = pc /\ call'[c].in = rest.in /\ call'[c].u = rest.u
      /\ call'[c].dead = rest.dead /\ call'[c].barred = rest.barred /\ UNCHANGED user
  BY <1>1, <1>2, Opening DEF people
<1>4. Facts(c)'
  BY <1>1, <1>3 DEF Facts, Carries, Aware, Checked, Stopped, Made
<1> QED
  BY <1>1, <1>2, <1>4, Begins

\* A copy that was laid out is written back.
LEMMA Rewrites ==
  ASSUME IInv, NEW c \in Calls, call[c].pc = "rewrite"
  PROVE  /\ call[c].u \in Users /\ call[c].u \in Made
         /\ call[c].new \in User /\ call[c].new.doc = Bears(c)
BY CallTypes DEF Facts, Carries, Bears, Made

\* updateProfile, updateTenantUser, and the changes of a status or a role alone.
LEMMA EditingSteps ==
  ASSUME IInv, NEW c \in Calls, Editing(c)
  PROVE  IInv'
<1>1. CASE Profile(c) \/ Update(c)
  <2>1. PICK u \in Made, x \in Changes, op \in {"profile", "update"} :
          Begin(c, "read", op, [Idle EXCEPT !.u = u, !.in = x])
    BY <1>1 DEF Profile, Update
  <2>2. op \in Ops
    BY DEF Ops
  <2> QED
    BY <2>1, <2>2, BeginsWithUser
<1>2. CASE Child(c)
  <2>1. PICK u \in Made, g \in Made, x \in Changes :
          Begin(c, "child", "profile", [Idle EXCEPT !.u = u, !.guardian = g, !.in = x])
    BY <1>2 DEF Child
  <2>2. "profile" \in Ops /\ g \in Users
    BY DEF Ops, Made
  <2> QED
    BY <2>1, <2>2, BeginsWithUser
<1>3. CASE CheckGuardian(c)
  <2>1. call[c].pc = "child" /\ UNCHANGED <<platform, people, access, firms, calls>> /\ "read" \in Places
    BY <1>3 DEF CheckGuardian, At, Places
  <2>2. CASE End(c)
    BY <2>1, <2>2, Ends, OnlyReads
  <2>3. CASE Go(c, "read")
    <3>1. Facts(c)'
      BY <2>1, <2>3, WentOn, CallTypes DEF Facts, Carries, Aware, Checked, Stopped, people, Made
    <3> QED
      BY <2>1, <2>3, <3>1, WentOn, GoesOn, OnlyReads
  <2> QED
    BY <1>3, <2>2, <2>3 DEF CheckGuardian
<1>4. CASE ReadUser(c)
  <2>1. /\ call[c].pc = "read" /\ UNCHANGED <<platform, people, access, firms, calls>>
        /\ call[c] \in Call /\ call \in [Calls -> Call] /\ Facts(c)
        /\ call[c].u \in Made /\ call[c].in \in Changes /\ user[call[c].u] \in User
    BY <1>4, CallTypes DEF ReadUser, At, Facts, Carries, IInv, PeopleInv, Made
  <2>2. PICK row \in User, x \in Changes : row = user[call[c].u] /\ x = call[c].in
    BY <2>1
  <2>3. PICK new \in User : new = [f \in DOMAIN row |-> IF f \in DOMAIN x THEN x[f] ELSE row[f]]
    BY RowLaid
  <2>4. call' = [call EXCEPT ![c] = [call[c] EXCEPT !.pc = "check", !.new = new]]
    BY <1>4, <2>2, <2>3 DEF ReadUser
  <2>5. [call[c] EXCEPT !.pc = "check", !.new = new] \in Call
    BY <2>1 DEF Call, Places
  <2>6. call' \in [Calls -> Call] /\ Alone(c)
    BY <2>1, <2>4, <2>5 DEF Alone
  <2>7. /\ call'[c].pc = "check" /\ call'[c].u = call[c].u /\ call'[c].new = new /\ call'[c].n = call[c].n
        /\ call'[c].barred = call[c].barred /\ call'[c].dead = call[c].dead
    BY <2>1, <2>4 DEF Call
  <2>8. Facts(c)'
    BY <2>1, <2>7 DEF Facts, Carries, Aware, Checked, Stopped, people, Made
  <2> QED
    BY <2>1, <2>6, <2>7, <2>8, GoesOn, OnlyReads
<1>5. CASE CheckDocument(c)
  <2>1. /\ call[c].pc = "check" /\ UNCHANGED <<platform, people, access, firms, calls>>
        /\ call[c] \in Call /\ call \in [Calls -> Call] /\ Facts(c)
    BY <1>5, CallTypes DEF CheckDocument, At
  <2>2. CASE End(c)
    BY <2>1, <2>2, Ends, OnlyReads
  <2>3. CASE /\ Available(call[c].new.doc, call[c].u)
             /\ call' = [call EXCEPT ![c].pc = "rewrite", ![c].met = {}]
    <3>1. call' = [call EXCEPT ![c] = [call[c] EXCEPT !.pc = "rewrite", !.met = {}]]
      BY <2>3
    <3>2. [call[c] EXCEPT !.pc = "rewrite", !.met = {}] \in Call
      BY <2>1 DEF Call, Places
    <3>3. call' \in [Calls -> Call] /\ Alone(c)
      BY <2>1, <3>1, <3>2 DEF Alone
    <3>4. /\ call'[c].pc = "rewrite" /\ call'[c].u = call[c].u /\ call'[c].new = call[c].new
          /\ call'[c].n = call[c].n /\ call'[c].barred = call[c].barred /\ call'[c].dead = call[c].dead
      BY <2>1, <3>1 DEF Call
    <3>5. Facts(c)'
      BY <2>1, <2>3, <3>4 DEF Facts, Carries, Aware, Checked, Bears, Stopped, Available, people, Made
    <3> QED
      BY <2>1, <3>3, <3>4, <3>5, GoesOn, OnlyReads
  <2> QED
    BY <1>5, <2>2, <2>3 DEF CheckDocument
<1>6. CASE UpdateProfile(c)
  <2>1. PICK u \in Users, row \in User : u = call[c].u /\ u \in Made /\ row = call[c].new /\ row.doc = Bears(c)
    BY <1>6, Rewrites DEF UpdateProfile, At
  <2>2. /\ Write(c, u, row, "idle") /\ UNCHANGED <<member, barred, platform, access, firms, calls>>
        /\ call[c].pc = "rewrite" /\ calls' \in calls .. MaxCalls
    BY <1>6, <2>1, CallTypes DEF UpdateProfile, At
  <2>3. row.doc # None => \A v \in Made \ {u} : user[v].doc = row.doc => {u, v} \in mates'
    BY <2>1, <2>2, MetThem
  <2>4. member \in [Users -> Member \cup {None}] /\ member[u] \in Member
        /\ (u \in barred => member[u].status # "ACTIVE")
    BY <2>1 DEF IInv, PeopleInv, BarredInv, Made
  <2> QED
    BY <2>2, <2>3, <2>4, Written
<1>7. CASE UpdateUser(c)
  <2>1. PICK u \in Users, row \in User : u = call[c].u /\ u \in Made /\ row = call[c].new /\ row.doc = Bears(c)
    BY <1>7, Rewrites DEF UpdateUser, At
  <2>2. /\ Write(c, u, row, "idle") /\ member' = [member EXCEPT ![u] = Membership(row)]
        /\ barred' = barred \ {u} /\ UNCHANGED <<platform, access, firms, calls>>
        /\ call[c].pc = "rewrite" /\ calls' \in calls .. MaxCalls
    BY <1>7, <2>1, CallTypes DEF UpdateUser, At
  <2>3. row.doc # None => \A v \in Made \ {u} : user[v].doc = row.doc => {u, v} \in mates'
    BY <2>1, <2>2, MetThem
  <2>4. /\ member' \in [Users -> Member \cup {None}] /\ member'[u] \in Member
        /\ \A v \in Users \ {u} : member'[v] = member[v]
        /\ \A v \in barred' : v \in barred \cup {u}
        /\ u \notin barred'
    BY <2>2, MembershipType DEF IInv, PeopleInv
  <2> QED
    BY <2>2, <2>3, <2>4, Written
<1>8. CASE SetStatus(c)
  <2>1. PICK u \in Made, s \in Statuses :
          /\ call[c].pc = "idle" /\ calls < MaxCalls /\ calls' = calls + 1
          /\ member' = [member EXCEPT ![u].status = MemberStatus(s)]
          /\ barred' = IF s = "ACTIVE" THEN barred \ {u} ELSE barred \cup {u}
          /\ Write(c, u, [user[u] EXCEPT !.status = s], "idle")
          /\ UNCHANGED <<platform, access, firms>>
    BY <1>8 DEF SetStatus, At
  <2>2. /\ u \in Users /\ user[u] \in User /\ member[u] \in Member
        /\ user \in [Users -> User \cup {None}] /\ member \in [Users -> Member \cup {None}]
    BY DEF IInv, PeopleInv, Made
  <2>3. PICK row \in User : row = [user[u] EXCEPT !.status = s] /\ row.doc = user[u].doc
    BY <2>2, StatusEdited
  <2>4. calls' \in calls .. MaxCalls
    BY <2>1, CallTypes, IdentityAssumption
  <2>5. PICK m \in Member : m = [member[u] EXCEPT !.status = MemberStatus(s)] /\ m.status = MemberStatus(s)
    BY <2>2, StatusEdited
  <2>6. /\ member' \in [Users -> Member \cup {None}] /\ member'[u] \in Member
        /\ member'[u].status = MemberStatus(s) /\ \A v \in Users \ {u} : member'[v] = member[v]
    BY <2>1, <2>2, <2>5
  <2>7. (\A v \in barred' : v \in barred \cup {u}) /\ (u \in barred' => member'[u].status # "ACTIVE")
    BY <2>1, <2>6 DEF MemberStatus, Statuses
  <2>8. row.doc # None => \A v \in Made \ {u} : user[v].doc = row.doc => {u, v} \in mates'
    BY <2>1, <2>3 DEF IInv, DocumentsApart, Write
  <2>9. Write(c, u, row, "idle") /\ ~ call[c].barred /\ ~ call[c].dead
    BY <2>1, <2>3, CallTypes DEF Facts, Stopped
  <2> QED
    BY <2>1, <2>2, <2>4, <2>6, <2>7, <2>8, <2>9, Written
<1>9. CASE AssignRole(c)
  <2>1. PICK u \in Made, r \in Roles :
          /\ call[c].pc = "idle" /\ calls < MaxCalls /\ calls' = calls + 1
          /\ member' = [member EXCEPT ![u].role = MemberRole(r)] /\ UNCHANGED barred
          /\ Write(c, u, [user[u] EXCEPT !.role = r], "idle")
          /\ UNCHANGED <<platform, access, firms>>
    BY <1>9 DEF AssignRole, At
  <2>2. /\ u \in Users /\ user[u] \in User /\ member[u] \in Member
        /\ user \in [Users -> User \cup {None}] /\ member \in [Users -> Member \cup {None}]
        /\ (u \in barred => member[u].status # "ACTIVE")
    BY DEF IInv, PeopleInv, BarredInv, Made
  <2>3. PICK row \in User : row = [user[u] EXCEPT !.role = r] /\ row.doc = user[u].doc
    BY <2>2, RoleEdited
  <2>4. calls' \in calls .. MaxCalls
    BY <2>1, CallTypes, IdentityAssumption
  <2>5. PICK m \in Member : m = [member[u] EXCEPT !.role = MemberRole(r)] /\ m.status = member[u].status
    BY <2>2, RoleEdited
  <2>6. /\ member' \in [Users -> Member \cup {None}] /\ member'[u] \in Member
        /\ member'[u].status = member[u].status /\ \A v \in Users \ {u} : member'[v] = member[v]
    BY <2>1, <2>2, <2>5
  <2>7. (\A v \in barred' : v \in barred \cup {u}) /\ (u \in barred' => member'[u].status # "ACTIVE")
    BY <2>1, <2>2, <2>6
  <2>8. row.doc # None => \A v \in Made \ {u} : user[v].doc = row.doc => {u, v} \in mates'
    BY <2>1, <2>3 DEF IInv, DocumentsApart, Write
  <2>9. Write(c, u, row, "idle") /\ ~ call[c].barred /\ ~ call[c].dead
    BY <2>1, <2>3, CallTypes DEF Facts, Stopped
  <2> QED
    BY <2>1, <2>2, <2>4, <2>6, <2>7, <2>8, <2>9, Written
<1> QED
  BY <1>1, <1>2, <1>3, <1>4, <1>5, <1>6, <1>7, <1>8, <1>9 DEF Editing

\* Steps at which a call ends or stands still, and no row of a user is written.
LEMMA StandsStill ==
  ASSUME IInv, UNCHANGED <<platform, people, firms>>, AccessInv', ended \subseteq ended',
         call' \in [Calls -> Call], \A d \in Calls : call'[d] \in {call[d], Idle},
         calls' \in calls .. MaxCalls,
         \A d \in Calls : call'[d].pc # "idle" => \A s \in session' \cup ended' : s[1] # call[d].n
  PROVE  IInv'
<1>1. calls \in 0 .. MaxCalls /\ calls' \in 0 .. MaxCalls /\ calls <= calls'
  BY DEF IInv, CallInv
<1>2. /\ platform' \in [current : 0 .. 2, previous : 0 .. 1]
      /\ PeopleInv' /\ BarredInv' /\ DocumentsApart' /\ FirmsInv'
  BY DEF IInv, people, firms, PeopleInv, BarredInv, DocumentsApart, FirmsInv, ShowsTenant, Made
<1>3. ASSUME NEW d \in Calls PROVE Carries(d)' /\ Checked(d)' /\ Stopped(d)' /\ Numbered(d)'
  <2>1. CASE call'[d] = Idle
    BY <2>1 DEF Idle, Carries, Aware, Checked, Stopped, Numbered
  <2>2. CASE call'[d] = call[d]
    <3>1. Carries(d) /\ Checked(d) /\ Stopped(d) /\ Numbered(d)
      BY DEF IInv, CallInv
    <3>2. Carries(d)'
      BY <2>2, <3>1 DEF Carries, Aware, people, firms, Made
    <3>3. Checked(d)'
      BY <2>2, <3>1 DEF Checked, Bears, people, Made
    <3>4. Stopped(d)'
      BY <2>2, <3>1 DEF Stopped, people
    <3>5. Numbered(d)'
      <4> SUFFICES ASSUME call[d].pc # "idle"
                   PROVE  /\ call[d].n \in 1 .. calls'
                          /\ \A s \in session' \cup ended' : s[1] # call[d].n
                          /\ \A e \in Calls \ {d} : call'[e].pc # "idle" => call'[e].n # call[d].n
        BY <2>2 DEF Numbered
      <4>1. call[d].n \in 1 .. calls
            /\ \A e \in Calls \ {d} : call[e].pc # "idle" => call[e].n # call[d].n
        BY <3>1 DEF Numbered
      <4>2. call[d].n \in 1 .. calls'
        BY <1>1, <4>1
      <4>3. \A e \in Calls \ {d} : call'[e].pc # "idle" => call'[e] = call[e]
        BY IdleCall
      <4> QED
        BY <2>2, <4>1, <4>2, <4>3
    <3> QED
      BY <3>2, <3>3, <3>4, <3>5
  <2> QED
    BY <2>1, <2>2
<1>4. CallInv'
  BY <1>1, <1>3 DEF CallInv
<1> QED
  BY <1>2, <1>4 DEF IInv

\* A session expires or is revoked.
LEMMA SessionEnds ==
  ASSUME IInv, EndSession
  PROVE  IInv'
<1>1. PICK s \in session : session' = session \ {s} /\ ended' = ended \cup {s}
  BY DEF EndSession
<1>2. /\ UNCHANGED <<platform, people, credential, firms, call, calls>>
      /\ calls \in Nat /\ MaxCalls \in Nat /\ calls <= MaxCalls /\ call \in [Calls -> Call]
  BY IdentityAssumption DEF EndSession, IInv, CallInv
<1>3. session' \cup ended' = session \cup ended /\ session' \cap ended' = {}
  BY <1>1 DEF IInv, AccessInv
<1>4. AccessInv'
  BY <1>2, <1>3 DEF IInv, AccessInv, people, Made
<1>5. \A d \in Calls : call[d].pc # "idle" => \A t \in session \cup ended : t[1] # call[d].n
  BY DEF IInv, CallInv, Numbered
<1>6. ended \subseteq ended' /\ calls' \in calls .. MaxCalls
  BY <1>1, <1>2
<1>7. \A d \in Calls : call'[d].pc # "idle" => \A t \in session' \cup ended' : t[1] # call[d].n
  BY <1>2, <1>3, <1>5
<1> QED
  BY <1>2, <1>4, <1>6, <1>7, StandsStill

\* Passwords, login, the session of a request and requirePlatformAdmin.
LEMMA EnteringSteps ==
  ASSUME IInv, NEW c \in Calls, Entering(c)
  PROVE  IInv'
<1> DEFINE k == call[c]
<1>0. /\ k \in Call /\ Facts(c) /\ call \in [Calls -> Call]
      /\ Made \subseteq Users /\ \A u \in Made : user[u] \in User
      /\ credential \subseteq Made
  BY CallTypes DEF IInv, PeopleInv, AccessInv, Made
<1>1. CASE SetPassword(c)
  <2>1. /\ k.pc = "password" /\ Go(c, "session") /\ credential' = credential \cup {k.u} /\ k.u \in Made
        /\ UNCHANGED <<platform, people, session, ended, firms, calls>> /\ "session" \in Places
    BY <1>0, <1>1 DEF SetPassword, At, Places, Facts, Carries
  <2>2. Reads
    BY <1>0, <2>1 DEF Reads, IInv
  <2>3. Facts(c)'
    BY <1>0, <2>1, WentOn DEF Facts, Carries, Aware, Checked, Stopped, people, Made
  <2> QED
    BY <2>1, <2>2, <2>3, WentOn, GoesOn
<1>2. CASE Login(c)
  <2>1. PICK n \in Names : Begin(c, "current", "login", [Idle EXCEPT !.in = [email |-> n]])
    BY <1>2 DEF Login
  <2>2. PICK i \in Forms : i = [email |-> n]
    BY DEF Forms
  <2>3. PICK rest \in Call : /\ rest = [Idle EXCEPT !.in = i] /\ rest.at = 0
                             /\ ~ rest.dead /\ ~ rest.barred
    <3>1. i \in Body \cup Forms \cup Changes \cup Taxes \cup {None}
      OBVIOUS
    <3> QED
      BY <3>1, IdleIn
  <2>4. Begin(c, "current", "login", rest) /\ "current" \in Places /\ "login" \in Ops
    BY <2>1, <2>2, <2>3 DEF Places, Ops
  <2>5. /\ call'[c].pc = "current" /\ call'[c].op = "login" /\ call'[c].at = rest.at
        /\ call'[c].dead = rest.dead /\ call'[c].barred = rest.barred
    BY <2>4, Opening
  <2>6. Facts(c)'
    BY <2>3, <2>5 DEF Facts, Carries, Aware, Checked, Stopped
  <2> QED
    BY <2>4, <2>6, Begins
<1>3. CASE FindLogin(c)
  <2>1. k.pc = "find" /\ UNCHANGED <<platform, people, access, firms, calls>>
    BY <1>3 DEF FindLogin, At
  <2>2. CASE End(c)
    BY <2>1, <2>2, Ends, OnlyReads
  <2>3. ASSUME NEW u \in credential,
               call' = [call EXCEPT ![c].pc = "compare", ![c].u = u, ![c].new = user[u]]
        PROVE  IInv'
    <3>1. call' = [call EXCEPT ![c] = [k EXCEPT !.pc = "compare", !.u = u, !.new = user[u]]]
      BY <2>3
    <3>2. u \in Made /\ u \in Users /\ user[u] \in User
      BY <1>0
    <3>3. [k EXCEPT !.pc = "compare", !.u = u, !.new = user[u]] \in Call
      BY <1>0, <3>2 DEF Call, Places
    <3>4. call' \in [Calls -> Call] /\ Alone(c)
      BY <1>0, <3>1, <3>3 DEF Alone
    <3>5. /\ call'[c].pc = "compare" /\ call'[c].u = u
          /\ call'[c].n = k.n /\ call'[c].barred = k.barred /\ call'[c].dead = k.dead
      BY <1>0, <3>1 DEF Call
    <3>6. Facts(c)'
      BY <1>0, <2>1, <3>2, <3>5 DEF Facts, Carries, Aware, Checked, Stopped, people, Made
    <3> QED
      BY <2>1, <3>4, <3>5, <3>6, GoesOn, OnlyReads
  <2> QED
    BY <1>3, <2>2, <2>3 DEF FindLogin
<1>4. CASE Compare(c)
  <2>1. k.pc = "compare" /\ UNCHANGED <<platform, people, access, firms, calls>> /\ "session" \in Places
    BY <1>4 DEF Compare, At, Places
  <2>2. CASE End(c)
    BY <2>1, <2>2, Ends, OnlyReads
  <2>3. CASE Go(c, "session")
    <3>1. Facts(c)'
      BY <1>0, <2>1, <2>3, WentOn DEF Facts, Carries, Aware, Checked, Stopped, people, Made
    <3> QED
      BY <2>1, <2>3, <3>1, WentOn, GoesOn, OnlyReads
  <2> QED
    BY <1>4, <2>2, <2>3 DEF Compare
<1>5. CASE OpenSession(c)
  <2>1. /\ k.pc = "session" /\ session' = session \cup {<<k.n, k.u>>} /\ End(c)
        /\ UNCHANGED <<platform, people, credential, ended, firms, calls>>
    BY <1>5 DEF OpenSession, At
  <2>2. /\ k.u \in Made /\ k.n \in 1 .. calls /\ calls \in 0 .. MaxCalls /\ MaxCalls \in Nat
        /\ \A s \in session \cup ended : s[1] # k.n
        /\ \A d \in Calls \ {c} : call[d].pc # "idle" =>
             /\ call[d].n # k.n /\ \A s \in session \cup ended : s[1] # call[d].n
    BY <2>1, <1>0, IdentityAssumption DEF IInv, CallInv, Numbered, Facts, Carries
  <2>3. AccessInv'
    <3>1. session' \cup ended' = (session \cup ended) \cup {<<k.n, k.u>>}
      BY <2>1
    <3>2. <<k.n, k.u>> \in (1 .. MaxCalls) \X Made /\ k.n <= calls
      BY <2>2
    <3>3. <<k.n, k.u>> \notin ended
      BY <2>2
    <3> QED
      BY <2>1, <3>1, <3>2, <3>3 DEF IInv, AccessInv, people, Made
  <2>5. /\ call'[c] = Idle /\ \A d \in Calls \ {c} : call'[d] = call[d]
        /\ call' \in [Calls -> Call]
    BY <1>0, <2>1, IdleCall DEF End
  <2>6. \A d \in Calls : call'[d].pc # "idle" => \A s \in session' \cup ended' : s[1] # call[d].n
    BY <2>1, <2>2, <2>5, IdleCall
  <2>7. calls' \in calls .. MaxCalls /\ \A d \in Calls : call'[d] \in {call[d], Idle}
    BY <2>1, <2>2, <2>5
  <2> QED
    BY <2>1, <2>3, <2>5, <2>6, <2>7, StandsStill
<1>6. CASE Present(c)
  <2>1. PICK s \in session \cup ended :
          Begin(c, "token", "me", [Idle EXCEPT !.at = s[1], !.u = s[2], !.dead = s \in ended])
    BY <1>6 DEF Present
  <2>2. /\ s \in (1 .. MaxCalls) \X Made /\ s = <<s[1], s[2]>> /\ s[2] \in Made
        /\ s[1] \in Nat
    BY DEF IInv, AccessInv
  <2>3. PICK dead \in BOOLEAN : dead <=> s \in ended
    OBVIOUS
  <2>4. PICK rest \in Call : rest = [Idle EXCEPT !.at = s[1], !.u = s[2], !.dead = dead]
    <3>1. s[2] \in Users /\ Idle \in Call
      BY <1>0, <2>2, IdleCall
    <3> QED
      BY <2>2, <3>1 DEF Call
  <2>5. rest.at = s[1] /\ rest.u = s[2] /\ (rest.dead <=> dead) /\ ~ rest.barred
    BY <2>4, IdleCall DEF Call
  <2>6. rest = [Idle EXCEPT !.at = s[1], !.u = s[2], !.dead = s \in ended]
    BY <2>3, <2>4
  <2>7. Begin(c, "token", "me", rest) /\ "token" \in Places /\ "me" \in Ops
    BY <2>1, <2>6 DEF Places, Ops
  <2>8. /\ call'[c].pc = "token" /\ call'[c].at = rest.at /\ call'[c].u = rest.u
        /\ call'[c].dead = rest.dead /\ call'[c].barred = rest.barred
        /\ UNCHANGED <<platform, people, access, firms>>
    BY <2>7, Opening
  <2>9. Facts(c)'
    BY <2>2, <2>3, <2>5, <2>8 DEF Facts, Carries, Aware, Checked, Stopped, people, access, Made
  <2> QED
    BY <2>7, <2>9, Begins
<1>7. CASE CheckSession(c)
  <2>1. k.pc = "token" /\ UNCHANGED <<platform, people, access, firms, calls>> /\ "active" \in Places
    BY <1>7 DEF CheckSession, At, Places
  <2>2. CASE End(c)
    BY <2>1, <2>2, Ends, OnlyReads
  <2>3. CASE <<k.at, k.u>> \in session /\ Go(c, "active")
    <3>1. <<k.at, k.u>> \notin ended
      BY <2>3 DEF IInv, AccessInv
    <3>2. ~ k.dead /\ ~ k.barred
      BY <1>0, <2>1, <3>1 DEF Facts, Stopped
    <3>3. Facts(c)'
      BY <1>0, <2>1, <2>3, <3>2, WentOn DEF Facts, Carries, Aware, Checked, Stopped, people, Made
    <3> QED
      BY <2>1, <2>3, <3>3, WentOn, GoesOn, OnlyReads
  <2> QED
    BY <1>7, <2>2, <2>3 DEF CheckSession
<1>8. CASE Administer(c)
  <2>1. PICK u \in Made : Begin(c, "active", "admin", [Idle EXCEPT !.u = u, !.barred = u \in barred])
    BY <1>8 DEF Administer
  <2>2. PICK bar \in BOOLEAN : bar <=> u \in barred
    OBVIOUS
  <2>3. PICK rest \in Call : rest = [Idle EXCEPT !.u = u, !.barred = bar]
    <3>1. u \in Users /\ Idle \in Call
      BY <1>0, IdleCall
    <3> QED
      BY <3>1 DEF Call
  <2>4. rest.u = u /\ (rest.barred <=> bar) /\ ~ rest.dead
    BY <2>3, IdleCall DEF Call
  <2>5. rest = [Idle EXCEPT !.u = u, !.barred = u \in barred]
    BY <2>2, <2>3
  <2>6. Begin(c, "active", "admin", rest) /\ "active" \in Places /\ "admin" \in Ops
    BY <2>1, <2>5 DEF Places, Ops
  <2>7. /\ call'[c].pc = "active" /\ call'[c].op = "admin" /\ call'[c].u = rest.u
        /\ call'[c].dead = rest.dead /\ call'[c].barred = rest.barred
        /\ UNCHANGED <<platform, people, access, firms>>
    BY <2>6, Opening
  <2>8. Facts(c)'
    BY <2>2, <2>4, <2>7 DEF Facts, Carries, Aware, Checked, Stopped, people, Made
  <2> QED
    BY <2>6, <2>8, Begins
<1>9. CASE CheckActive(c)
  <2>1. k.pc = "active" /\ UNCHANGED <<platform, people, access, firms, calls>>
        /\ {"member", "in"} \subseteq Places
    BY <1>9 DEF CheckActive, At, Places
  <2>2. CASE End(c)
    BY <2>1, <2>2, Ends, OnlyReads
  <2>3. ASSUME NEW pc \in {"member", "in"}, Go(c, pc), k.op = "admin" => pc = "member"
        PROVE  IInv'
    <3>1. Facts(c)'
      BY <1>0, <2>1, <2>3, WentOn DEF Facts, Carries, Aware, Checked, Stopped, people, Made
    <3> QED
      BY <2>1, <2>3, <3>1, WentOn, GoesOn, OnlyReads
  <2> QED
    BY <1>9, <2>2, <2>3 DEF CheckActive
<1>10. CASE CheckMember(c)
  <2>1. k.pc = "member" /\ UNCHANGED <<platform, people, access, firms, calls>> /\ "in" \in Places
    BY <1>10 DEF CheckMember, At, Places
  <2>2. CASE End(c)
    BY <2>1, <2>2, Ends, OnlyReads
  <2>3. CASE member[k.u] = [role |-> "PLATFORM_ADMIN", status |-> "ACTIVE"] /\ Go(c, "in")
    <3>1. k.u \notin barred
      BY <2>3 DEF IInv, BarredInv
    <3>2. ~ k.dead /\ ~ k.barred
      BY <1>0, <2>1, <3>1 DEF Facts, Stopped
    <3>3. Facts(c)'
      BY <1>0, <2>1, <2>3, <3>2, WentOn DEF Facts, Carries, Aware, Checked, Stopped, people, Made
    <3> QED
      BY <2>1, <2>3, <3>3, WentOn, GoesOn, OnlyReads
  <2> QED
    BY <1>10, <2>2, <2>3 DEF CheckMember
<1> QED
  BY <1>1, <1>2, <1>3, <1>4, <1>5, <1>6, <1>7, <1>8, <1>9, <1>10 DEF Entering

\* Steps of a firm: the other calls keep what they carry, but may learn that it is old.
LEMMA FirmStep ==
  ASSUME IInv, UNCHANGED <<platform, people, access>>, FirmsInv', call' \in [Calls -> Call],
         calls' \in calls .. MaxCalls,
         \A d \in Calls : \/ call'[d] = Idle
                          \/ \E b \in BOOLEAN : call'[d] = [call[d] EXCEPT !.late = b],
         \A d \in Calls : Aware(d)'
  PROVE  IInv'
<1>1. calls \in 0 .. MaxCalls /\ calls' \in 0 .. MaxCalls /\ calls <= calls'
  BY DEF IInv, CallInv
<1>2. /\ platform' \in [current : 0 .. 2, previous : 0 .. 1]
      /\ PeopleInv' /\ BarredInv' /\ DocumentsApart'
  BY DEF IInv, people, PeopleInv, BarredInv, DocumentsApart, Made
<1>3. AccessInv'
  <2>1. \A s \in session \cup ended : s[1] \in Nat
    BY DEF IInv, AccessInv
  <2> QED
    BY <1>1, <2>1 DEF IInv, people, access, AccessInv, Made
<1>4. ASSUME NEW d \in Calls
      PROVE  \/ call'[d] = Idle
             \/ /\ call'[d].pc = call[d].pc /\ call'[d].op = call[d].op /\ call'[d].n = call[d].n
                /\ call'[d].u = call[d].u /\ call'[d].in = call[d].in /\ call'[d].new = call[d].new
                /\ call'[d].at = call[d].at /\ call'[d].met = call[d].met
                /\ call'[d].dead = call[d].dead /\ call'[d].barred = call[d].barred
  <2>1. call[d] \in Call
    BY DEF IInv, CallInv
  <2> QED
    BY <2>1 DEF Call
<1>5. ASSUME NEW d \in Calls PROVE Carries(d)' /\ Checked(d)' /\ Stopped(d)' /\ Numbered(d)'
  <2>1. CASE call'[d] = Idle
    BY <2>1 DEF Idle, Carries, Aware, Checked, Stopped, Numbered
  <2>2. CASE call'[d] # Idle
    <3>1. /\ Carries(d) /\ Checked(d) /\ Stopped(d) /\ Numbered(d)
          /\ call'[d].pc = call[d].pc /\ call'[d].op = call[d].op /\ call'[d].n = call[d].n
          /\ call'[d].u = call[d].u /\ call'[d].in = call[d].in /\ call'[d].new = call[d].new
          /\ call'[d].at = call[d].at /\ call'[d].met = call[d].met
          /\ call'[d].dead = call[d].dead /\ call'[d].barred = call[d].barred
      BY <1>4, <2>2 DEF IInv, CallInv
    <3>2. Carries(d)'
      BY <3>1 DEF Carries, people, Made
    <3>3. Checked(d)'
      BY <3>1 DEF Checked, Bears, people, Made
    <3>4. Stopped(d)'
      BY <3>1 DEF Stopped, people, access
    <3>5. Numbered(d)'
      <4> SUFFICES ASSUME call[d].pc # "idle"
                   PROVE  /\ call[d].n \in 1 .. calls'
                          /\ \A s \in session \cup ended : s[1] # call[d].n
                          /\ \A e \in Calls \ {d} : call'[e].pc # "idle" => call'[e].n # call[d].n
        BY <3>1 DEF Numbered, access
      <4>1. /\ call[d].n \in 1 .. calls /\ \A s \in session \cup ended : s[1] # call[d].n
            /\ \A e \in Calls \ {d} : call[e].pc # "idle" => call[e].n # call[d].n
        BY <3>1 DEF Numbered
      <4>2. call[d].n \in 1 .. calls'
        BY <1>1, <4>1
      <4>3. \A e \in Calls \ {d} : call'[e].pc # "idle" =>
              call'[e].pc = call[e].pc /\ call'[e].n = call[e].n
        BY <1>4, IdleCall
      <4> QED
        BY <4>1, <4>2, <4>3
    <3> QED
      BY <3>2, <3>3, <3>4, <3>5
  <2> QED
    BY <2>1, <2>2
<1>6. CallInv'
  BY <1>1, <1>5 DEF CallInv
<1> QED
  BY <1>2, <1>3, <1>6 DEF IInv

\* Who reads a row that is outdated now comes to know it.
LEMMA Outdates ==
  ASSUME IInv, NEW t \in Tenants, tenant' \in [Tenants -> Row \cup {None}], tenant'[t] # None,
         \A s \in Tenants \ {t} : tenant'[s] = tenant[s]
  PROVE  /\ Outdated(t) \in [Calls -> Call]
         /\ \A d \in Calls : \E b \in BOOLEAN : Outdated(t)[d] = [call[d] EXCEPT !.late = b]
         /\ \A d \in Calls : call'[d] = Outdated(t)[d] => Aware(d)'
<1> DEFINE new == Outdated(t)
<1>1. \A d \in Calls : call[d] \in Call /\ Aware(d)
  BY DEF IInv, CallInv, Carries
<1>2. ASSUME NEW d \in Calls
      PROVE  /\ new[d] \in Call /\ \E b \in BOOLEAN : new[d] = [call[d] EXCEPT !.late = b]
             /\ new[d].pc = call[d].pc /\ new[d].op = call[d].op /\ new[d].u = call[d].u
             /\ new[d].in = call[d].in /\ new[d].new = call[d].new
             /\ ~ new[d].late => ~ call[d].late /\ ~ (call[d].op = "retax" /\ call[d].u = t)
  <2>1. call[d] \in Call
    BY <1>1
  <2>2. CASE call[d].op = "retax" /\ call[d].u = t
    <3>1. new[d] = [call[d] EXCEPT !.late = TRUE]
      BY <2>2 DEF Outdated
    <3> QED
      BY <2>1, <3>1 DEF Call
  <2>3. CASE ~ (call[d].op = "retax" /\ call[d].u = t)
    <3>1. new[d] = call[d]
      BY <2>3 DEF Outdated
    <3>2. call[d] = [call[d] EXCEPT !.late = call[d].late] /\ call[d].late \in BOOLEAN
      BY <2>1 DEF Call
    <3> QED
      BY <2>1, <2>3, <3>1, <3>2
  <2> QED
    BY <2>2, <2>3
<1>3. new \in [Calls -> Call]
  BY <1>2 DEF Outdated
<1>4. ASSUME NEW d \in Calls, call'[d] = new[d] PROVE Aware(d)'
  <2> HIDE DEF new
  <2> QED
    BY <1>1, <1>2, <1>4 DEF Aware
<1> QED
  BY <1>2, <1>3, <1>4

\* Of the tenants that a step leaves alone, what is shown is as current as before.
LEMMA OthersShown ==
  ASSUME IInv, NEW t \in Tenants,
         \A s \in Tenants \ {t} : /\ tenant'[s] = tenant[s] /\ profile'[s] = profile[s]
                                  /\ asset'[s] = asset[s] /\ event'[s] = event[s]
                                  /\ (s \in moved' <=> s \in moved)
  PROVE  \A s \in Tenants \ {t} : (tenant'[s] = None => profile'[s] = None) /\ ShowsTenant(s)'
<1> SUFFICES ASSUME NEW s \in Tenants \ {t}
             PROVE  (tenant'[s] = None => profile'[s] = None) /\ ShowsTenant(s)'
  OBVIOUS
<1>1. (tenant[s] = None => profile[s] = None) /\ ShowsTenant(s)
  BY DEF IInv, FirmsInv
<1>2. /\ tenant'[s] = tenant[s] /\ profile'[s] = profile[s]
      /\ asset'[s] = asset[s] /\ event'[s] = event[s]
  OBVIOUS
<1>3. s \in moved' <=> s \in moved
  OBVIOUS
<1> QED
  BY <1>1, <1>2, <1>3 DEF ShowsTenant

\* What upsertTenantProfileAsset writes of a tenant agrees.
LEMMA Announced ==
  ASSUME IInv, NEW t \in Tenants, NEW row \in Row, NEW data \in Taxes, Announce(t, row, data),
         tenant' \in [Tenants -> Row \cup {None}], tenant'[t] # None,
         \A s \in Tenants \ {t} : tenant'[s] = tenant[s] /\ (s \in moved' <=> s \in moved),
         t \notin moved' => tenant'[t] = row
  PROVE  FirmsInv'
<1>1. /\ profile \in [Tenants -> Taxes \cup {None}]
      /\ asset \in [Tenants -> [Names -> Public \cup {None}]]
      /\ event \in [Tenants -> Event \cup {None}]
  BY DEF IInv, FirmsInv
<1>2. PICK n \in Names, st \in Standings : n = row.name /\ st = row.status
  BY DEF Row
<1>3. PICK shows \in Public : shows = [row |-> row, data |-> data] /\ shows.row = row /\ shows.data = data
  <2>1. [row |-> row, data |-> data] \in Public
    BY DEF Public
  <2> QED
    BY <2>1
<1>4. PICK told \in Event : /\ told = [name |-> n, status |-> st, data |-> data]
                            /\ told.name = n /\ told.status = st /\ told.data = data
  <2>1. [name |-> n, status |-> st, data |-> data] \in Event
    BY DEF Event
  <2> QED
    BY <2>1
<1>5. /\ profile' = [profile EXCEPT ![t] = data]
      /\ asset' = [asset EXCEPT ![t] = [asset[t] EXCEPT ![n] = shows]]
      /\ event' = [event EXCEPT ![t] = told]
  BY <1>2, <1>3, <1>4 DEF Announce
<1>6. /\ profile' \in [Tenants -> Taxes \cup {None}] /\ profile'[t] = data
      /\ \A s \in Tenants \ {t} : profile'[s] = profile[s]
  BY <1>1, <1>5
<1>7. /\ asset' \in [Tenants -> [Names -> Public \cup {None}]] /\ asset'[t][n] = shows
      /\ \A s \in Tenants \ {t} : asset'[s] = asset[s]
  BY <1>1, <1>5
<1>8. /\ event' \in [Tenants -> Event \cup {None}] /\ event'[t] = told
      /\ \A s \in Tenants \ {t} : event'[s] = event[s]
  BY <1>1, <1>5
<1>9. ShowsTenant(t)'
  BY <1>2, <1>3, <1>4, <1>6, <1>7, <1>8 DEF ShowsTenant
<1>10. \A s \in Tenants \ {t} : (tenant'[s] = None => profile'[s] = None) /\ ShowsTenant(s)'
  BY <1>6, <1>7, <1>8, OthersShown
<1> QED
  BY <1>6, <1>7, <1>8, <1>9, <1>10 DEF FirmsInv

\* A tenant's row is written and nothing else: either nothing is shown of it, or it is moved.
LEMMA RowAlone ==
  ASSUME IInv, NEW t \in Tenants, tenant' \in [Tenants -> Row \cup {None}], tenant'[t] # None,
         \A s \in Tenants \ {t} : tenant'[s] = tenant[s] /\ (s \in moved' <=> s \in moved),
         tenant[t] = None \/ t \in moved', UNCHANGED <<profile, asset, event>>
  PROVE  FirmsInv'
<1>1. /\ profile \in [Tenants -> Taxes \cup {None}] /\ event \in [Tenants -> Event \cup {None}]
      /\ asset \in [Tenants -> [Names -> Public \cup {None}]]
      /\ tenant[t] = None => profile[t] = None
      /\ ShowsTenant(t)
  BY DEF IInv, FirmsInv
<1>2. \A s \in Tenants \ {t} : (tenant'[s] = None => profile'[s] = None) /\ ShowsTenant(s)'
  BY OthersShown
<1>3. ShowsTenant(t)'
  <2>1. CASE t \in moved'
    BY <1>1, <2>1 DEF ShowsTenant
  <2>2. CASE tenant[t] = None
    <3>1. event[t] = None
      <4>1. event[t] # None => event[t].data \in Taxes
        BY <1>1 DEF Event
      <4> QED
        BY <1>1, <2>2, <4>1, IdentityAssumption DEF ShowsTenant
    <3> QED
      BY <3>1 DEF ShowsTenant
  <2> QED
    BY <2>1, <2>2
<1> QED
  BY <1>1, <1>2, <1>3 DEF FirmsInv

\* A row moved is a row.
LEMMA MovedRow ==
  ASSUME NEW row \in Row, NEW r \in Transition(row) \cup Toggle(row) \cup Retitle(row)
  PROVE  r \in Row
BY DEF Transition, Toggle, Retitle, Row

\* createTenant in its two forms, the changes of a tenant's row, updateCommercialProfile.
LEMMA FirmsSteps ==
  ASSUME IInv, NEW c \in Calls, Firms(c)
  PROVE  IInv'
<1> DEFINE k == call[c]
<1>0. /\ k \in Call /\ Facts(c) /\ call \in [Calls -> Call] /\ calls \in 0 .. MaxCalls /\ MaxCalls \in Nat
      /\ tenant \in [Tenants -> Row \cup {None}] /\ None \notin Row
      /\ \A d \in Calls : Aware(d) /\ call[d] = [call[d] EXCEPT !.late = call[d].late]
                          /\ call[d].late \in BOOLEAN
  <2>1. \A d \in Calls : /\ call[d] = [call[d] EXCEPT !.late = call[d].late]
                         /\ call[d].late \in BOOLEAN
    <3>1. \A d \in Calls : call[d] \in Call
      BY DEF IInv, CallInv
    <3> QED
      BY <3>1 DEF Call
  <2> QED
    BY <2>1, CallTypes, IdentityAssumption, ChangesAssumption DEF IInv, CallInv, Carries, FirmsInv
<1>1. CASE CreateTenant(c)
  <2>1. PICK t \in Tenants, n \in Names, data \in Taxes :
          LET row == [name |-> n, status |-> "DRAFT", live |-> FALSE] IN
            tenant[t] = None /\ tenant' = [tenant EXCEPT ![t] = row] /\ Announce(t, row, data)
    BY <1>1 DEF CreateTenant
  <2>2. PICK row \in Row : row = [name |-> n, status |-> "DRAFT", live |-> FALSE]
    BY DEF Row, Standings
  <2>3. tenant[t] = None /\ tenant' = [tenant EXCEPT ![t] = row] /\ Announce(t, row, data)
    BY <2>1, <2>2
  <2>4. calls < MaxCalls /\ calls' = calls + 1 /\ UNCHANGED <<platform, people, access, moved, call>>
    BY <1>1 DEF CreateTenant
  <2>5. /\ tenant' \in [Tenants -> Row \cup {None}] /\ tenant'[t] = row /\ row # None
        /\ \A s \in Tenants \ {t} : tenant'[s] = tenant[s]
    BY <1>0, <2>3
  <2>6. FirmsInv'
    BY <2>3, <2>4, <2>5, Announced
  <2>7. calls' \in calls .. MaxCalls
    BY <1>0, <2>4
  <2>8. \A d \in Calls : Aware(d)'
    BY <1>0, <2>3, <2>4, <2>5 DEF Aware
  <2>9. \A d \in Calls : \E b \in BOOLEAN : call'[d] = [call[d] EXCEPT !.late = b]
    BY <1>0, <2>4
  <2> QED
    BY <1>0, <2>4, <2>6, <2>7, <2>8, <2>9, FirmStep
<1>2. CASE FoundTenant(c)
  <2>1. PICK t \in Tenants, n \in Names :
          /\ tenant[t] = None
          /\ tenant' = [tenant EXCEPT ![t] = [name |-> n, status |-> "ACTIVE", live |-> TRUE]]
    BY <1>2 DEF FoundTenant
  <2>2. PICK row \in Row : row = [name |-> n, status |-> "ACTIVE", live |-> TRUE]
    BY DEF Row, Standings
  <2>3. /\ calls < MaxCalls /\ calls' = calls + 1
        /\ UNCHANGED <<platform, people, access, profile, asset, event, moved, call>>
    BY <1>2 DEF FoundTenant
  <2>4. /\ tenant' \in [Tenants -> Row \cup {None}] /\ tenant'[t] = row /\ row # None
        /\ \A s \in Tenants \ {t} : tenant'[s] = tenant[s]
    BY <1>0, <2>1, <2>2
  <2>5. FirmsInv'
    BY <2>1, <2>3, <2>4, RowAlone
  <2>6. calls' \in calls .. MaxCalls
    BY <1>0, <2>3
  <2>7. \A d \in Calls : Aware(d)'
    BY <1>0, <2>1, <2>3, <2>4 DEF Aware
  <2>8. \A d \in Calls : \E b \in BOOLEAN : call'[d] = [call[d] EXCEPT !.late = b]
    BY <1>0, <2>3
  <2> QED
    BY <1>0, <2>3, <2>5, <2>6, <2>7, <2>8, FirmStep
<1>3. CASE MoveTenant(c)
  <2>1. PICK t \in Tenants, row \in Row :
          /\ tenant[t] # None /\ tenant' = [tenant EXCEPT ![t] = row]
          /\ moved' = moved \cup {t} /\ call' = Outdated(t)
    <3>1. PICK t \in Tenants :
            /\ tenant[t] # None /\ moved' = moved \cup {t} /\ call' = Outdated(t)
            /\ \E row \in Transition(tenant[t]) \cup Toggle(tenant[t]) \cup Retitle(tenant[t]) :
                 tenant' = [tenant EXCEPT ![t] = row]
      BY <1>3 DEF MoveTenant
    <3>2. tenant[t] \in Row
      BY <1>0, <3>1
    <3> QED
      BY <3>1, <3>2, MovedRow
  <2>2. /\ calls < MaxCalls /\ calls' = calls + 1
        /\ UNCHANGED <<platform, people, access, profile, asset, event>>
    BY <1>3 DEF MoveTenant
  <2>3. /\ tenant' \in [Tenants -> Row \cup {None}] /\ tenant'[t] # None
        /\ \A s \in Tenants \ {t} : tenant'[s] = tenant[s]
    BY <1>0, <2>1
  <2>4. /\ t \in moved' /\ \A s \in Tenants \ {t} : s \in moved' <=> s \in moved
    BY <2>1
  <2>5. FirmsInv'
    BY <2>2, <2>3, <2>4, RowAlone
  <2>6. calls' \in calls .. MaxCalls
    BY <1>0, <2>2
  <2>7. /\ call' \in [Calls -> Call] /\ \A d \in Calls : Aware(d)'
        /\ \A d \in Calls : \E b \in BOOLEAN : call'[d] = [call[d] EXCEPT !.late = b]
    BY <2>1, <2>3, Outdates
  <2> QED
    BY <2>2, <2>5, <2>6, <2>7, FirmStep
<1>4. CASE UpdateTenant(c)
  <2>1. PICK t \in Tenants, row \in Row, data \in Taxes, op \in {"retax", "rename"} :
          /\ tenant[t] # None /\ (op = "retax" => row = tenant[t])
          /\ Begin(c, "announce", op, [Idle EXCEPT !.u = t, !.in = data, !.new = row])
    <3>1. PICK t \in Tenants, data \in Taxes :
            /\ tenant[t] # None
            /\ \/ Begin(c, "announce", "retax", [Idle EXCEPT !.u = t, !.in = data, !.new = tenant[t]])
               \/ \E n \in Names : Begin(c, "announce", "rename",
                    [Idle EXCEPT !.u = t, !.in = data, !.new = [tenant[t] EXCEPT !.name = n]])
      BY <1>4 DEF UpdateTenant
    <3>2. tenant[t] \in Row /\ \A n \in Names : [tenant[t] EXCEPT !.name = n] \in Row
      BY <1>0, <3>1 DEF Row
    <3> QED
      BY <3>1, <3>2
  <2>2. PICK rest \in Call : rest = [Idle EXCEPT !.u = t, !.in = data, !.new = row]
    BY IdleCall DEF Call
  <2>3. rest.u = t /\ rest.in = data /\ rest.new = row /\ ~ rest.dead /\ ~ rest.barred
    BY <2>2, IdleCall DEF Call
  <2>4. Begin(c, "announce", op, rest) /\ "announce" \in Places /\ op \in Ops
    BY <2>1, <2>2 DEF Places, Ops
  <2>5. /\ call'[c].pc = "announce" /\ call'[c].op = op /\ call'[c].u = rest.u /\ call'[c].in = rest.in
        /\ call'[c].new = rest.new /\ call'[c].dead = rest.dead /\ call'[c].barred = rest.barred
        /\ UNCHANGED <<platform, people, access, firms>>
    BY <2>4, Opening
  <2>6. Facts(c)'
    <3>1. Aware(c)'
      BY <2>1, <2>3, <2>5 DEF Aware, firms
    <3> QED
      BY <2>3, <2>5, <3>1 DEF Facts, Carries, Checked, Stopped
  <2> QED
    BY <2>4, <2>6, Begins
<1>5. CASE AnnounceTenant(c)
  <2>1. /\ k.pc = "announce" /\ Announce(k.u, k.new, k.in)
        /\ IF k.op = "rename"
           THEN tenant' = [tenant EXCEPT ![k.u] = k.new] /\ call' = [Outdated(k.u) EXCEPT ![c] = Idle]
           ELSE UNCHANGED tenant /\ End(c)
        /\ moved' = IF k.late THEN moved \cup {k.u} ELSE moved \ {k.u}
        /\ UNCHANGED <<platform, people, access, calls>>
    BY <1>5 DEF AnnounceTenant, At
  <2>2. PICK t \in Tenants, row \in Row, data \in Taxes :
          /\ t = k.u /\ row = k.new /\ data = k.in /\ tenant[t] # None
          /\ k.op \in {"retax", "rename"} /\ (k.op = "retax" /\ ~ k.late => row = tenant[t])
    BY <1>0, <2>1 DEF Aware
  <2>3. /\ tenant' \in [Tenants -> Row \cup {None}] /\ tenant'[t] # None
        /\ \A s \in Tenants \ {t} : tenant'[s] = tenant[s]
        /\ t \notin moved' => tenant'[t] = row
        /\ \A s \in Tenants \ {t} : s \in moved' <=> s \in moved
    <3>1. CASE k.op = "rename"
      BY <1>0, <2>1, <2>2, <3>1
    <3>2. CASE k.op = "retax"
      BY <1>0, <2>1, <2>2, <3>2
    <3> QED
      BY <2>2, <3>1, <3>2
  <2>4. FirmsInv'
    BY <2>1, <2>2, <2>3, Announced
  <2>5. /\ call' \in [Calls -> Call] /\ \A d \in Calls : Aware(d)'
        /\ \A d \in Calls : \/ call'[d] = Idle
                            \/ \E b \in BOOLEAN : call'[d] = [call[d] EXCEPT !.late = b]
    <3>0. \A d \in Calls : call'[d] = Idle => Aware(d)'
      BY IdleCall DEF Aware
    <3>1. CASE k.op = "rename"
      <4>1. call' = [Outdated(t) EXCEPT ![c] = Idle] /\ Outdated(t) \in [Calls -> Call]
        BY <2>1, <2>2, <2>3, <3>1, Outdates
      <4>2. call' \in [Calls -> Call] /\ \A d \in Calls : call'[d] = Idle \/ call'[d] = Outdated(t)[d]
        BY <4>1, IdleCall
      <4>3. /\ \A d \in Calls : \E b \in BOOLEAN : Outdated(t)[d] = [call[d] EXCEPT !.late = b]
            /\ \A d \in Calls : call'[d] = Outdated(t)[d] => Aware(d)'
        BY <2>3, Outdates
      <4> QED
        BY <3>0, <4>2, <4>3
    <3>2. CASE k.op = "retax"
      <4>1. UNCHANGED tenant /\ call' = [call EXCEPT ![c] = Idle]
        BY <2>1, <3>2 DEF End
      <4>2. call' \in [Calls -> Call] /\ \A d \in Calls : call'[d] = Idle \/ call'[d] = call[d]
        BY <1>0, <4>1, IdleCall
      <4>3. \A d \in Calls : call'[d] = call[d] => Aware(d)'
        BY <1>0, <4>1 DEF Aware
      <4> QED
        BY <1>0, <3>0, <4>2, <4>3
    <3> QED
      BY <2>2, <3>1, <3>2
  <2>6. calls' \in calls .. MaxCalls
    BY <1>0, <2>1
  <2> QED
    BY <2>1, <2>4, <2>5, <2>6, FirmStep
<1> QED
  BY <1>1, <1>2, <1>3, <1>4, <1>5 DEF Firms
-----------------------------------------------------------------------------
(* The theorems *)

LEMMA IInvInit ==
  ASSUME Init
  PROVE  IInv
<1>1. PICK seeded \in BOOLEAN, u \in Users, n \in Names :
        LET row == [open |-> n, email |-> n, doc |-> None, role |-> "PLATFORM_ADMIN",
                    status |-> "ACTIVE", guardian |-> None] IN
          /\ platform \in IF seeded THEN {[current |-> 1, previous |-> 0], [current |-> 0, previous |-> 1]}
                          ELSE {[current |-> 0, previous |-> 0]}
          /\ user   = [v \in Users |-> IF seeded /\ v = u THEN row ELSE None]
          /\ member = [v \in Users |-> IF seeded /\ v = u THEN Membership(row) ELSE None]
  BY DEF Init
<1> DEFINE row == [open |-> n, email |-> n, doc |-> None, role |-> "PLATFORM_ADMIN",
                   status |-> "ACTIVE", guardian |-> None]
<1>2. row \in User
  BY DEF User, Fields, Roles, Statuses
<1>3. Membership(row) \in Member
  BY <1>2, MembershipType
<1>4. PICK m \in Member, r \in User : m = Membership(row) /\ r = row
  BY <1>2, <1>3
<1>5. /\ user = [v \in Users |-> IF seeded /\ v = u THEN r ELSE None]
      /\ member = [v \in Users |-> IF seeded /\ v = u THEN m ELSE None]
  BY <1>1, <1>4
<1>6. r # None /\ m # None
  BY ChangesAssumption
<1>7. /\ shown = [v \in Users |-> None] /\ credential = {} /\ session = {} /\ ended = {}
      /\ tenant = [t \in Tenants |-> None] /\ profile = [t \in Tenants |-> None] /\ moved = {}
      /\ asset = [t \in Tenants |-> [x \in Names |-> None]] /\ event = [t \in Tenants |-> None]
      /\ call = [c \in Calls |-> Idle] /\ calls = 0
      /\ barred = {} /\ apart = {} /\ mates = {}
  BY DEF Init
<1>8. PeopleInv /\ DocumentsApart
  BY <1>5, <1>6, <1>7 DEF PeopleInv, DocumentsApart, Made
<1>9. BarredInv /\ AccessInv /\ FirmsInv
  BY <1>7 DEF BarredInv, AccessInv, FirmsInv, ShowsTenant
<1>10. platform \in [current : 0 .. 2, previous : 0 .. 1]
  BY <1>1
<1>11. CallInv
  <2>1. calls \in 0 .. MaxCalls
    BY <1>7, IdentityAssumption
  <2>2. call \in [Calls -> Call]
    BY <1>7, IdleCall
  <2>3. ASSUME NEW c \in Calls PROVE Carries(c) /\ Checked(c) /\ Stopped(c) /\ Numbered(c)
    <3>1. call[c] = Idle
      BY <1>7
    <3> QED
      BY <3>1 DEF Idle, Carries, Aware, Checked, Stopped, Numbered
  <2> QED
    BY <2>1, <2>2, <2>3 DEF CallInv
<1> QED
  BY <1>8, <1>9, <1>10, <1>11 DEF IInv

LEMMA IInvStutters ==
  ASSUME IInv, UNCHANGED vars
  PROVE  IInv'
BY DEF vars, IInv, PeopleInv, BarredInv, AccessInv, FirmsInv, ShowsTenant, CallInv, DocumentsApart,
   Carries, Aware,
       Checked, Bears, Stopped, Numbered, Made

LEMMA AlwaysIInv == Spec => []IInv
<1>1. Init => IInv
  BY IInvInit
<1>2. IInv /\ [Next]_vars => IInv'
  <2> SUFFICES ASSUME IInv, [Next]_vars PROVE IInv'
    OBVIOUS
  <2>1. ASSUME NEW c \in Calls, Platform(c) \/ Upserting(c) \/ Editing(c) \/ Entering(c) \/ Firms(c)
        PROVE  IInv'
    BY <2>1, PlatformSteps, UpsertingSteps, EditingSteps, EnteringSteps, FirmsSteps
  <2>2. CASE EndSession
    BY <2>2, SessionEnds
  <2>3. CASE UNCHANGED vars
    BY <2>3, IInvStutters
  <2> QED
    BY <2>1, <2>2, <2>3 DEF Next
<1> QED
  BY <1>1, <1>2, PTL DEF Spec

\* TenantUser, TenantMembership and the other rows always have the types of the schema,
\* whichever calls interleave; sessions and passwords belong to users that exist.
THEOREM TypeCorrect == Spec => []TypeOK
<1>1. IInv => TypeOK
  <2> SUFFICES ASSUME IInv PROVE TypeOK
    OBVIOUS
  <2>1. \A u \in Users : (user[u] = None) = (member[u] = None)
    BY Zenon DEF IInv, PeopleInv
  <2>2. \A t \in Tenants : tenant[t] \in Row \cup {None} /\ (tenant[t] = None => profile[t] = None)
    BY DEF IInv, FirmsInv
  <2>3. \A u \in Made : user[u] \in User /\ member[u] \in Member
    BY DEF IInv, PeopleInv, Made
  <2> QED
    BY <2>1, <2>2, <2>3 DEF TypeOK, IInv, AccessInv
<1> QED
  BY <1>1, AlwaysIInv, PTL

\* upsertB2CUser, updateProfile, updateTenantUser: a document belongs to one user, except
\* to users whom transactions wrote that were open at the same time; a copy of a row that is
\* written back long after it was read does not bring a second one.
THEOREM OneOwnerPerDocument == Spec => []DocumentsApart
<1>1. IInv => DocumentsApart
  BY DEF IInv
<1> QED
  BY <1>1, AlwaysIInv, PTL

\* requirePlatformAdmin and current: nobody acts as an administrator who was suspended when
\* the request came and was not let in again since, nor with a session that had ended.
THEOREM SuspendedStayOut == Spec => []SuspensionHolds
<1>1. IInv => SuspensionHolds
  BY DEF IInv, CallInv, Stopped, SuspensionHolds
<1> QED
  BY <1>1, AlwaysIInv, PTL

\* upsertTenantUserProfileAsset and upsertTenantProfileAsset: the public record of a user
\* says what the row says, except of a user whom a failed registration archived; that of a
\* tenant has the current commercial profile, and the current row unless the row was
\* changed since it was read, by one of the calls that refresh nothing or beside one.
THEOREM PublicIsTrue == Spec => []ShownIsCurrent
<1>1. IInv => ShownIsCurrent
  BY DEF IInv, PeopleInv, FirmsInv, ShowsTenant, ShownIsCurrent
<1> QED
  BY <1>1, AlwaysIInv, PTL
=============================================================================

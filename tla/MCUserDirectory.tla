-------------------------- MODULE MCUserDirectory --------------------------
(* Small instances of UserDirectory for TLC: two agents, a user of the      *)
(* first, and a few calls that race.                                        *)
EXTENDS UserDirectory, TLC

CONSTANTS m1, m2, m3, m4, m5, g1, g2, g3, g4, g5, p1, p2, c1, c2, c3, c4

Account(type, agent, m, g) ==
  [type |-> type, agent |-> agent, mobile |-> m, uid |-> g, hash |-> p1]
NoRows == [i \in Ids |-> None]
NoTokens == [a \in Actors |-> None]

\* before the first start, and with an agent and a user who have logged in
Fresh == [users |-> NoRows, audited |-> {}, credential |-> None, tokens |-> NoTokens]
InUse == [
  users |-> 1 :> Account("agent", None, m1, g1) @@ 2 :> Account("agent", None, m2, g2)
            @@ 3 :> Account("user", 1, m3, g3) @@ NoRows,
  audited |-> {1, 3},
  credential |-> [mobile |-> m4, hash |-> p1],
  tokens |-> Super :> "superadmin" @@ 1 :> "agent" @@ 3 :> "user" @@ NoTokens]
\* the first account is a second superadmin
Shared == [
  users |-> 1 :> Account("superadmin", None, m1, g1) @@ NoRows,
  audited |-> {1},
  credential |-> [mobile |-> m4, hash |-> p1],
  tokens |-> 1 :> "superadmin" @@ NoTokens]
Scenario(database, cast) == [calls |-> cast] @@ database

K(h, a, i) == [handler |-> h, actor |-> a, id |-> i, type |-> None, mobile |-> Absent,
               agent |-> Absent, old |-> None, new |-> None]
Create(a, type, m, agent) == [K("create", a, None) EXCEPT
  !.type = type, !.mobile = m, !.agent = agent, !.new = p1]
Rename(a, i, m) == [K("update", a, i) EXCEPT !.mobile = m]
Reassign(i, agent) == [K("update", Super, i) EXCEPT !.agent = agent]
Remove(a, i) == K("remove", a, i)
Password(a, i, old, new) == [K("password", a, i) EXCEPT !.old = old, !.new = new]
Login(m, p) == [K("login", None, None) EXCEPT !.mobile = m, !.old = p]
LoginSuper_(p) == [K("login", None, Super) EXCEPT !.old = p]
Seed == [K("seed", None, None) EXCEPT !.mobile = m4, !.new = p1]

\* users given to an agent who is being deleted, and moved out of an agent's scope
CallsAssign ==
  c1 :> {Create(Super, "user", m4, 2), Reassign(2, 1)} @@
  c2 :> {Reassign(3, 2), Reassign(3, None)} @@
  c3 :> {Remove(Super, 2), Remove(1, 3), Remove(Super, 1)} @@
  c4 :> {Rename(1, 3, m4), Rename(1, 1, m2)}

\* an account saved, renamed, logged in and deleted at once
CallsSave ==
  c1 :> {Password(3, None, p1, p2), Remove(3, 1)} @@
  c2 :> {[Reassign(3, 2) EXCEPT !.mobile = m4], Rename(3, 3, m4)} @@
  c3 :> {Remove(Super, 3), Remove(Super, 2)} @@
  c4 :> {Login(m3, p1), Login(m2, p1), Login(m4, p2), Create(Super, "agent", m4, Absent)}

\* accounts made at once, with the same mobile number and too few ids
CallsCreate ==
  c1 :> {Create(1, None, m4, Absent)} @@
  c2 :> {Create(Super, "agent", m4, Absent)} @@
  c3 :> {Create(Super, "user", m5, 2), Create(Super, "user", m5, Absent),
         Create(3, None, m5, Absent)} @@
  c4 :> {Rename(3, 3, m4), Rename(1, 2, m5)}

\* the first start, of two processes, and what the superadmin does then
CallsStart ==
  c1 :> {Seed} @@
  c2 :> {Seed, Create(Super, "agent", m1, Absent)} @@
  c3 :> {LoginSuper_(p1), LoginSuper_(p2), Rename(Super, Super, m3)} @@
  c4 :> {Password(Super, None, p1, p2), LoginSuper_(p1)}

\* the superadmin's row, saved by both
CallsShared ==
  c1 :> {Password(1, None, p1, p2), Rename(1, Super, m3)} @@
  c2 :> {LoginSuper_(p1)} @@
  c3 :> {Password(Super, None, p1, p2), Rename(Super, 1, m3)} @@
  c4 :> {Create(1, "superadmin", m3, Absent), Remove(Super, 1)}

\* a user reassigned while changing the password
CallsStale ==
  c1 :> {Reassign(3, 2)} @@ c2 :> {Password(3, None, p1, p2)}

MCScenarios == {Scenario(InUse, CallsAssign), Scenario(InUse, CallsSave),
                Scenario(InUse, CallsCreate), Scenario(Fresh, CallsStart),
                Scenario(Shared, CallsShared)}
StaleScenario == {Scenario(InUse, CallsStale)}

=============================================================================

------------------------------ MODULE MCLists -------------------------------
(* Instances of Lists: two attributes, one of them without rights, two methods. *)
EXTENDS Lists

CONSTANTS a, d, m, u

Get(name) == [kind |-> "get", name |-> name]
Set(name) == [kind |-> "set", name |-> name]
Act(name) == [kind |-> "action", name |-> name]
Block == [kind |-> "other", name |-> a]

Ask2(svc, items) == [svc |-> svc, items |-> items]

\* Of every service: mixed kinds, an item that is refused or addresses nothing, and
\* short-name lists of one item and of one too many.
AllBatches ==
  {Ask2("get", <<Get(a), Get(a)>>), Ask2("get", <<Get(d), Get(a), Get(a)>>),
   Ask2("action", <<Act(m), Act(m)>>), Ask2("access", <<Set(a), Act(m)>>),
   Ask2("access", <<Act(m), Get(a)>>), Ask2("access", <<Get(d), Get(a)>>),
   Ask2("read", <<Get(a)>>), Ask2("read", <<Act(m), Get(a)>>), Ask2("read", <<Block, Act(m)>>),
   Ask2("read", <<Act(m), Get(a), Get(a)>>),
   Ask2("write", <<Set(a), Act(m)>>), Ask2("write", <<Set(u), Set(a), Set(a)>>),
   Ask2("unconfirmed", <<Set(a), Act(m)>>), Ask2("unconfirmed", <<Set(a), Act(m), Set(a)>>)}

Services == {"get", "action", "access", "read", "write", "unconfirmed"}
Numbered == {"get", "action"}

\* One waits for whatever is under way; one that does not uses only the services
\* whose answers carry the invoke id that handle_response compares.
SafeCallers ==
  {[impatient |-> FALSE, services |-> Services], [impatient |-> TRUE, services |-> Numbered]}

\* One that does not wait, and asks through ACCESS.
HastyAccess == {[impatient |-> TRUE, services |-> {"access"}]}
=============================================================================

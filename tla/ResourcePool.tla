---------------------------- MODULE ResourcePool ----------------------------
(***************************************************************************)
(* The pool of functional units of simplesim-3.0d-assig4/resource.c.  A    *)
(* resource is the j-th instance of the i-th description of the            *)
(* configuration, <<i, j>>; a description lists the classes of operations  *)
(* its instances execute, with the latency of the operation and the        *)
(* cycles before the instance accepts another one.  The `busy' field of    *)
(* every resource belongs to the caller, and is an argument here.          *)
(***************************************************************************)
EXTENDS Naturals, Sequences

CONSTANT fu_config    \* as in sim-outorder.c: every operation takes a cycle or more

ASSUME ConfigAssumption ==
  fu_config \in Seq([quantity : Nat, x : Seq([class : STRING, oplat : Nat \ {0}, issuelat : Nat \ {0}])])

\* The instance table of res_create_pool.
Resources == UNION {{<<i, j>> : j \in 1 .. fu_config[i].quantity} : i \in DOMAIN fu_config}

\* The order in which res_create_pool enters a class into the table.
Earlier(r, s) == r[1] < s[1] \/ (r[1] = s[1] /\ r[2] < s[2])

NULL_TEMPLATE == [master |-> <<>>, oplat |-> 0, issuelat |-> 0]

\* The templates under which resource r is entered for class.
Templates(r, class) ==
  LET x == fu_config[r[1]].x
  IN  {[master |-> r, oplat |-> x[k].oplat, issuelat |-> x[k].issuelat] :
         k \in {k \in DOMAIN x : x[k].class = class}}

\* Those of the idle resources.
Idle(busy, class) == UNION {Templates(r, class) : r \in {r \in Resources : busy[r] = 0}}

\* A mistake: the busy field of the resource is not looked at.
NoBusyCheck(busy, class) == LET free == [r \in Resources |-> 0] IN
  CHOOSE t \in Idle(free, class) : \A u \in Idle(free, class) : ~ Earlier(u.master, t.master)

\* The first idle resource of the class.
res_get(busy, class) ==
  IF Idle(busy, class) = {} THEN NULL_TEMPLATE
  ELSE CHOOSE t \in Idle(busy, class) : \A u \in Idle(busy, class) : ~ Earlier(u.master, t.master)
=============================================================================

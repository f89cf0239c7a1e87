----------------------------- MODULE TaskProofs -----------------------------
(* The tree of tasks, for any number of CPUs and of slots.                 *)
EXTENDS TaskLife, TLAPS

CpuPlace == {"window", "scan", "pick", "back", "wake", "rouse"}
OffPlace == {"resume", "slept", "buried"}
Waiting == {"sleep", "unlock", "doze", "slept", "relock"}
TaskPlace ==
    OffPlace \cup Waiting \cup
    {"user", "kernel", "yield", "ready", "wake", "rouse", "alloc", "probe", "fork", "panic",
     "look", "orphan", "adopt", "bury"}

TaskState == State \cup {"EXIT"}
Gone == {"EXIT", "FREE", "INIT"}
Unused == {"FREE", "INIT"}
Caller == {"window", "user", "yield", "look", "bury"}

Types ==
    /\ state \in [Task -> TaskState] /\ run \in [Cpu -> Flow]
    /\ pc \in [Flow -> CpuPlace \cup TaskPlace] /\ ret \in [Flow -> Caller]
    /\ idx \in [Flow -> 0 .. NPROC] /\ newtask \in [Task -> Task \cup {None}]
    /\ parent \in [Task -> Task \cup {None}] /\ childs \in [Task -> Seq(Task)]
    /\ pos \in [Task -> Nat] /\ abandoned \subseteq Task

(* A CPU is in its scheduler or executes a task, which no other does.      *)
OnCpu(c) ==
    /\ run[c] \in Task \cup {c}
    /\ pc[c] \in CpuPlace /\ ret[c] = "window"
    /\ pc[c] # "wake" => idx[c] \in Task

Alone == \A c, d \in Cpu : run[c] \in Task /\ run[c] = run[d] => c = d

Running(t) == \E c \in Cpu : run[c] = t

(* Task t may be at l with return address r, loop index i and pointer p.   *)
Fits(t, l, r, i, p) ==
    /\ l \in TaskPlace
    /\ l \in {"wake", "rouse"} => r \in {"yield", "bury"}
    /\ l \in Waiting => r = "look"
    /\ l \in Waiting \cup {"look"} => p > 0
    /\ l \in {"yield", "ready", "resume"} => r = "user"
    /\ l \in {"rouse", "alloc", "probe"} => i \in Task
    /\ l \in {"orphan", "adopt"} => t # 0

(* On the way from the change of its state to the last switch.             *)
Dying(l, r) == l \in {"bury", "buried"} \/ (l \in {"wake", "rouse"} /\ r = "bury")

(* The state of a task tells whether it is executed, except that one that  *)
(* is dying may already have been freed, and its slot even allocated.      *)
OfTask(t) ==
    /\ Fits(t, pc[t], ret[t], idx[t], pos[t])
    /\ Dying(pc[t], ret[t]) => state[t] \in Gone
    /\ state[t] = "EXIT" => Dying(pc[t], ret[t])
    /\ Running(t) => state[t] = "RUN" \/ Dying(pc[t], ret[t])
    /\ ~Running(t) => pc[t] \in OffPlace /\ state[t] # "RUN"

(* Whoever forks has a slot of its own for the child, whoever hands over a *)
(* child has one, and init does not exit.                                  *)
Forking ==
    \A t \in Task : pc[t] = "fork" =>
        /\ newtask[t] \in Task /\ state[newtask[t]] = "INIT"
        /\ \A u \in Task : pc[u] = "fork" /\ newtask[u] = newtask[t] => u = t

Adopting == \A t \in Task : pc[t] = "adopt" => childs[t] # <<>>

Ctl ==
    /\ \A c \in Cpu : OnCpu(c)
    /\ Alone
    /\ \A t \in Task : OfTask(t)
    /\ Forking /\ Adopting /\ state[0] \notin Gone

(* The lists: no entry twice, entries point to their parents, and a task   *)
(* in use is on the list of its parent; the children of a task that was    *)
(* killed are abandoned.                                                   *)
Distinct(list) == \A i, j \in DOMAIN list : list[i] = list[j] => i = j

Tree ==
    /\ \A u \in Task : Distinct(childs[u])
    /\ \A u \in Task : \A v \in Elems(childs[u]) :
          parent[v] = u /\ v # 0 /\ state[v] \notin Unused
    /\ \A u \in Task : \A v \in Elems(childs[u]) : v \in abandoned <=> state[u] \in Gone
    /\ \A v \in abandoned : v # 0 /\ state[v] \notin Unused
    /\ \A t \in Task \ ({0} \cup abandoned) :
          state[t] \notin Unused => parent[t] \in Task /\ t \in Elems(childs[parent[t]])

TInv == Types /\ Tree /\ (trodden \/ Ctl)

(* What the assumptions say of the constants.                              *)
LEMMA Numbers ==
    /\ Cpu \cap Task = {} /\ None \notin Cpu \cup Task
    /\ Task \subseteq Flow /\ Cpu \subseteq Flow
    /\ NPROC \in Nat \ {0}
    /\ \A i \in Task : i \in 0 .. NPROC /\ i + 1 \in 0 .. NPROC
    /\ \A i \in Task : i + 1 # NPROC => i + 1 \in Task
    /\ \A i \in 0 .. NPROC : i < NPROC => i \in Task
    /\ \A i \in 0 .. NPROC : i # NPROC => i \in Task
    /\ 0 \in Task /\ 0 \in 0 .. NPROC /\ 0 \in Nat /\ 1 \in Nat /\ 1 > 0
  BY CpuAssumption, NPROCAssumption DEF Task, Flow
-----------------------------------------------------------------------------
(* The entries of a list.                                                  *)
LEMMA Listed ==
    ASSUME NEW s \in Seq(Task), NEW v \in Elems(s) PROVE v \in Task
<1>1. PICK i \in DOMAIN s : v = s[i]
  BY Zenon DEF Elems
<1> QED
  BY <1>1

(* list_pushback of something that is not on the list.                     *)
LEMMA Pushed ==
    ASSUME NEW s \in Seq(Task), NEW n \in Task
    PROVE  /\ Append(s, n) \in Seq(Task)
           /\ Elems(Append(s, n)) = Elems(s) \cup {n}
           /\ Distinct(s) /\ n \notin Elems(s) => Distinct(Append(s, n))
<1>1. PICK k \in Nat : k = Len(s)
  OBVIOUS
<1>2. /\ Append(s, n) \in Seq(Task) /\ DOMAIN s = 1 .. k /\ DOMAIN Append(s, n) = 1 .. k + 1
      /\ Append(s, n)[k + 1] = n
      /\ \A i \in 1 .. k : Append(s, n)[i] = s[i]
  BY <1>1
<1>3. \A i : i \in 1 .. k + 1 <=> i \in 1 .. k \/ i = k + 1
  OBVIOUS
<1> QED
  BY <1>2, <1>3, Zenon DEF Elems, Distinct

(* list_pop of the first entry.                                            *)
LEMMA Popped ==
    ASSUME NEW s \in Seq(Task), s # <<>>
    PROVE  /\ Head(s) \in Elems(s) /\ Head(s) \in Task /\ Tail(s) \in Seq(Task)
           /\ Distinct(s) => Elems(Tail(s)) = Elems(s) \ {Head(s)} /\ Distinct(Tail(s))
<1>1. PICK k \in Nat : k + 1 = Len(s)
  OBVIOUS
<1>2. /\ Tail(s) \in Seq(Task) /\ DOMAIN s = 1 .. k + 1 /\ DOMAIN Tail(s) = 1 .. k
      /\ Head(s) = s[1] /\ s[1] \in Task /\ 1 \in 1 .. k + 1
      /\ \A i \in 1 .. k : Tail(s)[i] = s[i + 1]
  BY <1>1
<1>3. /\ \A i \in 1 .. k : i + 1 \in 1 .. k + 1 /\ i + 1 # 1
      /\ \A i, j \in 1 .. k : i + 1 = j + 1 => i = j
      /\ \A i \in 1 .. k + 1 : i = 1 \/ \E j \in 1 .. k : i = j + 1
  <2>1. ASSUME NEW i \in 1 .. k + 1, i # 1 PROVE \E j \in 1 .. k : i = j + 1
    <3>1. i - 1 \in 1 .. k /\ i = (i - 1) + 1
      BY <2>1
    <3> QED
      BY <3>1, Zenon
  <2> QED
    BY <2>1
<1>4. ASSUME Distinct(s) PROVE Distinct(Tail(s))
  BY <1>2, <1>3, <1>4 DEF Distinct
<1>5. ASSUME Distinct(s) PROVE Elems(Tail(s)) = Elems(s) \ {Head(s)}
  <2>1. ASSUME NEW x \in Elems(Tail(s)) PROVE x \in Elems(s) \ {Head(s)}
    <3>1. PICK i \in 1 .. k : x = s[i + 1]
      BY <1>2, <2>1, Zenon DEF Elems
    <3> QED
      BY <1>2, <1>3, <1>5, <3>1, Zenon DEF Elems, Distinct
  <2>2. ASSUME NEW x \in Elems(s) \ {Head(s)} PROVE x \in Elems(Tail(s))
    <3>1. PICK i \in 1 .. k + 1 : x = s[i]
      BY <1>2, <2>2, Zenon DEF Elems
    <3>2. PICK j \in 1 .. k : i = j + 1
      BY <1>2, <1>3, <2>2, <3>1, Zenon
    <3> QED
      BY <1>2, <3>1, <3>2, Zenon DEF Elems
  <2> QED
    BY <2>1, <2>2, Zenon
<1> QED
  BY <1>2, <1>4, <1>5, Zenon DEF Elems

(* list_remove of the entry at p.                                          *)
LEMMA Removed ==
    ASSUME NEW s \in Seq(Task), NEW p \in 1 .. Len(s)
    PROVE  /\ s[p] \in Elems(s) /\ s[p] \in Task /\ Without(s, p) \in Seq(Task)
           /\ Distinct(s) => Elems(Without(s, p)) = Elems(s) \ {s[p]} /\ Distinct(Without(s, p))
<1>1. PICK k \in Nat : k + 1 = Len(s)
  OBVIOUS
<1>2. PICK a \in Seq(Task), b \in Seq(Task) : a = SubSeq(s, 1, p - 1) /\ b = SubSeq(s, p + 1, Len(s))
  <2>1. SubSeq(s, 1, p - 1) \in Seq(Task) /\ SubSeq(s, p + 1, Len(s)) \in Seq(Task)
    OBVIOUS
  <2> QED
    BY <2>1, Zenon
<1>3. /\ Len(a) = p - 1 /\ Len(b) = k + 1 - p
      /\ \A i \in 1 .. p - 1 : a[i] = s[i]
      /\ \A i \in 1 .. k + 1 - p : b[i] = s[p + i]
  BY <1>1, <1>2
<1>4. PICK w \in Seq(Task) : w = a \o b
  <2>1. a \o b \in Seq(Task)
    OBVIOUS
  <2> QED
    BY <2>1, Zenon
<1>5. /\ \A i \in 1 .. k : i < p => w[i] = s[i]
      /\ \A i \in 1 .. k : ~(i < p) => w[i] = s[i + 1]
  <2>1. \A i \in 1 .. k : i < p => w[i] = s[i]
    BY <1>1, <1>3, <1>4
  <2>2. ASSUME NEW i \in 1 .. k, ~(i < p) PROVE w[i] = s[i + 1]
    <3>1. w[i] = b[i - (p - 1)] /\ i - (p - 1) \in 1 .. k + 1 - p /\ p + (i - (p - 1)) = i + 1
      BY <1>1, <1>3, <1>4, <2>2
    <3> QED
      BY <1>3, <3>1, Zenon
  <2> QED
    BY <2>1, <2>2, Zenon
<1>6. DOMAIN w = 1 .. k /\ DOMAIN s = 1 .. k + 1 /\ p \in 1 .. k + 1
  <2>1. Len(w) = Len(a) + Len(b)
    BY ONLY a \in Seq(Task), b \in Seq(Task), <1>4
  <2>2. Len(w) = k /\ p \in 1 .. k + 1
    BY <1>1, <1>3, <2>1
  <2> QED
    BY <1>1, <2>2
<1>7. w = Without(s, p)
  BY <1>2, <1>4, Zenon DEF Without
<1>8. PICK f \in [1 .. k -> 1 .. k + 1] :
            \A i \in 1 .. k : (i < p => f[i] = i) /\ (~(i < p) => f[i] = i + 1)
  <2> DEFINE g == [i \in 1 .. k |-> IF i < p THEN i ELSE i + 1]
  <2>1. \A i \in 1 .. k : i \in 1 .. k + 1 /\ i + 1 \in 1 .. k + 1
    BY ONLY k \in Nat
  <2>2. \A i \in 1 .. k : g[i] \in 1 .. k + 1
    BY <2>1, Zenon
  <2>3. g \in [1 .. k -> 1 .. k + 1]
    BY <2>2, Zenon
  <2> QED
    BY <2>3, Zenon
<1>9. /\ \A i \in 1 .. k : f[i] # p
      /\ \A i, j \in 1 .. k : f[i] = f[j] => i = j
      /\ \A i \in 1 .. k + 1 : i = p \/ \E j \in 1 .. k : i = f[j]
  <2>1. ASSUME NEW i \in 1 .. k PROVE f[i] # p
    BY ONLY k \in Nat, i \in 1 .. k, <1>8, <1>6
  <2>2. ASSUME NEW i \in 1 .. k, NEW j \in 1 .. k, f[i] = f[j] PROVE i = j
    <3>1. /\ (i < p /\ f[i] = i) \/ (~(i < p) /\ f[i] = i + 1)
          /\ (j < p /\ f[j] = j) \/ (~(j < p) /\ f[j] = j + 1)
      BY <1>8, Zenon
    <3>2. p \in Nat /\ i \in Nat /\ j \in Nat
      BY <1>6
    <3> QED
      BY ONLY <2>2, <3>1, <3>2
  <2>3. ASSUME NEW i \in 1 .. k + 1, i # p PROVE \E j \in 1 .. k : i = f[j]
    <3>1. CASE i < p
      <4>1. i \in 1 .. k
        BY <1>1, <3>1
      <4> QED
        BY <1>8, <3>1, <4>1, Zenon
    <3>2. CASE i > p
      <4>1. i - 1 \in 1 .. k /\ ~(i - 1 < p) /\ i = (i - 1) + 1
        BY <1>1, <3>2
      <4> QED
        BY <1>8, <4>1, Zenon
    <3> QED
      BY <1>1, <2>3, <3>1, <3>2
  <2> QED
    BY <2>1, <2>2, <2>3, Zenon
<1>10. \A i \in 1 .. k : w[i] = s[f[i]]
  BY <1>5, <1>8, Zenon
<1>11. ASSUME Distinct(s) PROVE Distinct(w)
  BY <1>6, <1>9, <1>10, <1>11 DEF Distinct
<1>12. ASSUME Distinct(s) PROVE Elems(w) = Elems(s) \ {s[p]}
  <2>1. ASSUME NEW x \in Elems(w) PROVE x \in Elems(s) \ {s[p]}
    <3>1. PICK i \in DOMAIN w : x = w[i]
      BY <2>1, Zenon DEF Elems
    <3>2. i \in 1 .. k /\ x = s[f[i]]
      BY <1>6, <1>10, <3>1, Zenon
    <3> QED
      BY <1>6, <1>8, <1>9, <1>12, <3>2, Zenon DEF Elems, Distinct
  <2>2. ASSUME NEW x \in Elems(s) \ {s[p]} PROVE x \in Elems(w)
    <3>1. PICK i \in 1 .. k + 1 : x = s[i]
      BY <1>6, <2>2, Zenon DEF Elems
    <3>2. PICK j \in 1 .. k : i = f[j]
      BY <1>9, <2>2, <3>1, Zenon
    <3> QED
      BY <1>6, <1>10, <3>1, <3>2, Zenon DEF Elems
  <2> QED
    BY <2>1, <2>2, Zenon
<1>13. s[p] \in Task
  BY <1>1
<1> QED
  BY <1>4, <1>11, <1>12, <1>13, <1>6, <1>7, Zenon DEF Elems
-----------------------------------------------------------------------------
(* The initial state: init is READY and there is nobody else.              *)
LEMMA InitTInv == LifeInit => TInv
<1> SUFFICES ASSUME LifeInit PROVE TInv
  BY Zenon
<1>1. /\ state = [t \in Task |-> IF t \in {0} THEN "READY" ELSE "FREE"]
      /\ run = [c \in Cpu |-> c]
      /\ pc = [f \in Flow |-> IF f \in Cpu THEN "window" ELSE "resume"]
      /\ ret = [f \in Flow |-> IF f \in Cpu THEN "window" ELSE "user"]
      /\ idx = [f \in Flow |-> 0] /\ newtask = [t \in Task |-> None]
      /\ parent = [t \in Task |-> None] /\ childs = [t \in Task |-> <<>>]
      /\ pos = [t \in Task |-> 0] /\ abandoned = {}
  BY Zenon DEF LifeInit, Init, Started
<1>2. <<>> \in Seq(Task) /\ Elems(<<>>) = {} /\ Distinct(<<>>)
  BY DEF Elems, Distinct
<1>3. /\ \A c \in Cpu : run[c] = c /\ c \notin Task /\ pc[c] = "window" /\ ret[c] = "window" /\ idx[c] = 0
      /\ \A t \in Task : /\ t \notin Cpu /\ pc[t] = "resume" /\ ret[t] = "user" /\ childs[t] = <<>>
                         /\ state[t] = IF t = 0 THEN "READY" ELSE "FREE"
  BY <1>1, Numbers, Zenon
<1>4. Types
  BY <1>1, <1>2, Numbers DEF Types, TaskState, State, CpuPlace, TaskPlace, OffPlace, Caller, Flow
<1>5. Tree
  <2>1. \A t \in Task \ {0} : state[t] \in Unused
    BY <1>3, Zenon DEF Unused
  <2> QED
    BY <1>1, <1>2, <1>3, <2>1, Zenon DEF Tree
<1>6. Ctl
  <2>1. ASSUME NEW c \in Cpu PROVE OnCpu(c)
    BY <1>3, Numbers, Zenon DEF OnCpu, CpuPlace
  <2>2. ASSUME NEW t \in Task PROVE OfTask(t)
    <3>1. Fits(t, pc[t], ret[t], idx[t], pos[t]) /\ ~Dying(pc[t], ret[t])
      BY <1>3, Zenon DEF Fits, Dying, TaskPlace, OffPlace, Waiting
    <3>2. ~Running(t) /\ state[t] \notin {"EXIT", "RUN"}
      BY <1>3, Zenon DEF Running
    <3> QED
      BY <1>3, <3>1, <3>2, Zenon DEF OfTask, OffPlace
  <2>3. Alone /\ Forking /\ Adopting /\ state[0] \notin Gone
    BY <1>3, Numbers, Zenon DEF Alone, Forking, Adopting, Gone
  <2> QED
    BY <2>1, <2>2, <2>3, Zenon DEF Ctl
<1> QED
  BY <1>4, <1>5, <1>6, Zenon DEF TInv
-----------------------------------------------------------------------------
(* What may become of the states of tasks in a step that switches no CPU:  *)
(* wakeup, the end of sys_wait and alloc_task.                             *)
Like(s, r) ==
    \/ r = s
    \/ s = "SLEEP" /\ r = "READY"
    \/ s = "EXIT" /\ r = "FREE"
    \/ s = "FREE" /\ r = "INIT"

(* The control part survives a task going on from one place to another.    *)
LEMMA MoveTask ==
    ASSUME Types, Ctl, Types', UNCHANGED run,
           NEW c \in Cpu, NEW t \in Task, run[c] = t,
           \A f \in Flow \ {t} : pc'[f] = pc[f] /\ ret'[f] = ret[f] /\ idx'[f] = idx[f],
           \A u \in Task \ {t} : pos'[u] = pos[u] /\ newtask'[u] = newtask[u],
           \A u \in Task : Like(state[u], state'[u]),
           state'[0] \notin Gone,
           Fits(t, pc'[t], ret'[t], idx'[t], pos'[t]),
           Dying(pc'[t], ret'[t]) <=> Dying(pc[t], ret[t]),
           pc'[t] = "fork" => /\ newtask'[t] \in Task /\ state'[newtask'[t]] = "INIT"
                              /\ \A u \in Task : pc[u] = "fork" => newtask[u] # newtask'[t],
           Adopting'
    PROVE  Ctl'
<1>1. ASSUME NEW d \in Cpu PROVE OnCpu(d)'
  <2>1. d \in Flow \ {t}
    BY Numbers
  <2> QED
    BY <2>1, Zenon DEF Ctl, OnCpu
<1>2. Alone'
  BY Zenon DEF Ctl, Alone
<1>3. \A u \in Task : Running(u)' <=> Running(u)
  BY Zenon DEF Running
<1>4. \A u \in Task : /\ state[u] \in Gone <=> state'[u] \in Gone
                      /\ state'[u] = "EXIT" => state[u] = "EXIT"
                      /\ state'[u] = "RUN" <=> state[u] = "RUN"
                      /\ state[u] = "INIT" => state'[u] = "INIT"
  <2>1. ASSUME NEW u \in Task
        PROVE  /\ state[u] \in Gone <=> state'[u] \in Gone
               /\ state'[u] = "EXIT" => state[u] = "EXIT"
               /\ state'[u] = "RUN" <=> state[u] = "RUN"
               /\ state[u] = "INIT" => state'[u] = "INIT"
    <3>1. Like(state[u], state'[u])
      BY Zenon
    <3> QED
      BY ONLY <3>1 DEF Like, Gone
  <2> QED
    BY <2>1, Zenon
<1>5. ASSUME NEW u \in Task PROVE OfTask(u)'
  <2>1. CASE u = t
    <3>1. Running(t)
      BY Zenon DEF Running
    <3> QED
      BY <1>3, <1>4, <2>1, <3>1, Zenon DEF Ctl, OfTask
  <2>2. CASE u # t
    <3>1. u \in Flow \ {t} /\ u \in Task \ {t}
      BY <2>2, Numbers, Zenon
    <3>2. pc'[u] = pc[u] /\ ret'[u] = ret[u] /\ idx'[u] = idx[u] /\ pos'[u] = pos[u] /\ OfTask(u)
      BY <3>1, Zenon DEF Ctl
    <3> QED
      BY <1>3, <1>4, <3>2, Zenon DEF OfTask
  <2> QED
    BY <2>1, <2>2, Zenon
<1>6. Forking'
  <2>1. \A u \in Task \ {t} : pc'[u] = pc[u] /\ newtask'[u] = newtask[u]
    BY Numbers, Zenon
  <2>2. \A u \in Task : pc[u] = "fork" => newtask[u] \in Task /\ state'[newtask[u]] = "INIT"
    BY <1>4, Zenon DEF Ctl, Forking
  <2>3. ASSUME NEW u \in Task, NEW v \in Task, pc'[u] = "fork", pc'[v] = "fork", newtask'[v] = newtask'[u]
        PROVE  v = u
    <3>1. CASE u # t /\ v # t
      <4>1. pc[u] = "fork" /\ pc[v] = "fork" /\ newtask[v] = newtask[u]
        BY <2>1, <2>3, <3>1
      <4>2. Forking
        BY Zenon DEF Ctl
      <4> QED
        BY ONLY u \in Task, v \in Task, <4>1, <4>2 DEF Forking
    <3>2. CASE u = t /\ v # t
      BY <2>1, <2>3, <3>2, Zenon
    <3>3. CASE u # t /\ v = t
      BY <2>1, <2>3, <3>3, Zenon
    <3> QED
      BY <3>1, <3>2, <3>3, Zenon
  <2>4. ASSUME NEW u \in Task, pc'[u] = "fork"
        PROVE  newtask'[u] \in Task /\ state'[newtask'[u]] = "INIT"
    BY <2>1, <2>2, <2>4, Zenon
  <2> QED
    BY <2>3, <2>4, Zenon DEF Forking
<1> QED
  BY <1>1, <1>2, <1>5, <1>6, Zenon DEF Ctl

(* The tree survives when no state changes in what it says of the tree.    *)
LEMMA SameTree ==
    ASSUME Tree, Types, UNCHANGED <<parent, childs, abandoned>>,
           \A u \in Task : /\ state'[u] \in Gone <=> state[u] \in Gone
                           /\ state'[u] \in Unused <=> state[u] \in Unused
    PROVE  Tree'
<1>1. \A u \in Task : \A v \in Elems(childs[u]) : v \in Task
  BY Listed, Zenon DEF Types
<1>2. abandoned \subseteq Task
  BY Zenon DEF Types
<1> QED
  BY <1>1, <1>2, Zenon DEF Tree

(* What a function is that changes at one flow, or not at all.             *)
LEMMA Keep ==
    ASSUME Types, NEW f \in Flow
    PROVE  /\ pc = [pc EXCEPT ![f] = pc[f]] /\ ret = [ret EXCEPT ![f] = ret[f]]
           /\ idx = [idx EXCEPT ![f] = idx[f]]
           /\ pc[f] \in CpuPlace \cup TaskPlace /\ ret[f] \in Caller /\ idx[f] \in 0 .. NPROC
  BY DEF Types

(* A wakeup changes states from SLEEP to READY.                            *)
Roused == \A u \in Task : state'[u] = state[u] \/ (state[u] = "SLEEP" /\ state'[u] = "READY")

LEMMA RousedTree ==
    ASSUME Tree, Types, state' \in [Task -> TaskState], Roused, UNCHANGED <<parent, childs, abandoned>>
    PROVE  /\ Tree' /\ \A u \in Task : Like(state[u], state'[u])
           /\ \A u \in Task : state'[u] \in Gone <=> state[u] \in Gone
<1>1. \A u \in Task : /\ state'[u] \in Gone <=> state[u] \in Gone
                      /\ state'[u] \in Unused <=> state[u] \in Unused
  BY Zenon DEF Roused, Gone, Unused
<1>2. Tree'
  BY <1>1, SameTree, Zenon
<1>3. \A u \in Task : Like(state[u], state'[u])
  BY Zenon DEF Roused, Like
<1> QED
  BY <1>1, <1>2, <1>3, Zenon

(* The invariant survives a task going from one place to another, when no  *)
(* list changes and no CPU switches.                                       *)
LEMMA StayTask ==
    ASSUME TInv, ~trodden, NEW c \in Cpu, NEW t \in Task, run[c] = t,
           NEW l \in TaskPlace, NEW r \in Caller, NEW i \in 0 .. NPROC,
           pc' = [pc EXCEPT ![t] = l], ret' = [ret EXCEPT ![t] = r], idx' = [idx EXCEPT ![t] = i],
           state' \in [Task -> TaskState], Roused,
           pos' \in [Task -> Nat], \A u \in Task \ {t} : pos'[u] = pos[u],
           Fits(t, l, r, i, pos'[t]), Dying(l, r) <=> Dying(pc[t], ret[t]),
           l # "fork", l = "adopt" => childs[t] # <<>>,
           UNCHANGED <<run, newtask, parent, childs, abandoned, trodden>>
    PROVE  TInv'
<1>1. Types /\ Tree /\ Ctl
  BY Zenon DEF TInv
<1>2. Types'
  BY <1>1, Numbers DEF Types
<1>3. /\ t \in Flow /\ pc'[t] = l /\ ret'[t] = r /\ idx'[t] = i
      /\ \A f \in Flow \ {t} : pc'[f] = pc[f] /\ ret'[f] = ret[f] /\ idx'[f] = idx[f]
      /\ \A u \in Task \ {t} : pc'[u] = pc[u] /\ pos'[u] = pos[u] /\ newtask'[u] = newtask[u]
  BY <1>1, Numbers DEF Types
<1>4. /\ Tree' /\ \A u \in Task : Like(state[u], state'[u])
      /\ \A u \in Task : state'[u] \in Gone <=> state[u] \in Gone
  BY <1>1, RousedTree, Zenon
<1>5. state'[0] \notin Gone
  BY <1>1, <1>4, Numbers, Zenon DEF Ctl
<1>a. Adopting'
  <2>1. ASSUME NEW u \in Task, pc'[u] = "adopt" PROVE childs[u] # <<>>
    BY <1>1, <1>3, <2>1, Zenon DEF Ctl, Adopting
  <2> QED
    BY <2>1, Zenon DEF Adopting
<1>6. Ctl'
  <2>1. /\ Fits(t, pc'[t], ret'[t], idx'[t], pos'[t]) /\ pc'[t] # "fork"
        /\ Dying(pc'[t], ret'[t]) <=> Dying(pc[t], ret[t])
    BY <1>3, Zenon
  <2>2. \A f \in Flow \ {t} : pc'[f] = pc[f] /\ ret'[f] = ret[f] /\ idx'[f] = idx[f]
    BY <1>3, Zenon
  <2>3. \A u \in Task \ {t} : pos'[u] = pos[u] /\ newtask'[u] = newtask[u]
    BY <1>3, Zenon
  <2>4. UNCHANGED run /\ \A u \in Task : Like(state[u], state'[u])
    BY <1>4, Zenon
  <2> QED
    BY <1>1, <1>2, <1>5, <1>a, <2>1, <2>2, <2>3, <2>4, MoveTask
<1> QED
  BY <1>2, <1>4, <1>6, Zenon DEF TInv

(* ... or a scheduler.                                                     *)
LEMMA StayCpu ==
    ASSUME TInv, ~trodden, NEW c \in Cpu, run[c] = c,
           NEW l \in CpuPlace, NEW i \in 0 .. NPROC, l # "wake" => i \in Task,
           pc' = [pc EXCEPT ![c] = l], ret' = ret, idx' = [idx EXCEPT ![c] = i],
           state' \in [Task -> TaskState], Roused,
           UNCHANGED <<run, newtask, parent, childs, pos, abandoned, trodden>>
    PROVE  TInv'
<1>1. Types /\ Tree /\ Ctl
  BY Zenon DEF TInv
<1>2. Types'
  BY <1>1, Numbers DEF Types
<1>3. /\ pc'[c] = l /\ idx'[c] = i
      /\ \A d \in Cpu \ {c} : pc'[d] = pc[d] /\ idx'[d] = idx[d]
      /\ \A u \in Task : pc'[u] = pc[u] /\ idx'[u] = idx[u]
  BY <1>1, Numbers DEF Types
<1>4. /\ Tree' /\ \A u \in Task : Like(state[u], state'[u])
      /\ \A u \in Task : state'[u] \in Gone <=> state[u] \in Gone
  BY <1>1, RousedTree, Zenon
<1>5. \A u \in Task : /\ state'[u] = "EXIT" <=> state[u] = "EXIT"
                      /\ state'[u] = "RUN" <=> state[u] = "RUN"
                      /\ state'[u] = "INIT" <=> state[u] = "INIT"
                      /\ Running(u)' <=> Running(u)
  BY Zenon DEF Roused, Running
<1>6. ASSUME NEW d \in Cpu PROVE OnCpu(d)'
  BY <1>1, <1>3, Zenon DEF Ctl, OnCpu
<1>7. ASSUME NEW u \in Task PROVE OfTask(u)'
  BY <1>1, <1>3, <1>4, <1>5, Zenon DEF Ctl, OfTask
<1>8. Alone' /\ Adopting' /\ state'[0] \notin Gone
  BY <1>1, <1>3, <1>4, Numbers, Zenon DEF Ctl, Alone, Adopting
<1>9. Forking'
  <2>1. ASSUME NEW u \in Task, pc'[u] = "fork"
        PROVE  /\ newtask'[u] \in Task /\ state'[newtask'[u]] = "INIT"
               /\ \A v \in Task : pc'[v] = "fork" /\ newtask'[v] = newtask'[u] => v = u
    <3>1. pc[u] = "fork" /\ Forking
      BY <1>1, <1>3, <2>1, Zenon DEF Ctl
    <3>2. newtask[u] \in Task /\ state[newtask[u]] = "INIT"
      BY <3>1, Zenon DEF Forking
    <3>3. state'[newtask[u]] = "INIT"
      BY <1>5, <3>2, Zenon
    <3>4. \A v \in Task : pc'[v] = "fork" /\ newtask[v] = newtask[u] => v = u
      BY <1>3, <3>1, Zenon DEF Forking
    <3> QED
      BY <3>2, <3>3, <3>4, Zenon
  <2> QED
    BY <2>1, Zenon DEF Forking
<1> QED
  BY <1>2, <1>4, <1>6, <1>7, <1>8, <1>9, Zenon DEF TInv, Ctl
-----------------------------------------------------------------------------
(* The invariant survives task_schedule switching to a READY task.         *)
LEMMA PickTInv ==
    ASSUME TInv, ~trodden, NEW c \in Cpu, run[c] = c, Pick(c), state[idx[c]] = "READY", UNCHANGED lvars
    PROVE  TInv'
<1>1. Types /\ Tree /\ Ctl
  BY Zenon DEF TInv
<1>2. pc[c] = "pick"
  BY Zenon DEF Pick, At
<1>3. PICK x \in Task : x = idx[c]
  BY <1>1, <1>2, Zenon DEF Ctl, OnCpu
<1>4. /\ pc' = [pc EXCEPT ![c] = "back"] /\ state' = [state EXCEPT ![x] = "RUN"]
      /\ run' = [run EXCEPT ![c] = x]
      /\ UNCHANGED <<ret, idx, newtask, parent, childs, pos, abandoned, trodden>>
  BY <1>3, Zenon DEF Pick, Goto, lvars
<1>5. Types'
  BY <1>1, <1>4, Numbers DEF Types, CpuPlace, TaskState, State
<1>6. /\ pc'[c] = "back" /\ run'[c] = x /\ state'[x] = "RUN" /\ state[x] = "READY"
      /\ \A d \in Cpu \ {c} : pc'[d] = pc[d] /\ run'[d] = run[d]
      /\ \A u \in Task : pc'[u] = pc[u]
      /\ \A u \in Task \ {x} : state'[u] = state[u]
  BY <1>1, <1>3, <1>4, Numbers DEF Types
<1>7. Tree'
  <2>1. \A u \in Task : /\ state'[u] \in Gone <=> state[u] \in Gone
                        /\ state'[u] \in Unused <=> state[u] \in Unused
    BY <1>6, Zenon DEF Gone, Unused
  <2> QED
    BY <1>1, <1>4, <2>1, SameTree, Zenon
<1>8. ~Running(x) /\ ~Dying(pc[x], ret[x])
  <2>1. state[x] \notin Gone /\ state[x] # "RUN" /\ OfTask(x)
    BY <1>1, <1>6, Zenon DEF Gone, Ctl
  <2> QED
    BY <2>1, Zenon DEF OfTask
<1>9. ASSUME NEW d \in Cpu PROVE OnCpu(d)'
  <2>1. OnCpu(d) /\ idx'[d] = idx[d] /\ ret'[d] = ret[d]
    BY <1>1, <1>4, Zenon DEF Ctl
  <2>2. CASE d = c
    BY <1>2, <1>6, <2>1, <2>2, Zenon DEF OnCpu, CpuPlace
  <2>3. CASE d # c
    BY <1>6, <2>1, <2>3, Zenon DEF OnCpu
  <2> QED
    BY <2>2, <2>3, Zenon
<1>10. \A u \in Task \ {x} : Running(u)' <=> Running(u)
  <2>1. c \notin Task
    BY Numbers
  <2> QED
    BY <1>6, <2>1 DEF Running
<1>11. ASSUME NEW u \in Task PROVE OfTask(u)'
  <2>1. OfTask(u) /\ pc'[u] = pc[u] /\ UNCHANGED <<ret, idx, pos>>
    BY <1>1, <1>4, <1>6, Zenon DEF Ctl
  <2>2. CASE u = x
    <3>1. Running(x)'
      BY <1>6, Zenon DEF Running
    <3> QED
      BY <1>6, <1>8, <2>1, <2>2, <3>1, Zenon DEF OfTask
  <2>3. CASE u # x
    BY <1>6, <1>10, <2>1, <2>3, Zenon DEF OfTask
  <2> QED
    BY <2>2, <2>3, Zenon
<1>12. Alone'
  <2>1. \A d \in Cpu : run[d] # x
    BY <1>8, Zenon DEF Running
  <2> QED
    BY <1>1, <1>6, <2>1 DEF Ctl, Alone
<1>13. Forking'
  <2>1. \A u \in Task : pc[u] = "fork" => newtask[u] \in Task \ {x}
    BY <1>1, <1>6, Zenon DEF Ctl, Forking
  <2> QED
    BY <1>1, <1>4, <1>6, <2>1 DEF Ctl, Forking
<1>14. Adopting' /\ state'[0] \notin Gone
  BY <1>1, <1>4, <1>6, Numbers DEF Ctl, Adopting, Gone
<1> QED
  BY <1>5, <1>7, <1>9, <1>11, <1>12, <1>13, <1>14, Zenon DEF TInv, Ctl

(* The invariant survives a task giving up its CPU at l in state s: in     *)
(* yield, in sleep and for the last time.                                  *)
LEMMA OffTInv ==
    ASSUME TInv, ~trodden, NEW c \in Cpu, NEW t \in Task, run[c] = t,
           NEW l \in OffPlace, NEW s \in TaskState \ {"RUN"},
           run' = [run EXCEPT ![c] = c], pc' = [pc EXCEPT ![t] = l], state' = [state EXCEPT ![t] = s],
           Fits(t, l, ret[t], idx[t], pos[t]),
           Dying(l, ret[t]) => s \in Gone, s = "EXIT" => Dying(l, ret[t]),
           state[t] = "INIT" => s = "INIT",
           s \in Gone <=> state[t] \in Gone, s \in Unused <=> state[t] \in Unused,
           UNCHANGED <<ret, idx, newtask, parent, childs, pos, abandoned, trodden>>
    PROVE  TInv'
<1>1. Types /\ Tree /\ Ctl
  BY Zenon DEF TInv
<1>2. Types'
  <2>1. l \in TaskPlace
    BY Zenon DEF TaskPlace
  <2> QED
    BY <1>1, <2>1, Numbers DEF Types
<1>3. /\ run'[c] = c /\ c \notin Task /\ pc'[t] = l /\ state'[t] = s
      /\ \A d \in Cpu \ {c} : run'[d] = run[d]
      /\ \A d \in Cpu : pc'[d] = pc[d]
      /\ \A u \in Task \ {t} : pc'[u] = pc[u] /\ state'[u] = state[u]
  BY <1>1, Numbers DEF Types
<1>4. Tree'
  <2>1. \A u \in Task : /\ state'[u] \in Gone <=> state[u] \in Gone
                        /\ state'[u] \in Unused <=> state[u] \in Unused
    BY <1>3, Zenon
  <2> QED
    BY <1>1, <2>1, SameTree, Zenon
<1>5. ASSUME NEW d \in Cpu PROVE OnCpu(d)'
  <2>1. OnCpu(d) /\ pc'[d] = pc[d] /\ run'[d] \in {run[d], d}
    BY <1>1, <1>3, Zenon DEF Ctl
  <2> QED
    BY <2>1, Zenon DEF OnCpu
<1>6. ~Running(t)'
  BY <1>1, <1>3 DEF Running, Ctl, Alone
<1>7. \A u \in Task \ {t} : Running(u)' <=> Running(u)
  BY <1>3 DEF Running
<1>8. ASSUME NEW u \in Task PROVE OfTask(u)'
  <2>1. CASE u = t
    BY <1>3, <1>6, <2>1 DEF OfTask
  <2>2. CASE u # t
    <3>1. OfTask(u) /\ pc'[u] = pc[u] /\ state'[u] = state[u] /\ (Running(u)' <=> Running(u))
      BY <1>1, <1>3, <1>7, <2>2, Zenon DEF Ctl
    <3> QED
      BY <3>1, Zenon DEF OfTask
  <2> QED
    BY <2>1, <2>2, Zenon
<1>9. Alone'
  BY <1>1, <1>3 DEF Ctl, Alone
<1>10. \A u \in Task : pc'[u] = "fork" \/ pc'[u] = "adopt" => pc'[u] = pc[u]
  BY <1>3, Zenon DEF OffPlace
<1>11. Forking'
  <2>1. \A u \in Task : state[u] = "INIT" => state'[u] = "INIT"
    BY <1>3, Zenon
  <2>2. \A u \in Task : pc[u] = "fork" => newtask[u] \in Task /\ state'[newtask[u]] = "INIT"
    BY <1>1, <2>1, Zenon DEF Ctl, Forking
  <2> QED
    BY <1>1, <1>10, <2>2 DEF Ctl, Forking
<1>12. Adopting' /\ state'[0] \notin Gone
  BY <1>1, <1>3, <1>10, Numbers DEF Ctl, Adopting
<1> QED
  BY <1>2, <1>4, <1>5, <1>8, <1>9, <1>11, <1>12, Zenon DEF TInv, Ctl
-----------------------------------------------------------------------------
(* The invariant survives the end of a task, in sys_exit, in kill or in    *)
(* the kill inside sys_wait.                                               *)
LEMMA ExitTInv ==
    ASSUME TInv, ~trodden, NEW c \in Cpu, NEW t \in Task \ {0}, run[c] = t,
           pc[t] \in {"kernel", "orphan", "look"}, SetExit(c),
           childs' \in [Task -> Seq(Task)], \A u \in Task \ {t} : childs'[u] = childs[u],
           Distinct(childs'[t]), Elems(childs'[t]) \subseteq Elems(childs[t]),
           abandoned' = abandoned \cup Elems(childs[t])
    PROVE  TInv'
<1>1. Types /\ Tree /\ Ctl
  BY Zenon DEF TInv
<1>2. /\ state' = [state EXCEPT ![t] = "EXIT"] /\ pc' = [pc EXCEPT ![t] = "wake"]
      /\ ret' = [ret EXCEPT ![t] = "bury"] /\ idx' = [idx EXCEPT ![t] = 0]
      /\ pos' = [pos EXCEPT ![t] = 0]
      /\ UNCHANGED <<run, newtask, parent, trodden>>
  BY Zenon DEF SetExit, Goto
<1>3. Elems(childs[t]) \subseteq Task
  BY <1>1, Listed, Zenon DEF Types
<1>4. Types'
  BY <1>1, <1>2, <1>3, Numbers DEF Types, TaskState, TaskPlace, Caller
<1>5. /\ state'[t] = "EXIT" /\ pc'[t] = "wake" /\ ret'[t] = "bury"
      /\ \A u \in Task \ {t} : /\ state'[u] = state[u] /\ pc'[u] = pc[u] /\ ret'[u] = ret[u]
                               /\ idx'[u] = idx[u] /\ pos'[u] = pos[u]
      /\ \A d \in Cpu : pc'[d] = pc[d] /\ ret'[d] = ret[d] /\ idx'[d] = idx[d]
  <2>1. state'[t] = "EXIT" /\ \A u \in Task \ {t} : state'[u] = state[u] /\ pos'[u] = pos[u]
    BY <1>1, <1>2 DEF Types
  <2>2. /\ pc'[t] = "wake" /\ ret'[t] = "bury"
        /\ \A f \in Flow \ {t} : pc'[f] = pc[f] /\ ret'[f] = ret[f] /\ idx'[f] = idx[f]
    BY <1>1, <1>2, Numbers DEF Types
  <2>3. /\ \A d \in Cpu : d \in Flow \ {t}
        /\ \A u \in Task \ {t} : u \in Flow \ {t}
    BY Numbers, Zenon
  <2> QED
    BY <2>1, <2>2, <2>3, Zenon
<1>6. state[t] = "RUN"
  <2>1. OfTask(t) /\ Running(t)
    BY <1>1, Zenon DEF Ctl, Running
  <2>2. ~Dying(pc[t], ret[t])
    BY Zenon DEF Dying
  <2> QED
    BY <2>1, <2>2, Zenon DEF OfTask
<1>7. Ctl'
  <2>1. ASSUME NEW d \in Cpu PROVE OnCpu(d)'
    <3>1. OnCpu(d) /\ pc'[d] = pc[d] /\ ret'[d] = ret[d] /\ idx'[d] = idx[d] /\ run'[d] = run[d]
      BY <1>1, <1>2, <1>5, Zenon DEF Ctl
    <3> QED
      BY <3>1, Zenon DEF OnCpu
  <2>2. Alone'
    BY <1>1, <1>2, Zenon DEF Ctl, Alone
  <2>3. \A u \in Task : Running(u)' <=> Running(u)
    BY <1>2, Zenon DEF Running
  <2>4. ASSUME NEW u \in Task PROVE OfTask(u)'
    <3>1. CASE u = t
      <4>1. Running(t)' /\ Dying(pc'[t], ret'[t]) /\ state'[t] \in Gone
        BY <1>2, <1>5, Zenon DEF Running, Dying, Gone
      <4>2. Fits(t, pc'[t], ret'[t], idx'[t], pos'[t])
        BY <1>5, Zenon DEF Fits, TaskPlace, Waiting
      <4> QED
        BY <3>1, <4>1, <4>2, Zenon DEF OfTask
    <3>2. CASE u # t
      <4>1. /\ OfTask(u) /\ state'[u] = state[u] /\ pc'[u] = pc[u] /\ ret'[u] = ret[u]
            /\ idx'[u] = idx[u] /\ pos'[u] = pos[u]
        BY <1>1, <1>5, <3>2, Zenon DEF Ctl
      <4> QED
        BY <2>3, <4>1, Zenon DEF OfTask
    <3> QED
      BY <3>1, <3>2, Zenon
  <2>5. Forking'
    <3>1. \A u \in Task : pc'[u] = "fork" => pc[u] = "fork"
      BY <1>5, Zenon
    <3>2. \A u \in Task : state[u] = "INIT" => state'[u] = "INIT"
      BY <1>5, <1>6, Zenon
    <3>3. \A u \in Task : pc[u] = "fork" => newtask[u] \in Task /\ state'[newtask[u]] = "INIT"
      BY <1>1, <3>2, Zenon DEF Ctl, Forking
    <3> QED
      BY <1>1, <1>2, <3>1, <3>3 DEF Ctl, Forking
  <2>6. Adopting' /\ state'[0] \notin Gone
    <3>1. 0 \in Task \ {t}
      BY Numbers
    <3>2. \A u \in Task : pc'[u] = "adopt" => u # t /\ pc[u] = "adopt"
      BY <1>5, Zenon
    <3> QED
      BY <1>1, <1>5, <3>1, <3>2, Zenon DEF Ctl, Adopting
  <2> QED
    BY <2>1, <2>2, <2>4, <2>5, <2>6, Zenon DEF Ctl
<1>8. Tree'
  <2>g. \A u \in Task : state'[u] \in Unused <=> state[u] \in Unused
    BY <1>5, <1>6, Zenon DEF Unused
  <2>k. \A u \in Task : Elems(childs'[u]) \subseteq Elems(childs[u]) /\ Elems(childs[u]) \subseteq Task
    BY <1>1, Listed, Zenon DEF Types
  <2>1. ASSUME NEW u \in Task PROVE Distinct(childs'[u])
    BY <1>1, Zenon DEF Tree
  <2>2. ASSUME NEW u \in Task, NEW v \in Elems(childs'[u])
        PROVE  /\ parent'[v] = u /\ v # 0 /\ state'[v] \notin Unused
               /\ v \in abandoned' <=> state'[u] \in Gone
    <3>1. v \in Elems(childs[u]) /\ v \in Task
      BY <2>k, <2>2, Zenon
    <3>2. /\ parent[v] = u /\ v # 0 /\ state[v] \notin Unused
          /\ v \in abandoned <=> state[u] \in Gone
      BY <1>1, <3>1, Zenon DEF Tree
    <3>3. CASE u = t
      BY <1>2, <1>5, <2>g, <3>1, <3>2, <3>3, Zenon DEF Gone
    <3>4. CASE u # t
      <4>1. v \notin Elems(childs[t])
        BY <1>1, <3>2, <3>4, Zenon DEF Tree
      <4>2. state'[u] = state[u] /\ (v \in abandoned' <=> v \in abandoned) /\ parent'[v] = parent[v]
        BY <1>2, <1>5, <3>4, <4>1, Zenon
      <4>3. state'[v] \notin Unused
        BY <2>g, <3>1, <3>2, Zenon
      <4> QED
        BY <3>2, <4>2, <4>3, Zenon
    <3> QED
      BY <3>3, <3>4, Zenon
  <2>3. ASSUME NEW v \in abandoned' PROVE v # 0 /\ state'[v] \notin Unused
    <3>1. v \in Task /\ v # 0 /\ state[v] \notin Unused
      BY <1>1, <1>3, <2>3, Zenon DEF Tree, Types
    <3> QED
      BY <2>g, <3>1, Zenon
  <2>4. ASSUME NEW v \in Task \ ({0} \cup abandoned'), state'[v] \notin Unused
        PROVE  parent'[v] \in Task /\ v \in Elems(childs'[parent'[v]])
    <3>1. state[v] \notin Unused /\ v \notin abandoned /\ v \notin Elems(childs[t])
      BY <2>g, <2>4, Zenon
    <3>2. parent[v] \in Task /\ v \in Elems(childs[parent[v]])
      BY <1>1, <3>1, Zenon DEF Tree
    <3>3. parent[v] # t
      BY <3>1, <3>2, Zenon
    <3> QED
      BY <1>2, <3>2, <3>3, Zenon
  <2> QED
    BY <2>1, <2>2, <2>3, <2>4, Zenon DEF Tree
<1> QED
  BY <1>4, <1>7, <1>8, Zenon DEF TInv

(* The invariant survives sys_fork: the slot of the child was nobody's.    *)
LEMMA ForkTInv ==
    ASSUME TInv, ~trodden, NEW c \in Cpu, Fork(c)
    PROVE  TInv'
<1>1. Types /\ Tree /\ Ctl
  BY Zenon DEF TInv
<1>t. PICK t \in Task : t = run[c]
  BY Zenon DEF Fork, ForkReady, OnTask
<1>p. pc[t] = "fork" /\ Running(t)
  BY <1>t, Zenon DEF Fork, ForkReady, At, Running
<1>n. PICK n \in Task : n = newtask[t] /\ state[n] = "INIT"
  BY <1>1, <1>p, Zenon DEF Ctl, Forking
<1>e. state[t] = "RUN" /\ t # n /\ n # 0
  <2>1. OfTask(t) /\ ~Dying(pc[t], ret[t])
    BY <1>1, <1>p, Zenon DEF Ctl, Dying
  <2>2. state[t] = "RUN"
    BY <1>p, <2>1, Zenon DEF OfTask
  <2>3. n # 0
    BY <1>1, <1>n, Zenon DEF Ctl, Gone
  <2> QED
    BY <1>n, <2>2, <2>3, Zenon
<1>b. /\ pc' = [pc EXCEPT ![t] = "kernel", ![n] = "resume"] /\ ret' = [ret EXCEPT ![n] = "user"]
      /\ state' = [state EXCEPT ![n] = "READY"] /\ newtask' = [newtask EXCEPT ![t] = None]
      /\ parent' = [parent EXCEPT ![n] = t]
      /\ childs' = [childs EXCEPT ![n] = <<>>, ![t] = Append(@, n)]
      /\ abandoned' = abandoned \ {n}
      /\ trodden' = (\E d \in Cpu : run[d] = n)
      /\ UNCHANGED <<run, idx, pos>>
  BY <1>t, <1>n, Zenon DEF Fork, ForkReady
<1>s. childs[t] \in Seq(Task) /\ Append(childs[t], n) \in Seq(Task) /\ <<>> \in Seq(Task)
  BY <1>1 DEF Types
<1>2. Types'
  BY <1>1, <1>b, <1>s, Numbers DEF Types, TaskState, State, TaskPlace, OffPlace, Caller
<1>d. /\ pc'[t] = "kernel" /\ pc'[n] = "resume" /\ ret'[n] = "user" /\ state'[n] = "READY"
      /\ ret'[t] = ret[t] /\ state'[t] = state[t] /\ newtask'[t] = None /\ parent'[n] = t
      /\ \A u \in Task \ {t, n} : pc'[u] = pc[u] /\ ret'[u] = ret[u]
      /\ \A u \in Task \ {t} : newtask'[u] = newtask[u]
      /\ \A u \in Task \ {n} : state'[u] = state[u] /\ parent'[u] = parent[u]
      /\ \A d \in Cpu : pc'[d] = pc[d] /\ ret'[d] = ret[d]
  <2>1. \A d \in Cpu : d # t /\ d # n /\ d \in Flow
    BY Numbers
  <2>2. t \in Flow /\ n \in Flow /\ Task \subseteq Flow
    BY Numbers, Zenon
  <2>3. pc \in [Flow -> CpuPlace \cup TaskPlace] /\ ret \in [Flow -> Caller]
    BY <1>1, Zenon DEF Types
  <2>4. /\ pc'[t] = "kernel" /\ pc'[n] = "resume" /\ \A f \in Flow \ {t, n} : pc'[f] = pc[f]
        /\ ret'[n] = "user" /\ \A f \in Flow \ {n} : ret'[f] = ret[f]
    BY ONLY <1>b, <1>e, <2>2, <2>3
  <2>5. /\ state'[n] = "READY" /\ newtask'[t] = None /\ parent'[n] = t
        /\ \A u \in Task \ {t} : newtask'[u] = newtask[u]
        /\ \A u \in Task \ {n} : state'[u] = state[u] /\ parent'[u] = parent[u]
    BY <1>1, <1>b DEF Types
  <2> QED
    BY <1>e, <2>1, <2>2, <2>4, <2>5, Zenon
<1>k. /\ childs'[n] = <<>> /\ childs'[t] = Append(childs[t], n)
      /\ \A u \in Task \ {t, n} : childs'[u] = childs[u]
  BY <1>1, <1>b, <1>e DEF Types
<1>v. /\ \A u \in Task : \A v \in Elems(childs[u]) : v \in Task \ {n}
      /\ \A v \in abandoned : v \in Task \ {n}
  <2>1. \A u \in Task : \A v \in Elems(childs[u]) : v \in Task
    BY <1>1, Listed, Zenon DEF Types
  <2>2. state[n] \in Unused
    BY <1>n, Zenon DEF Unused
  <2>3. abandoned \subseteq Task
    BY <1>1, Zenon DEF Types
  <2> QED
    BY <1>1, <2>1, <2>2, <2>3, Zenon DEF Tree
<1>3. Tree'
  <2>e. Elems(<<>>) = {} /\ Distinct(<<>>)
    BY DEF Elems, Distinct
  <2>p. /\ Elems(childs'[n]) = {} /\ Elems(childs'[t]) = Elems(childs[t]) \cup {n}
        /\ \A u \in Task \ {t, n} : Elems(childs'[u]) = Elems(childs[u])
    BY <1>k, <1>s, <2>e, Pushed, Zenon
  <2>1. ASSUME NEW u \in Task PROVE Distinct(childs'[u])
    <3>1. Distinct(childs[u]) /\ Distinct(childs[t]) /\ n \notin Elems(childs[t])
      BY <1>1, <1>v, Zenon DEF Tree
    <3>2. Distinct(Append(childs[t], n))
      BY <1>s, <3>1, Pushed, Zenon
    <3> QED
      BY <1>k, <2>e, <3>1, <3>2, Zenon
  <2>2. ASSUME NEW u \in Task, NEW v \in Elems(childs'[u])
        PROVE  /\ parent'[v] = u /\ v # 0 /\ state'[v] \notin Unused
               /\ v \in abandoned' <=> state'[u] \in Gone
    <3>1. u # n
      BY <2>p, <2>2, Zenon
    <3>2. state'[u] = state[u]
      BY <1>d, <3>1, Zenon
    <3>3. CASE v = n
      <4>1. u = t
        BY <1>v, <2>p, <2>2, <3>1, <3>3, Zenon
      <4>2. state'[n] \notin Unused /\ state'[t] \notin Gone
        BY <1>d, <1>e, <3>2, <4>1, Zenon DEF Unused, Gone
      <4> QED
        BY <1>b, <1>d, <1>e, <3>3, <4>1, <4>2, Zenon
    <3>4. CASE v # n
      <4>1. v \in Elems(childs[u])
        BY <2>p, <2>2, <3>1, <3>4, Zenon
      <4>2. /\ parent[v] = u /\ v # 0 /\ state[v] \notin Unused
            /\ v \in abandoned <=> state[u] \in Gone
        BY <1>1, <4>1, Zenon DEF Tree
      <4>3. v \in Task \ {n}
        BY <1>v, <4>1, Zenon
      <4>4. parent'[v] = parent[v] /\ state'[v] = state[v] /\ (v \in abandoned' <=> v \in abandoned)
        BY <1>b, <1>d, <4>3, Zenon
      <4> QED
        BY ONLY <3>2, <4>2, <4>4, Zenon
    <3> QED
      BY <3>3, <3>4, Zenon
  <2>3. ASSUME NEW v \in abandoned' PROVE v # 0 /\ state'[v] \notin Unused
    <3>1. v \in abandoned /\ state'[v] = state[v]
      BY <1>b, <1>d, <1>v, <2>3, Zenon
    <3> QED
      BY <1>1, <3>1, Zenon DEF Tree
  <2>4. ASSUME NEW v \in Task \ ({0} \cup abandoned'), state'[v] \notin Unused
        PROVE  parent'[v] \in Task /\ v \in Elems(childs'[parent'[v]])
    <3>1. CASE v = n
      BY <1>d, <2>p, <3>1, Zenon
    <3>2. CASE v # n
      <4>1. /\ v \in Task \ ({0} \cup abandoned) /\ state'[v] = state[v] /\ parent'[v] = parent[v]
        BY <1>b, <1>d, <2>4, <3>2, Zenon
      <4>2. parent[v] \in Task /\ v \in Elems(childs[parent[v]])
        BY <1>1, <2>4, <4>1, Zenon DEF Tree
      <4>3. parent[v] # n
        <5>1. state[n] \in Gone
          BY <1>n, Zenon DEF Gone
        <5> QED
          BY <1>1, <4>1, <4>2, <5>1, Zenon DEF Tree
      <4> QED
        BY <2>p, <4>1, <4>2, <4>3, Zenon
    <3> QED
      BY <3>1, <3>2, Zenon
  <2> QED
    BY <2>1, <2>2, <2>3, <2>4, Zenon DEF Tree
<1>4. ASSUME ~trodden' PROVE Ctl'
  <2>1. ASSUME NEW d \in Cpu PROVE OnCpu(d)'
    <3>1. OnCpu(d) /\ pc'[d] = pc[d] /\ ret'[d] = ret[d] /\ UNCHANGED <<run, idx>>
      BY <1>1, <1>b, <1>d, Zenon DEF Ctl
    <3> QED
      BY <3>1, Zenon DEF OnCpu
  <2>2. Alone'
    BY <1>1, <1>b, Zenon DEF Ctl, Alone
  <2>3. ~Running(n)' /\ \A u \in Task : Running(u)' <=> Running(u)
    BY <1>b, <1>4, Zenon DEF Running
  <2>4. ASSUME NEW u \in Task PROVE OfTask(u)'
    <3>1. CASE u = t
      <4>1. Fits(t, pc'[t], ret'[t], idx'[t], pos'[t]) /\ ~Dying(pc'[t], ret'[t])
        BY <1>d, Zenon DEF Fits, Dying, TaskPlace, Waiting
      <4>2. Running(t)' /\ state'[t] = "RUN"
        BY <1>d, <1>e, <1>p, <2>3, Zenon
      <4> QED
        BY <3>1, <4>1, <4>2, Zenon DEF OfTask
    <3>2. CASE u = n
      <4>1. Fits(n, pc'[n], ret'[n], idx'[n], pos'[n]) /\ ~Dying(pc'[n], ret'[n])
        BY <1>d, Zenon DEF Fits, Dying, TaskPlace, OffPlace, Waiting
      <4> QED
        BY <1>d, <2>3, <3>2, <4>1, Zenon DEF OfTask, OffPlace
    <3>3. CASE u \notin {t, n}
      <4>1. OfTask(u) /\ pc'[u] = pc[u] /\ ret'[u] = ret[u] /\ state'[u] = state[u] /\ UNCHANGED <<idx, pos>>
        BY <1>1, <1>b, <1>d, <3>3, Zenon DEF Ctl
      <4> QED
        BY <2>3, <4>1, Zenon DEF OfTask
    <3> QED
      BY <3>1, <3>2, <3>3, Zenon
  <2>5. \A u \in Task : pc'[u] \in {"fork", "adopt"} => u \in Task \ {t, n} /\ pc[u] = pc'[u]
    BY <1>d, Zenon
  <2>6. Forking'
    <3>1. ASSUME NEW u \in Task, pc'[u] = "fork"
          PROVE  /\ u # t /\ pc[u] = "fork" /\ newtask'[u] = newtask[u]
                 /\ newtask[u] \in Task \ {n} /\ state[newtask[u]] = "INIT"
      <4>1. u # t /\ pc[u] = "fork" /\ newtask'[u] = newtask[u]
        BY <1>d, <2>5, <3>1, Zenon
      <4>2. newtask[u] # n
        BY <1>1, <1>n, <1>p, <4>1 DEF Ctl, Forking
      <4> QED
        BY <1>1, <4>1, <4>2, Zenon DEF Ctl, Forking
    <3>2. ASSUME NEW u \in Task, pc'[u] = "fork" PROVE newtask'[u] \in Task /\ state'[newtask'[u]] = "INIT"
      <4>1. newtask'[u] = newtask[u] /\ newtask[u] \in Task \ {n} /\ state[newtask[u]] = "INIT"
        BY <3>1, <3>2, Zenon
      <4> QED
        BY <1>d, <4>1, Zenon
    <3> QED
      BY <1>1, <3>1, <3>2 DEF Ctl, Forking
  <2>7. Adopting' /\ state'[0] \notin Gone
    <3>1. 0 \in Task \ {n}
      BY <1>e, Numbers
    <3>2. state'[0] \notin Gone
      BY <1>1, <1>d, <3>1, Zenon DEF Ctl
    <3>3. ASSUME NEW u \in Task, pc'[u] = "adopt" PROVE childs'[u] # <<>>
      <4>1. u \in Task \ {t, n} /\ pc[u] = "adopt"
        BY <2>5, <3>3, Zenon
      <4>2. childs[u] # <<>>
        BY <1>1, <4>1, Zenon DEF Ctl, Adopting
      <4> QED
        BY <1>k, <4>1, <4>2, Zenon
    <3> QED
      BY <3>2, <3>3, Zenon DEF Adopting
  <2> QED
    BY <2>1, <2>2, <2>4, <2>6, <2>7, Zenon DEF Ctl
<1> QED
  BY <1>2, <1>3, <1>4, Zenon DEF TInv

(* The invariant survives sys_exit handing a child to init.                *)
LEMMA AdoptTInv ==
    ASSUME TInv, ~trodden, NEW c \in Cpu, OnTask(c), Adopt(c)
    PROVE  TInv'
<1>1. Types /\ Tree /\ Ctl
  BY Zenon DEF TInv
<1>t. PICK t \in Task : t = run[c]
  BY Zenon DEF OnTask
<1>p. pc[t] = "adopt" /\ Running(t) /\ OfTask(t)
  BY <1>1, <1>t, Zenon DEF Adopt, At, Running, Ctl
<1>e. state[t] = "RUN" /\ t # 0 /\ childs[t] # <<>> /\ ~Dying(pc[t], ret[t])
  <2>1. ~Dying(pc[t], ret[t]) /\ t # 0
    BY <1>p, Zenon DEF OfTask, Fits, Dying
  <2> QED
    BY <1>1, <1>p, <2>1, Zenon DEF OfTask, Ctl, Adopting
<1>0. 0 \in Task /\ state[0] \notin Gone
  BY <1>1, Numbers, Zenon DEF Ctl
<1>s. childs[t] \in Seq(Task) /\ childs[0] \in Seq(Task)
  BY <1>0, <1>1, Zenon DEF Types
<1>w. PICK w \in Task : w = Head(childs[t]) /\ w \in Elems(childs[t]) /\ Tail(childs[t]) \in Seq(Task)
  BY <1>e, <1>s, Popped, Zenon
<1>b. /\ parent' = [parent EXCEPT ![w] = 0]
      /\ childs' = [childs EXCEPT ![t] = Tail(@), ![0] = Append(@, w)]
      /\ pc' = [pc EXCEPT ![t] = "orphan"]
      /\ UNCHANGED <<state, run, ret, idx, newtask, pos, abandoned, trodden>>
  BY <1>t, <1>w, Zenon DEF Adopt, Goto
<1>f. Append(childs[0], w) \in Seq(Task)
  BY <1>s
<1>2. Types'
  BY <1>0, <1>1, <1>b, <1>e, <1>f, <1>w, Numbers DEF Types, TaskPlace
<1>d. /\ pc'[t] = "orphan" /\ \A f \in Flow \ {t} : pc'[f] = pc[f]
      /\ parent'[w] = 0 /\ \A u \in Task \ {w} : parent'[u] = parent[u]
  BY <1>1, <1>b, Numbers DEF Types
<1>k. /\ childs'[t] = Tail(childs[t]) /\ childs'[0] = Append(childs[0], w)
      /\ \A u \in Task \ {0, t} : childs'[u] = childs[u]
  BY <1>0, <1>1, <1>b, <1>e DEF Types
<1>q. /\ w # 0 /\ parent[w] = t /\ state[w] \notin Unused /\ w \notin abandoned
      /\ \A u \in Task \ {t} : w \notin Elems(childs[u])
      /\ Distinct(childs[t]) /\ Distinct(childs[0])
  <2>1. state[t] \notin Gone
    BY <1>e, Zenon DEF Gone
  <2>2. w # 0 /\ parent[w] = t /\ state[w] \notin Unused /\ w \notin abandoned
    BY <1>1, <1>w, <2>1, Zenon DEF Tree
  <2>3. \A u \in Task \ {t} : w \notin Elems(childs[u])
    BY <1>1, <2>2, Zenon DEF Tree
  <2>4. Distinct(childs[t]) /\ Distinct(childs[0])
    BY <1>0, <1>1, Zenon DEF Tree
  <2> QED
    BY <2>2, <2>3, <2>4, Zenon
<1>m. /\ Elems(childs'[0]) = Elems(childs[0]) \cup {w} /\ Distinct(childs'[0])
      /\ Elems(childs'[t]) = Elems(childs[t]) \ {w} /\ Distinct(childs'[t])
  <2>1. w \notin Elems(childs[0])
    BY <1>0, <1>e, <1>q, Zenon
  <2>2. Elems(childs'[0]) = Elems(childs[0]) \cup {w} /\ Distinct(childs'[0])
    BY <1>k, <1>q, <1>s, <2>1, Pushed, Zenon
  <2>3. Elems(childs'[t]) = Elems(childs[t]) \ {w} /\ Distinct(childs'[t])
    BY <1>e, <1>k, <1>q, <1>s, <1>w, Popped, Zenon
  <2> QED
    BY <2>2, <2>3, Zenon
<1>3. Tree'
  <2>1. ASSUME NEW u \in Task PROVE Distinct(childs'[u])
    BY <1>1, <1>k, <1>m, Zenon DEF Tree
  <2>2. ASSUME NEW u \in Task, NEW v \in Elems(childs'[u])
        PROVE  /\ parent'[v] = u /\ v # 0 /\ state[v] \notin Unused
               /\ v \in abandoned <=> state[u] \in Gone
    <3>1. CASE v = w
      <4>1. u = 0
        BY <1>k, <1>m, <1>q, <2>2, <3>1, Zenon
      <4> QED
        BY <1>0, <1>d, <1>q, <3>1, <4>1, Zenon
    <3>2. CASE v # w
      <4>1. v \in Elems(childs[u])
        BY <1>k, <1>m, <2>2, <3>2, Zenon
      <4>2. v \in Task
        BY <1>1, <4>1, Listed, Zenon DEF Types
      <4> QED
        BY <1>1, <1>d, <3>2, <4>1, <4>2, Zenon DEF Tree
    <3> QED
      BY <3>1, <3>2, Zenon
  <2>3. ASSUME NEW v \in Task \ ({0} \cup abandoned), state[v] \notin Unused
        PROVE  parent'[v] \in Task /\ v \in Elems(childs'[parent'[v]])
    <3>1. CASE v = w
      BY <1>0, <1>d, <1>m, <3>1, Zenon
    <3>2. CASE v # w
      <4>1. parent'[v] = parent[v] /\ parent[v] \in Task /\ v \in Elems(childs[parent[v]])
        BY <1>1, <1>d, <2>3, <3>2, Zenon DEF Tree
      <4>2. v \in Elems(childs'[parent[v]])
        BY <1>k, <1>m, <3>2, <4>1, Zenon
      <4> QED
        BY <4>1, <4>2, Zenon
    <3> QED
      BY <3>1, <3>2, Zenon
  <2> QED
    BY <1>1, <1>b, <2>1, <2>2, <2>3, Zenon DEF Tree
<1>4. Ctl'
  <2>1. /\ Fits(t, pc'[t], ret'[t], idx'[t], pos'[t]) /\ pc'[t] # "fork"
        /\ Dying(pc'[t], ret'[t]) <=> Dying(pc[t], ret[t])
    BY <1>d, <1>e, Zenon DEF Fits, Dying, TaskPlace, Waiting
  <2>2. Adopting'
    <3>1. ASSUME NEW u \in Task, pc'[u] = "adopt" PROVE childs'[u] # <<>>
      <4>1. u # t /\ pc[u] = "adopt" /\ childs[u] # <<>>
        BY <1>1, <1>d, <3>1, Numbers, Zenon DEF Ctl, Adopting
      <4>2. u # 0
        BY <1>1, <4>1, Zenon DEF Ctl, OfTask, Fits
      <4> QED
        BY <1>k, <4>1, <4>2, Zenon
    <3> QED
      BY <3>1, Zenon DEF Adopting
  <2>3. \A f \in Flow \ {t} : pc'[f] = pc[f] /\ ret'[f] = ret[f] /\ idx'[f] = idx[f]
    BY <1>b, <1>d, Zenon
  <2>4. \A u \in Task \ {t} : pos'[u] = pos[u] /\ newtask'[u] = newtask[u]
    BY <1>b, Zenon
  <2>5. UNCHANGED run /\ state'[0] \notin Gone /\ \A u \in Task : Like(state[u], state'[u])
    BY <1>0, <1>b, Zenon DEF Like
  <2> QED
    BY <1>1, <1>2, <1>t, <2>1, <2>2, <2>3, <2>4, <2>5, MoveTask
<1> QED
  BY <1>2, <1>3, <1>4, Zenon DEF TInv

(* What sys_wait has found when it takes a child off the list.             *)
LEMMA FoundChild ==
    ASSUME TInv, ~trodden, NEW c \in Cpu, OnTask(c), Found(c)
    PROVE  /\ childs' \in [Task -> Seq(Task)] /\ run[c] \in Task
           /\ pc[run[c]] = "look" /\ state[run[c]] = "RUN" /\ ~Dying(pc[run[c]], ret[run[c]])
           /\ \E w \in Task : /\ w = childs[run[c]][pos[run[c]]] /\ state[w] = "EXIT"
                              /\ w \in Elems(childs[run[c]])
                              /\ Elems(childs'[run[c]]) = Elems(childs[run[c]]) \ {w}
           /\ Distinct(childs'[run[c]])
           /\ \A u \in Task \ {run[c]} : childs'[u] = childs[u]
<1>1. Types /\ Tree /\ Ctl
  BY Zenon DEF TInv
<1>t. PICK t \in Task : t = run[c]
  BY Zenon DEF OnTask
<1>p. pc[t] = "look" /\ Running(t) /\ OfTask(t)
  BY <1>1, <1>t, Zenon DEF Found, At, Running, Ctl
<1>e. state[t] = "RUN" /\ pos[t] > 0 /\ ~Dying(pc[t], ret[t])
  <2>1. ~Dying(pc[t], ret[t]) /\ pos[t] > 0
    BY <1>p, Zenon DEF OfTask, Fits, Dying
  <2> QED
    BY <1>p, <2>1, Zenon DEF OfTask
<1>s. /\ childs[t] \in Seq(Task) /\ pos[t] \in 1 .. Len(childs[t])
      /\ state[childs[t][pos[t]]] = "EXIT"
      /\ childs' = [childs EXCEPT ![t] = Without(@, pos[t])]
  <2>1. childs[t] \in Seq(Task) /\ pos[t] \in Nat /\ pos[t] <= Len(childs[t])
    BY <1>1, <1>t, Zenon DEF Types, Found
  <2>2. pos[t] \in 1 .. Len(childs[t])
    BY <1>e, <2>1
  <2> QED
    BY <1>t, <2>1, <2>2, Zenon DEF Found
<1>r. /\ childs[t][pos[t]] \in Elems(childs[t]) /\ childs[t][pos[t]] \in Task
      /\ Without(childs[t], pos[t]) \in Seq(Task)
      /\ Elems(Without(childs[t], pos[t])) = Elems(childs[t]) \ {childs[t][pos[t]]}
      /\ Distinct(Without(childs[t], pos[t]))
  <2>1. Distinct(childs[t])
    BY <1>1, Zenon DEF Tree
  <2> QED
    BY <1>s, <2>1, Removed, Zenon
<1>k. /\ childs' \in [Task -> Seq(Task)] /\ childs'[t] = Without(childs[t], pos[t])
      /\ \A u \in Task \ {t} : childs'[u] = childs[u]
  <2>1. childs \in [Task -> Seq(Task)]
    BY <1>1, Zenon DEF Types
  <2> QED
    BY <1>r, <1>s, <2>1, Zenon
<1> QED
  BY <1>e, <1>k, <1>p, <1>r, <1>s, <1>t, Zenon

(* The invariant survives sys_wait freeing a child, even one that a CPU    *)
(* still executes.                                                         *)
LEMMA ReapTInv ==
    ASSUME TInv, ~trodden, NEW c \in Cpu, OnTask(c), Reap(c)
    PROVE  TInv'
<1>1. Types /\ Tree /\ Ctl
  BY Zenon DEF TInv
<1>t. PICK t \in Task : t = run[c]
  BY Zenon DEF OnTask
<1>f. Found(c)
  BY Zenon DEF Reap
<1>e. /\ pc[t] = "look" /\ state[t] = "RUN" /\ ~Dying(pc[t], ret[t])
      /\ childs' \in [Task -> Seq(Task)] /\ Distinct(childs'[t])
      /\ \A u \in Task \ {t} : childs'[u] = childs[u]
  BY <1>f, <1>t, FoundChild, Zenon
<1>w. PICK w \in Task : /\ w = childs[t][pos[t]] /\ state[w] = "EXIT" /\ w \in Elems(childs[t])
                        /\ Elems(childs'[t]) = Elems(childs[t]) \ {w}
  BY <1>f, <1>t, FoundChild, Zenon
<1>b. /\ state' = [state EXCEPT ![w] = "FREE"] /\ pc' = [pc EXCEPT ![t] = "kernel"]
      /\ pos' = [pos EXCEPT ![t] = 0]
      /\ UNCHANGED <<run, ret, idx, newtask, parent, abandoned, trodden>>
  BY <1>t, <1>w, Zenon DEF Reap, Goto
<1>2. Types'
  BY <1>1, <1>b, <1>e, Numbers DEF Types, TaskState, State, TaskPlace
<1>d. /\ state'[w] = "FREE" /\ \A u \in Task \ {w} : state'[u] = state[u]
      /\ pc'[t] = "kernel" /\ \A f \in Flow \ {t} : pc'[f] = pc[f]
      /\ \A u \in Task \ {t} : pos'[u] = pos[u]
  BY <1>1, <1>b, Numbers DEF Types
<1>q. w # 0 /\ parent[w] = t /\ \A u \in Task \ {t} : w \notin Elems(childs[u])
  <2>1. w # 0 /\ parent[w] = t
    BY <1>1, <1>w, Zenon DEF Tree
  <2> QED
    BY <1>1, <2>1, Zenon DEF Tree
<1>m. \A u \in Task : Elems(childs'[u]) = Elems(childs[u]) \ {w}
  <2>1. ASSUME NEW u \in Task \ {t} PROVE Elems(childs'[u]) = Elems(childs[u]) \ {w}
    <3>1. childs'[u] = childs[u] /\ w \notin Elems(childs[u])
      BY <1>e, <1>q, Zenon
    <3> QED
      BY <3>1, Zenon
  <2> QED
    BY <1>w, <2>1, Zenon
<1>g. \A u \in Task : state'[u] \in Gone <=> state[u] \in Gone
  BY <1>d, <1>w, Zenon DEF Gone
<1>v. w \notin abandoned /\ \A u \in Task : \A v \in Elems(childs[u]) : v \in Task
  <2>1. state[t] \notin Gone
    BY <1>e, Zenon DEF Gone
  <2> QED
    BY <1>1, <1>w, <2>1, Listed, Zenon DEF Tree, Types
<1>3. Tree'
  <2>1. ASSUME NEW u \in Task PROVE Distinct(childs'[u])
    BY <1>1, <1>e, Zenon DEF Tree
  <2>2. ASSUME NEW u \in Task, NEW v \in Elems(childs'[u])
        PROVE  /\ parent[v] = u /\ v # 0 /\ state'[v] \notin Unused
               /\ v \in abandoned <=> state'[u] \in Gone
    <3>1. v \in Elems(childs[u]) /\ v \in Task \ {w}
      BY <1>m, <1>v, <2>2, Zenon
    <3>2. state'[v] = state[v]
      BY <1>d, <3>1, Zenon
    <3> QED
      BY <1>1, <1>g, <3>1, <3>2, Zenon DEF Tree
  <2>3. ASSUME NEW v \in abandoned PROVE v # 0 /\ state'[v] \notin Unused
    <3>1. v \in Task \ {w}
      BY <1>1, <1>v, <2>3, Zenon DEF Types
    <3>2. state'[v] = state[v]
      BY <1>d, <3>1, Zenon
    <3> QED
      BY <1>1, <2>3, <3>2, Zenon DEF Tree
  <2>4. ASSUME NEW v \in Task \ ({0} \cup abandoned), state'[v] \notin Unused
        PROVE  parent[v] \in Task /\ v \in Elems(childs'[parent[v]])
    <3>1. v # w
      BY <1>d, <2>4, Zenon DEF Unused
    <3>2. state'[v] = state[v]
      BY <1>d, <3>1, Zenon
    <3>3. parent[v] \in Task /\ v \in Elems(childs[parent[v]])
      BY <1>1, <2>4, <3>2, Zenon DEF Tree
    <3> QED
      BY <1>m, <3>1, <3>3, Zenon
  <2> QED
    BY <1>b, <2>1, <2>2, <2>3, <2>4, Zenon DEF Tree
<1>4. Ctl'
  <2>1. /\ Fits(t, pc'[t], ret'[t], idx'[t], pos'[t]) /\ pc'[t] # "fork"
        /\ Dying(pc'[t], ret'[t]) <=> Dying(pc[t], ret[t])
    BY <1>d, <1>e, Zenon DEF Fits, Dying, TaskPlace, Waiting
  <2>2. Adopting'
    <3>1. ASSUME NEW u \in Task, pc'[u] = "adopt" PROVE childs'[u] # <<>>
      <4>1. u # t /\ pc[u] = "adopt" /\ childs[u] # <<>>
        BY <1>1, <1>d, <3>1, Numbers, Zenon DEF Ctl, Adopting
      <4> QED
        BY <1>e, <4>1, Zenon
    <3> QED
      BY <3>1, Zenon DEF Adopting
  <2>3. \A f \in Flow \ {t} : pc'[f] = pc[f] /\ ret'[f] = ret[f] /\ idx'[f] = idx[f]
    BY <1>b, <1>d, Zenon
  <2>4. \A u \in Task \ {t} : pos'[u] = pos[u] /\ newtask'[u] = newtask[u]
    BY <1>b, <1>d, Zenon
  <2>5. UNCHANGED run /\ state'[0] \notin Gone /\ \A u \in Task : Like(state[u], state'[u])
    BY <1>1, <1>b, <1>d, <1>g, <1>w, Numbers, Zenon DEF Like, Ctl
  <2> QED
    BY <1>1, <1>2, <1>t, <2>1, <2>2, <2>3, <2>4, <2>5, MoveTask
<1> QED
  BY <1>2, <1>3, <1>4, Zenon DEF TInv

(* The invariant survives alloc_task taking a FREE slot.                   *)
LEMMA AllocTInv ==
    ASSUME TInv, ~trodden, NEW c \in Cpu, AllocProbe(c), state[idx[run[c]]] = "FREE", UNCHANGED lvars
    PROVE  TInv'
<1>1. Types /\ Tree /\ Ctl
  BY Zenon DEF TInv
<1>t. PICK t \in Task : t = run[c]
  BY Zenon DEF AllocProbe, OnTask
<1>p. pc[t] = "probe" /\ Running(t) /\ OfTask(t)
  BY <1>1, <1>t, Zenon DEF AllocProbe, At, Running, Ctl
<1>i. PICK i \in Task : i = idx[t] /\ state[i] = "FREE"
  BY <1>p, <1>t, Zenon DEF OfTask, Fits
<1>b. /\ state' = [state EXCEPT ![i] = "INIT"] /\ newtask' = [newtask EXCEPT ![t] = i]
      /\ idx' = [idx EXCEPT ![t] = 0] /\ pc' = [pc EXCEPT ![t] = "fork"]
      /\ UNCHANGED <<run, ret, parent, childs, pos, abandoned, trodden>>
  BY <1>i, <1>t, Zenon DEF AllocProbe, Goto, lvars
<1>2. Types'
  BY <1>1, <1>b, Numbers DEF Types, TaskState, State, TaskPlace
<1>d. /\ state'[i] = "INIT" /\ \A u \in Task \ {i} : state'[u] = state[u]
      /\ newtask'[t] = i /\ \A u \in Task \ {t} : newtask'[u] = newtask[u]
      /\ pc'[t] = "fork" /\ \A f \in Flow \ {t} : pc'[f] = pc[f] /\ idx'[f] = idx[f]
  BY <1>1, <1>b, Numbers DEF Types
<1>g. \A u \in Task : /\ state'[u] \in Gone <=> state[u] \in Gone
                      /\ state'[u] \in Unused <=> state[u] \in Unused
  BY <1>d, <1>i, Zenon DEF Gone, Unused
<1>3. Tree'
  BY <1>1, <1>b, <1>g, SameTree, Zenon
<1>4. Ctl'
  <2>1. /\ Fits(t, pc'[t], ret'[t], idx'[t], pos'[t])
        /\ Dying(pc'[t], ret'[t]) <=> Dying(pc[t], ret[t])
    BY <1>d, <1>p, Zenon DEF Fits, Dying, TaskPlace, Waiting
  <2>2. Adopting'
    <3>1. ASSUME NEW u \in Task, pc'[u] = "adopt" PROVE childs[u] # <<>>
      <4>1. pc[u] = "adopt"
        BY <1>d, <3>1, Numbers, Zenon
      <4> QED
        BY <1>1, <4>1, Zenon DEF Ctl, Adopting
    <3> QED
      BY <1>b, <3>1, Zenon DEF Adopting
  <2>3. \A f \in Flow \ {t} : pc'[f] = pc[f] /\ ret'[f] = ret[f] /\ idx'[f] = idx[f]
    BY <1>b, <1>d, Zenon
  <2>4. \A u \in Task \ {t} : pos'[u] = pos[u] /\ newtask'[u] = newtask[u]
    BY <1>b, <1>d, Zenon
  <2>5. UNCHANGED run /\ state'[0] \notin Gone
    BY <1>1, <1>b, <1>g, Numbers, Zenon DEF Ctl
  <2>6. \A u \in Task : Like(state[u], state'[u])
    BY <1>d, <1>i, Zenon DEF Like
  <2>7. /\ newtask'[t] \in Task /\ state'[newtask'[t]] = "INIT"
        /\ \A u \in Task : pc[u] = "fork" => newtask[u] # newtask'[t]
    <3>1. ASSUME NEW u \in Task, pc[u] = "fork" PROVE newtask[u] # i
      <4>1. state[newtask[u]] = "INIT"
        BY <1>1, <3>1, Zenon DEF Ctl, Forking
      <4> QED
        BY <1>i, <4>1, Zenon
    <3> QED
      BY <1>d, <3>1, Zenon
  <2> QED
    BY <1>1, <1>2, <1>t, <2>1, <2>2, <2>3, <2>4, <2>5, <2>6, <2>7, MoveTask
<1> QED
  BY <1>2, <1>3, <1>4, Zenon DEF TInv
-----------------------------------------------------------------------------
(* A step of a scheduler, or of a task, that StayCpu or StayTask covers.   *)
Still == UNCHANGED <<run, newtask, parent, childs, abandoned, trodden>>

CpuMove(c, l, i) ==
    /\ l # "wake" => i \in Task
    /\ pc' = [pc EXCEPT ![c] = l] /\ ret' = ret /\ idx' = [idx EXCEPT ![c] = i]
    /\ state' \in [Task -> TaskState] /\ Roused /\ UNCHANGED pos /\ Still

TaskMove(t, l, r, i) ==
    /\ pc' = [pc EXCEPT ![t] = l] /\ ret' = [ret EXCEPT ![t] = r] /\ idx' = [idx EXCEPT ![t] = i]
    /\ state' \in [Task -> TaskState] /\ Roused
    /\ pos' \in [Task -> Nat] /\ \A u \in Task \ {t} : pos'[u] = pos[u]
    /\ Fits(t, l, r, i, pos'[t]) /\ (Dying(l, r) <=> Dying(pc[t], ret[t]))
    /\ l # "fork" /\ (l = "adopt" => childs[t] # <<>>)
    /\ Still

(* What wakeup does to the states.                                         *)
LEMMA RouseRoused ==
    ASSUME Types, NEW c \in Cpu, Rouse(c), idx[run[c]] \in Task
    PROVE  state' \in [Task -> TaskState] /\ Roused
<1>1. PICK x \in Task : x = idx[run[c]]
  BY Zenon
<1>2. state' = IF state[x] = "SLEEP" /\ chan[x] = achan[run[c]] THEN [state EXCEPT ![x] = "READY"] ELSE state
  BY <1>1, Zenon DEF Rouse
<1>3. CASE state[x] = "SLEEP" /\ chan[x] = achan[run[c]]
  BY <1>2, <1>3 DEF Types, TaskState, State, Roused
<1>4. CASE ~(state[x] = "SLEEP" /\ chan[x] = achan[run[c]])
  BY <1>2, <1>4, Zenon DEF Types, Roused
<1> QED
  BY <1>3, <1>4, Zenon

(* The invariant survives every step of a scheduler.                       *)
LEMMA CpuTInv ==
    ASSUME TInv, ~trodden, NEW c \in Cpu, run[c] = c, LifeCpuStep(c)
    PROVE  TInv'
<1>1. Types /\ Ctl /\ c \in Flow /\ c \notin Task
  BY Numbers, Zenon DEF TInv
<1>2. /\ pc[c] \in CpuPlace /\ ret[c] = "window" /\ (pc[c] # "wake" => idx[c] \in Task)
      /\ idx[c] \in 0 .. NPROC /\ state \in [Task -> TaskState] /\ ~OnTask(c)
      /\ \A label : At(c, label) <=> pc[c] = label
  BY <1>1, Zenon DEF Types, Ctl, OnCpu, OnTask, At
<1>3. /\ ret = [ret EXCEPT ![c] = "window"]
      /\ pc = [pc EXCEPT ![c] = pc[c]] /\ idx = [idx EXCEPT ![c] = idx[c]]
  BY <1>1, <1>2, Keep, Zenon
<1>r. UNCHANGED state => Roused
  BY Zenon DEF Roused
<1> DEFINE Move == \E l \in CpuPlace, i \in 0 .. NPROC : CpuMove(c, l, i)
<1>m. ASSUME Move PROVE TInv'
  <2>1. PICK l \in CpuPlace, i \in 0 .. NPROC : CpuMove(c, l, i)
    BY <1>m
  <2> QED
    BY <2>1, StayCpu, Zenon DEF CpuMove, Still
<1> HIDE DEF Move
<1>4. ASSUME BaseStep(c), UNCHANGED lvars PROVE TInv'
  <2>v. UNCHANGED <<parent, childs, pos, abandoned, trodden>>
    BY <1>4, Zenon DEF lvars
  <2>1. CASE Window(c)
    <3>1. CpuMove(c, "scan", idx[c])
      BY <1>2, <1>3, <1>r, <2>1, <2>v, Zenon DEF Window, Goto, CpuMove, Still
    <3> QED
      BY <1>2, <1>m, <3>1, Zenon DEF CpuPlace, Move
  <2>2. CASE ScanGet(c)
    <3>1. CpuMove(c, "pick", idx[c])
      BY <1>2, <1>3, <1>r, <2>2, <2>v, Zenon DEF ScanGet, Goto, CpuMove, Still
    <3> QED
      BY <1>2, <1>m, <3>1, Zenon DEF CpuPlace, Move
  <2>3. CASE Pick(c)
    <3>1. CASE state[idx[c]] = "READY"
      BY <1>4, <2>3, <3>1, PickTInv, Zenon
    <3>2. CASE state[idx[c]] # "READY"
      <4>1. CpuMove(c, "back", idx[c])
        BY <1>2, <1>3, <1>r, <2>3, <2>v, <3>2, Zenon DEF Pick, Goto, CpuMove, Still
      <4> QED
        BY <1>2, <1>m, <4>1, Zenon DEF CpuPlace, Move
    <3> QED
      BY <3>1, <3>2, Zenon
  <2>4. CASE Back(c)
    <3>1. PICK j \in Task : j = IF idx[c] + 1 = NPROC THEN 0 ELSE idx[c] + 1
      BY <1>2, <2>4, Numbers DEF Back
    <3>2. PICK l \in {"window", "scan"} : l = IF idx[c] + 1 = NPROC THEN "window" ELSE "scan"
      BY Zenon
    <3>3. /\ pc' = [pc EXCEPT ![c] = l] /\ idx' = [idx EXCEPT ![c] = j]
          /\ UNCHANGED <<state, run, ret, newtask>>
      <4>1. idx' = [idx EXCEPT ![c] = IF idx[c] + 1 = NPROC THEN 0 ELSE idx[c] + 1]
        BY <2>4, Zenon DEF Back
      <4> QED
        BY <2>4, <3>1, <3>2, <4>1, Zenon DEF Back, Goto
    <3>4. CpuMove(c, l, j)
      BY <1>2, <1>r, <2>v, <3>3, Zenon DEF CpuMove, Still
    <3>5. j \in 0 .. NPROC /\ l \in CpuPlace
      BY Numbers, Zenon DEF CpuPlace
    <3> QED
      BY <1>m, <3>4, <3>5, Zenon DEF Move
  <2>5. CASE WakeGet(c)
    <3>1. idx[c] \in Task
      BY <1>2, <2>5, Numbers, Zenon DEF WakeGet
    <3>2. CpuMove(c, "rouse", idx[c])
      BY <1>2, <1>3, <1>r, <2>5, <2>v, <3>1, Zenon DEF WakeGet, Goto, CpuMove, Still
    <3> QED
      BY <1>2, <1>m, <3>2, Zenon DEF CpuPlace, Move
  <2>6. CASE WakeSelf(c) \/ Rouse(c)
    <3>1. idx[c] \in Task
      BY <1>2, <2>6, Numbers, Zenon DEF WakeSelf, Rouse
    <3>2. state' \in [Task -> TaskState] /\ Roused
      BY <1>1, <1>2, <1>r, <2>6, <3>1, RouseRoused, Zenon DEF WakeSelf
    <3>3. /\ pc' = [pc EXCEPT ![c] = "wake"] /\ idx' = [idx EXCEPT ![c] = idx[c] + 1]
          /\ UNCHANGED <<run, ret, newtask>>
      BY <1>2, <1>3, <2>6, Zenon DEF WakeSelf, Rouse, Goto
    <3>4. CpuMove(c, "wake", idx[c] + 1) /\ idx[c] + 1 \in 0 .. NPROC
      BY <2>v, <3>1, <3>2, <3>3, Numbers, Zenon DEF CpuMove, Still
    <3> QED
      BY <1>m, <3>4, Zenon DEF CpuPlace, Move
  <2>7. CASE WakeDone(c)
    <3>1. CpuMove(c, "window", 0)
      BY <1>2, <1>3, <1>r, <2>7, <2>v, Numbers, Zenon DEF WakeDone, Return, Goto, CpuMove, Still
    <3> QED
      BY <1>m, <3>1, Numbers, Zenon DEF CpuPlace, Move
  <2>8. CASE asy_timer(c)
    <3>1. pc[c] = "window"
      BY <1>2, <2>8, Zenon DEF asy_timer, CpuPlace
    <3>2. CpuMove(c, "wake", 0)
      BY <1>2, <1>3, <1>r, <2>8, <2>v, <3>1, Zenon DEF asy_timer, Goto, CpuMove, Still
    <3> QED
      BY <1>m, <3>2, Numbers, Zenon DEF CpuPlace, Move
  <2>9. ~(\/ YieldGet(c) \/ YieldSwitch(c) \/ Resume(c)
          \/ SleepGet(c) \/ SleepUnlock(c) \/ SleepSwitch(c) \/ Slept(c) \/ Relock(c)
          \/ AllocGet(c) \/ AllocProbe(c) \/ Panic(c) \/ (OnTask(c) /\ Trap(c))
          \/ sys_fork(c) \/ TrapReturn(c))
    BY <1>2, Zenon DEF YieldGet, YieldSwitch, Resume, SleepGet, SleepUnlock, SleepSwitch, Slept, Relock,
       AllocGet, AllocProbe, Panic, sys_fork, TrapReturn, CpuPlace
  <2> QED
    BY <1>4, <2>1, <2>2, <2>3, <2>4, <2>5, <2>6, <2>7, <2>8, <2>9, Zenon DEF BaseStep, SchedStep
<1>5. ~LifeStep(c)
  <2>1. ~(\/ Fork(c) \/ sys_exit(c) \/ kill(c) \/ sys_wait(c))
    BY <1>2, Zenon DEF Fork, ForkReady, sys_exit, kill, sys_wait, AtCall
  <2>2. ~(\/ OrphanGet(c) \/ Adopt(c) \/ Exit(c) \/ BuryGet(c) \/ BurySwitch(c)
          \/ LookNext(c) \/ Reap(c) \/ ReapKilled(c) \/ WaitSleep(c))
    BY <1>2, Zenon DEF OrphanGet, Adopt, Exit, BuryGet, BurySwitch, LookNext, Reap, ReapKilled, Found,
       WaitSleep, CpuPlace
  <2> QED
    BY <2>1, <2>2, Zenon DEF LifeStep
<1> QED
  BY <1>4, <1>5, Zenon DEF LifeCpuStep

(* The invariant survives every step of the scheduler's functions and of   *)
(* system calls that a task takes.                                         *)
LEMMA BaseTInv ==
    ASSUME TInv, ~trodden, NEW c \in Cpu, NEW t \in Task, run[c] = t, BaseStep(c), UNCHANGED lvars
    PROVE  TInv'
<1>1. Types /\ Ctl /\ t \in Flow /\ t \notin Cpu /\ OnTask(c)
  BY Numbers, Zenon DEF TInv, OnTask
<1>a. /\ Fits(t, pc[t], ret[t], idx[t], pos[t])
      /\ state[t] = "RUN" \/ Dying(pc[t], ret[t])
      /\ idx[t] \in 0 .. NPROC /\ ret[t] \in Caller /\ pos \in [Task -> Nat]
      /\ state \in [Task -> TaskState]
      /\ \A label : At(c, label) <=> pc[t] = label
  <2>1. OfTask(t) /\ Running(t)
    BY <1>1, Zenon DEF Ctl, Running
  <2> QED
    BY <1>1, <2>1, Zenon DEF OfTask, Types, At
<1>k. /\ pc = [pc EXCEPT ![t] = pc[t]] /\ ret = [ret EXCEPT ![t] = ret[t]]
      /\ idx = [idx EXCEPT ![t] = idx[t]]
  BY <1>1, Keep, Zenon
<1>r. UNCHANGED state => Roused
  BY Zenon DEF Roused
<1>v. UNCHANGED <<parent, childs, pos, abandoned, trodden>>
  BY Zenon DEF lvars
<1> DEFINE Move == \E l \in TaskPlace, r \in Caller, i \in 0 .. NPROC : TaskMove(t, l, r, i)
<1>m. ASSUME Move PROVE TInv'
  <2>1. PICK l \in TaskPlace, r \in Caller, i \in 0 .. NPROC : TaskMove(t, l, r, i)
    BY <1>m
  <2> QED
    BY <2>1, StayTask, Zenon DEF TaskMove, Still
<1> HIDE DEF Move
\* A step to l, with the rest as it was.
<1>g. ASSUME NEW l \in TaskPlace, pc' = [pc EXCEPT ![t] = l], UNCHANGED <<state, ret, idx, run, newtask>>,
             Fits(t, l, ret[t], idx[t], pos[t]), Dying(l, ret[t]) <=> Dying(pc[t], ret[t]),
             l # "fork", l # "adopt"
      PROVE  TInv'
  <2>1. TaskMove(t, l, ret[t], idx[t])
    BY <1>a, <1>g, <1>k, <1>r, <1>v, Zenon DEF TaskMove, Still
  <2> QED
    BY <1>a, <1>m, <2>1, Zenon DEF Move
\* A return from a call.
<1>b. ASSUME NEW l \in TaskPlace, l = ret[t], Return(t), UNCHANGED <<state, run, newtask>>,
             Fits(t, l, "user", 0, pos[t]), Dying(l, "user") <=> Dying(pc[t], ret[t]),
             l # "fork", l # "adopt"
      PROVE  TInv'
  <2>1. TaskMove(t, l, "user", 0)
    BY <1>1, <1>a, <1>b, <1>r, <1>v, Zenon DEF TaskMove, Still, Return, Goto
  <2> QED
    BY <1>m, <2>1, Numbers, Zenon DEF Move, Caller
<1> USE DEF TaskPlace, OffPlace, Waiting
<1>2. CASE YieldGet(c)
  <2>1. pc[t] = "yield" /\ pc' = [pc EXCEPT ![t] = "ready"] /\ UNCHANGED <<state, ret, idx, run, newtask>>
    BY <1>a, <1>2, Zenon DEF YieldGet, Goto
  <2>2. Fits(t, "ready", ret[t], idx[t], pos[t]) /\ (Dying("ready", ret[t]) <=> Dying(pc[t], ret[t]))
    BY <1>a, <2>1, Zenon DEF Fits, Dying
  <2> QED
    BY <1>g, <2>1, <2>2, Zenon
<1>3. CASE SleepGet(c)
  <2>1. pc[t] = "sleep" /\ pc' = [pc EXCEPT ![t] = "unlock"] /\ UNCHANGED <<state, ret, idx, run, newtask>>
    BY <1>a, <1>3, Zenon DEF SleepGet, Goto
  <2>2. Fits(t, "unlock", ret[t], idx[t], pos[t]) /\ (Dying("unlock", ret[t]) <=> Dying(pc[t], ret[t]))
    BY <1>a, <2>1, Zenon DEF Fits, Dying
  <2> QED
    BY <1>g, <2>1, <2>2, Zenon
<1>4. CASE SleepUnlock(c)
  <2>1. pc[t] = "unlock" /\ pc' = [pc EXCEPT ![t] = "doze"] /\ UNCHANGED <<state, ret, idx, run, newtask>>
    BY <1>a, <1>4, Zenon DEF SleepUnlock, Goto
  <2>2. Fits(t, "doze", ret[t], idx[t], pos[t]) /\ (Dying("doze", ret[t]) <=> Dying(pc[t], ret[t]))
    BY <1>a, <2>1, Zenon DEF Fits, Dying
  <2> QED
    BY <1>g, <2>1, <2>2, Zenon
<1>5. CASE AllocGet(c)
  <2>1. pc[t] = "alloc" /\ pc' = [pc EXCEPT ![t] = "probe"] /\ UNCHANGED <<state, ret, idx, run, newtask>>
    BY <1>a, <1>5, Zenon DEF AllocGet, Goto
  <2>2. Fits(t, "probe", ret[t], idx[t], pos[t]) /\ (Dying("probe", ret[t]) <=> Dying(pc[t], ret[t]))
    BY <1>a, <2>1, Zenon DEF Fits, Dying
  <2> QED
    BY <1>g, <2>1, <2>2, Zenon
<1>6. CASE YieldSwitch(c)
  <2>1. /\ pc[t] = "ready" /\ pc' = [pc EXCEPT ![t] = "resume"] /\ state' = [state EXCEPT ![t] = "READY"]
        /\ run' = [run EXCEPT ![c] = c] /\ UNCHANGED <<ret, idx, newtask>>
    BY <1>a, <1>6, Zenon DEF YieldSwitch, Goto
  <2>2. /\ Fits(t, "resume", ret[t], idx[t], pos[t]) /\ state[t] = "RUN" /\ ~Dying("resume", ret[t])
    BY <1>a, <2>1, Zenon DEF Fits, Dying
  <2>3. /\ "READY" \in TaskState \ {"RUN"} /\ "resume" \in OffPlace
        /\ "READY" \notin Gone /\ "RUN" \notin Gone /\ "READY" \notin Unused /\ "RUN" \notin Unused
    BY Zenon DEF TaskState, State, Gone, Unused
  <2> QED
    BY <1>v, <2>1, <2>2, <2>3, OffTInv
<1>7. CASE SleepSwitch(c)
  <2>1. /\ pc[t] = "doze" /\ pc' = [pc EXCEPT ![t] = "slept"] /\ state' = [state EXCEPT ![t] = "SLEEP"]
        /\ run' = [run EXCEPT ![c] = c] /\ UNCHANGED <<ret, idx, newtask>>
    BY <1>a, <1>7, Zenon DEF SleepSwitch, Goto
  <2>2. /\ Fits(t, "slept", ret[t], idx[t], pos[t]) /\ state[t] = "RUN" /\ ~Dying("slept", ret[t])
    BY <1>a, <2>1, Zenon DEF Fits, Dying
  <2>3. /\ "SLEEP" \in TaskState \ {"RUN"} /\ "slept" \in OffPlace
        /\ "SLEEP" \notin Gone /\ "RUN" \notin Gone /\ "SLEEP" \notin Unused /\ "RUN" \notin Unused
    BY Zenon DEF TaskState, State, Gone, Unused
  <2> QED
    BY <1>v, <2>1, <2>2, <2>3, OffTInv
<1>8. CASE Resume(c)
  <2>1. pc[t] = "resume" /\ Return(t) /\ UNCHANGED <<state, run, newtask>>
    BY <1>a, <1>8, Zenon DEF Resume
  <2>2. ret[t] = "user" /\ Fits(t, "user", "user", 0, pos[t]) /\ (Dying("user", "user") <=> Dying(pc[t], ret[t]))
    BY <1>a, <2>1, Zenon DEF Fits, Dying
  <2> QED
    BY <1>b, <2>1, <2>2, Zenon
<1>9. CASE Slept(c)
  <2>1. pc[t] = "slept" /\ UNCHANGED <<state, run, newtask>>
    BY <1>a, <1>9, Zenon DEF Slept
  <2>2. /\ ret[t] = "look" /\ Fits(t, "look", "user", 0, pos[t]) /\ Fits(t, "relock", ret[t], idx[t], pos[t])
        /\ ~Dying("look", "user") /\ ~Dying("relock", ret[t]) /\ ~Dying(pc[t], ret[t])
    BY <1>a, <2>1, Zenon DEF Fits, Dying
  <2>3. CASE alock[t] # None
    <3>1. pc' = [pc EXCEPT ![t] = "relock"] /\ UNCHANGED <<ret, idx>>
      BY <1>9, <2>3, Zenon DEF Slept, Goto
    <3> QED
      BY <1>g, <2>1, <2>2, <3>1, Zenon
  <2>4. CASE alock[t] = None
    <3>1. Return(t)
      BY <1>9, <2>4, Zenon DEF Slept
    <3> QED
      BY <1>b, <2>1, <2>2, <3>1, Zenon
  <2> QED
    BY <2>3, <2>4, Zenon
<1>10. CASE Relock(c)
  <2>1. pc[t] = "relock" /\ Return(t) /\ UNCHANGED <<state, run, newtask>>
    BY <1>a, <1>10, Zenon DEF Relock
  <2>2. ret[t] = "look" /\ Fits(t, "look", "user", 0, pos[t]) /\ (Dying("look", "user") <=> Dying(pc[t], ret[t]))
    BY <1>a, <2>1, Zenon DEF Fits, Dying
  <2> QED
    BY <1>b, <2>1, <2>2, Zenon
<1>11. CASE WakeGet(c)
  <2>1. /\ pc[t] = "wake" /\ pc' = [pc EXCEPT ![t] = "rouse"] /\ UNCHANGED <<state, ret, idx, run, newtask>>
        /\ idx[t] < NPROC
    BY <1>a, <1>11, Zenon DEF WakeGet, Goto
  <2>2. idx[t] \in Task
    BY <1>a, <2>1, Numbers, Zenon
  <2>3. Fits(t, "rouse", ret[t], idx[t], pos[t]) /\ (Dying("rouse", ret[t]) <=> Dying(pc[t], ret[t]))
    BY <1>a, <2>1, <2>2, Zenon DEF Fits, Dying
  <2> QED
    BY <1>g, <2>1, <2>3, Zenon
<1>12. CASE WakeSelf(c) \/ Rouse(c)
  <2>1. /\ pc[t] \in {"wake", "rouse"} /\ pc' = [pc EXCEPT ![t] = "wake"]
        /\ idx' = [idx EXCEPT ![t] = idx[t] + 1] /\ UNCHANGED <<ret, run, newtask>>
    BY <1>a, <1>k, <1>12, Zenon DEF WakeSelf, Rouse, Goto
  <2>2. idx[t] \in Task
    BY <1>a, <1>12, Numbers, Zenon DEF WakeSelf, Rouse, Fits
  <2>3. idx[t] + 1 \in 0 .. NPROC
    BY <2>2, Numbers, Zenon
  <2>4. state' \in [Task -> TaskState] /\ Roused
    BY <1>1, <1>a, <1>r, <1>12, <2>2, RouseRoused, Zenon DEF WakeSelf
  <2>5. Fits(t, "wake", ret[t], idx[t] + 1, pos[t]) /\ (Dying("wake", ret[t]) <=> Dying(pc[t], ret[t]))
    BY <1>a, <2>1, Zenon DEF Fits, Dying
  <2>6. TaskMove(t, "wake", ret[t], idx[t] + 1)
    BY <1>a, <1>k, <1>v, <2>1, <2>4, <2>5, Zenon DEF TaskMove, Still
  <2> QED
    BY <1>a, <1>m, <2>3, <2>6, Zenon DEF Move
<1>13. CASE WakeDone(c)
  <2>1. pc[t] = "wake" /\ Return(t) /\ UNCHANGED <<state, run, newtask>>
    BY <1>a, <1>13, Zenon DEF WakeDone
  <2>2. /\ ret[t] \in {"yield", "bury"} /\ Fits(t, ret[t], "user", 0, pos[t])
        /\ (Dying(ret[t], "user") <=> Dying(pc[t], ret[t]))
    BY <1>a, <2>1, Zenon DEF Fits, Dying
  <2> QED
    BY <1>b, <2>1, <2>2, Zenon
<1>14. CASE AllocProbe(c)
  <2>1. CASE state[idx[t]] = "FREE"
    BY <1>14, <2>1, AllocTInv, Zenon
  <2>2. CASE state[idx[t]] # "FREE"
    <3>1. pc[t] = "probe"
      BY <1>a, <1>14, Zenon DEF AllocProbe
    <3>2. idx[t] \in Task /\ ~Dying(pc[t], ret[t])
      BY <1>a, <3>1, Zenon DEF Fits, Dying
    <3>3. PICK l \in {"panic", "alloc"} : l = IF idx[t] + 1 = NPROC THEN "panic" ELSE "alloc"
      BY Zenon
    <3>4. /\ pc' = [pc EXCEPT ![t] = l] /\ idx' = [idx EXCEPT ![t] = idx[t] + 1]
          /\ UNCHANGED <<state, ret, run, newtask>>
      BY <1>14, <2>2, <3>3, Zenon DEF AllocProbe, Goto
    <3>5. idx[t] + 1 \in 0 .. NPROC /\ (l = "alloc" => idx[t] + 1 \in Task)
      BY <3>2, <3>3, Numbers, Zenon
    <3>6. Fits(t, l, ret[t], idx[t] + 1, pos[t]) /\ ~Dying(l, ret[t])
      BY <3>3, <3>5, Zenon DEF Fits, Dying
    <3>7. TaskMove(t, l, ret[t], idx[t] + 1)
      BY <1>a, <1>k, <1>r, <1>v, <3>2, <3>3, <3>4, <3>6, Zenon DEF TaskMove, Still
    <3> QED
      BY <1>a, <1>m, <3>3, <3>5, <3>7, Zenon DEF Move
  <2> QED
    BY <2>1, <2>2, Zenon
<1>15. CASE Panic(c)
  <2>1. UNCHANGED <<state, run, pc, ret, idx, newtask>> /\ pc[t] = "panic"
    BY <1>a, <1>15, Zenon DEF Panic, vars
  <2> QED
    BY <1>a, <1>g, <1>k, <2>1, Zenon
<1>16. CASE OnTask(c) /\ Trap(c)
  <2>1. pc[t] = "user" /\ pc' = [pc EXCEPT ![t] = "kernel"] /\ UNCHANGED <<state, ret, idx, run, newtask>>
    BY <1>a, <1>16, Zenon DEF Trap, Goto, Fits
  <2>2. Fits(t, "kernel", ret[t], idx[t], pos[t]) /\ (Dying("kernel", ret[t]) <=> Dying(pc[t], ret[t]))
    BY <1>a, <2>1, Zenon DEF Fits, Dying
  <2> QED
    BY <1>g, <2>1, <2>2, Zenon
<1>17. CASE asy_timer(c)
  <2>1. /\ pc[t] = "user" /\ pc' = [pc EXCEPT ![t] = "wake"] /\ ret' = [ret EXCEPT ![t] = "yield"]
        /\ idx' = [idx EXCEPT ![t] = 0] /\ UNCHANGED <<state, run, newtask>>
    BY <1>a, <1>17, Zenon DEF asy_timer, Goto, Fits
  <2>2. Fits(t, "wake", "yield", 0, pos[t]) /\ (Dying("wake", "yield") <=> Dying(pc[t], ret[t]))
    BY <1>a, <2>1, Zenon DEF Fits, Dying
  <2>3. TaskMove(t, "wake", "yield", 0)
    BY <1>a, <1>r, <1>v, <2>1, <2>2, Zenon DEF TaskMove, Still
  <2> QED
    BY <1>m, <2>3, Numbers, Zenon DEF Move, Caller
<1>18. CASE sys_fork(c)
  <2>1. /\ pc[t] = "kernel" /\ pc' = [pc EXCEPT ![t] = "alloc"] /\ idx' = [idx EXCEPT ![t] = 0]
        /\ UNCHANGED <<state, ret, run, newtask>>
    BY <1>a, <1>18, Zenon DEF sys_fork, Goto
  <2>2. Fits(t, "alloc", ret[t], 0, pos[t]) /\ (Dying("alloc", ret[t]) <=> Dying(pc[t], ret[t]))
    BY <1>a, <2>1, Numbers, Zenon DEF Fits, Dying
  <2>3. TaskMove(t, "alloc", ret[t], 0)
    BY <1>a, <1>k, <1>r, <1>v, <2>1, <2>2, Zenon DEF TaskMove, Still
  <2> QED
    BY <1>a, <1>m, <2>3, Numbers, Zenon DEF Move
<1>19. CASE TrapReturn(c)
  <2>1. pc[t] = "kernel" /\ pc' = [pc EXCEPT ![t] = "user"] /\ UNCHANGED <<state, ret, idx, run, newtask>>
    BY <1>1, <1>a, <1>19, Zenon DEF TrapReturn, Goto
  <2>2. Fits(t, "user", ret[t], idx[t], pos[t]) /\ (Dying("user", ret[t]) <=> Dying(pc[t], ret[t]))
    BY <1>a, <2>1, Zenon DEF Fits, Dying
  <2> QED
    BY <1>g, <2>1, <2>2, Zenon
<1>20. ~(Window(c) \/ ScanGet(c) \/ Pick(c) \/ Back(c))
  BY <1>1, Zenon DEF Window, ScanGet, Pick, Back
<1> QED
  BY <1>2, <1>3, <1>4, <1>5, <1>6, <1>7, <1>8, <1>9, <1>10, <1>11, <1>12, <1>13, <1>14, <1>15, <1>16,
     <1>17, <1>18, <1>19, <1>20, Zenon DEF BaseStep, SchedStep

(* The invariant survives every step of sys_fork, sys_exit, sys_wait and   *)
(* kill.                                                                   *)
LEMMA LifeTInv ==
    ASSUME TInv, ~trodden, NEW c \in Cpu, NEW t \in Task, run[c] = t, LifeStep(c)
    PROVE  TInv'
<1>1. Types /\ Tree /\ Ctl /\ t \in Flow /\ t \notin Cpu /\ OnTask(c)
  BY Numbers, Zenon DEF TInv, OnTask
<1>a. /\ Fits(t, pc[t], ret[t], idx[t], pos[t])
      /\ state[t] = "RUN" \/ Dying(pc[t], ret[t])
      /\ Dying(pc[t], ret[t]) => state[t] \in Gone
      /\ idx[t] \in 0 .. NPROC /\ ret[t] \in Caller /\ pos \in [Task -> Nat]
      /\ state \in [Task -> TaskState] /\ childs \in [Task -> Seq(Task)]
      /\ \A label : At(c, label) <=> pc[t] = label
  <2>1. OfTask(t) /\ Running(t)
    BY <1>1, Zenon DEF Ctl, Running
  <2> QED
    BY <1>1, <2>1, Zenon DEF OfTask, Types, At
<1>k. /\ pc = [pc EXCEPT ![t] = pc[t]] /\ ret = [ret EXCEPT ![t] = ret[t]]
      /\ idx = [idx EXCEPT ![t] = idx[t]]
  BY <1>1, Keep, Zenon
<1>r. UNCHANGED state => Roused
  BY Zenon DEF Roused
\* A step to l with sys_wait's pointer at p and the rest as it was.
<1>g. ASSUME NEW l \in TaskPlace, NEW r \in Caller, NEW p \in Nat,
             pc' = [pc EXCEPT ![t] = l], ret' = [ret EXCEPT ![t] = r], pos' = [pos EXCEPT ![t] = p],
             UNCHANGED <<state, idx, run, newtask, parent, childs, abandoned, trodden>>,
             Fits(t, l, r, idx[t], p), Dying(l, r) <=> Dying(pc[t], ret[t]),
             l # "fork", l = "adopt" => childs[t] # <<>>
      PROVE  TInv'
  <2>1. pos' \in [Task -> Nat] /\ pos'[t] = p /\ \A u \in Task \ {t} : pos'[u] = pos[u]
    BY <1>a, <1>g
  <2>2. idx' = [idx EXCEPT ![t] = idx[t]] /\ Roused /\ state' \in [Task -> TaskState]
    BY <1>a, <1>g, <1>k, <1>r, Zenon
  <2> QED
    BY <1>a, <1>g, <2>1, <2>2, StayTask, Zenon
<1>p. /\ pos[t] \in Nat /\ pos = [pos EXCEPT ![t] = pos[t]]
      /\ state = [state EXCEPT ![t] = state[t]]
  BY <1>a
\* The same with the pointer where it was.
<1>h. ASSUME NEW l \in TaskPlace, pc' = [pc EXCEPT ![t] = l],
             UNCHANGED <<state, ret, idx, run, newtask, parent, childs, pos, abandoned, trodden>>,
             Fits(t, l, ret[t], idx[t], pos[t]), Dying(l, ret[t]) <=> Dying(pc[t], ret[t]),
             l # "fork", l = "adopt" => childs[t] # <<>>
      PROVE  TInv'
  <2>1. PICK r \in Caller, p \in Nat : r = ret[t] /\ p = pos[t]
    BY <1>a, <1>p, Zenon
  <2>2. ret' = [ret EXCEPT ![t] = r] /\ pos' = [pos EXCEPT ![t] = p]
    BY <1>h, <1>k, <1>p, <2>1, Zenon
  <2>3. UNCHANGED <<state, idx, run, newtask, parent, childs, abandoned, trodden>>
    BY <1>h, Zenon
  <2>4. Fits(t, l, r, idx[t], p) /\ (Dying(l, r) <=> Dying(pc[t], ret[t]))
    BY <1>h, <2>1, Zenon
  <2> QED
    BY <1>g, <1>h, <2>2, <2>3, <2>4, Zenon
<1> USE DEF TaskPlace, OffPlace, Waiting
<1>2. CASE Fork(c)
  BY <1>2, ForkTInv, Zenon
<1>3. CASE sys_exit(c)
  <2>1. /\ pc[t] = "kernel" /\ pc' = [pc EXCEPT ![t] = "orphan"] /\ t # 0
        /\ UNCHANGED <<state, ret, idx, run, newtask, parent, childs, pos, abandoned, trodden>>
    BY <1>a, <1>3, Zenon DEF sys_exit, AtCall, Goto, lvars
  <2>2. Fits(t, "orphan", ret[t], idx[t], pos[t]) /\ (Dying("orphan", ret[t]) <=> Dying(pc[t], ret[t]))
    BY <1>a, <2>1, Zenon DEF Fits, Dying
  <2> QED
    BY <1>h, <2>1, <2>2, Zenon
<1>4. CASE OrphanGet(c)
  <2>1. /\ pc[t] = "orphan" /\ pc' = [pc EXCEPT ![t] = "adopt"] /\ childs[t] # <<>>
        /\ UNCHANGED <<state, ret, idx, run, newtask, parent, childs, pos, abandoned, trodden>>
    BY <1>a, <1>4, Zenon DEF OrphanGet, Goto, lvars
  <2>2. Fits(t, "adopt", ret[t], idx[t], pos[t]) /\ (Dying("adopt", ret[t]) <=> Dying(pc[t], ret[t]))
    BY <1>a, <2>1, Zenon DEF Fits, Dying
  <2> QED
    BY <1>h, <2>1, <2>2, Zenon
<1>5. CASE Adopt(c)
  BY <1>1, <1>5, AdoptTInv, Zenon
<1>6. CASE Exit(c)
  <2>1. /\ pc[t] = "orphan" /\ t # 0 /\ SetExit(c) /\ childs[t] = <<>>
        /\ UNCHANGED <<childs, abandoned>>
    BY <1>a, <1>6, Zenon DEF Exit, Fits
  <2>2. Elems(childs[t]) = {}
    BY <2>1 DEF Elems
  <2>3. Distinct(childs[t]) /\ abandoned' = abandoned \cup Elems(childs[t])
    BY <1>1, <2>1, <2>2 DEF Tree
  <2> QED
    BY <1>a, <2>1, <2>3, ExitTInv
<1>7. CASE kill(c)
  <2>1. /\ pc[t] = "kernel" /\ t # 0 /\ SetExit(c) /\ UNCHANGED childs
        /\ abandoned' = abandoned \cup Elems(childs[t])
    BY <1>a, <1>7, Zenon DEF kill, AtCall
  <2>3. Distinct(childs[t])
    BY <1>1, Zenon DEF Tree
  <2> QED
    BY <1>a, <2>1, <2>3, ExitTInv
<1>8. CASE ReapKilled(c)
  <2>1. /\ Found(c) /\ pc[t] = "look" /\ t # 0 /\ SetExit(c) /\ abandoned' = abandoned \cup Elems(childs[t])
    BY <1>a, <1>8, Zenon DEF ReapKilled, Found
  <2>2. /\ childs' \in [Task -> Seq(Task)] /\ Distinct(childs'[t])
        /\ \E w \in Task : Elems(childs'[t]) = Elems(childs[t]) \ {w}
        /\ \A u \in Task \ {t} : childs'[u] = childs[u]
    BY <1>1, <2>1, FoundChild, Zenon
  <2>3. Elems(childs'[t]) \subseteq Elems(childs[t])
    BY <2>2, Zenon
  <2> QED
    BY <1>a, <2>1, <2>2, <2>3, ExitTInv
<1>9. CASE BuryGet(c)
  <2>1. /\ pc[t] = "bury" /\ pc' = [pc EXCEPT ![t] = "buried"]
        /\ UNCHANGED <<state, ret, idx, run, newtask, parent, childs, pos, abandoned, trodden>>
    BY <1>a, <1>9, Zenon DEF BuryGet, Goto, lvars
  <2>2. Fits(t, "buried", ret[t], idx[t], pos[t]) /\ (Dying("buried", ret[t]) <=> Dying(pc[t], ret[t]))
    BY <1>a, <2>1, Zenon DEF Fits, Dying
  <2> QED
    BY <1>h, <2>1, <2>2, Zenon
<1>10. CASE BurySwitch(c)
  <2>1. /\ pc[t] = "buried" /\ run' = [run EXCEPT ![c] = c]
        /\ UNCHANGED <<state, pc, ret, idx, newtask, parent, childs, pos, abandoned, trodden>>
    BY <1>a, <1>10, Zenon DEF BurySwitch, lvars
  <2>2. /\ state[t] \in TaskState \ {"RUN"} /\ "buried" \in OffPlace /\ Dying("buried", ret[t])
        /\ state[t] \in Gone
    BY <1>a, <2>1, Zenon DEF Dying, Gone
  <2>3. pc' = [pc EXCEPT ![t] = "buried"] /\ state' = [state EXCEPT ![t] = state[t]]
    BY <1>k, <1>p, <2>1, Zenon
  <2>4. UNCHANGED <<ret, idx, newtask, parent, childs, pos, abandoned, trodden>>
    BY <2>1, Zenon
  <2>5. Fits(t, "buried", ret[t], idx[t], pos[t])
    BY <1>a, <2>1, Zenon
  <2> QED
    BY <2>1, <2>2, <2>3, <2>4, <2>5, OffTInv, Zenon
<1>11. CASE sys_wait(c)
  <2>1. /\ pc[t] = "kernel" /\ pc' = [pc EXCEPT ![t] = "look"] /\ pos' = [pos EXCEPT ![t] = 1]
        /\ UNCHANGED <<state, ret, idx, run, newtask, parent, childs, abandoned, trodden>>
    BY <1>a, <1>11, Zenon DEF sys_wait, AtCall, Goto
  <2>2. Fits(t, "look", ret[t], idx[t], 1) /\ (Dying("look", ret[t]) <=> Dying(pc[t], ret[t]))
    BY <1>a, <2>1, Numbers, Zenon DEF Fits, Dying
  <2> QED
    BY <1>a, <1>g, <1>k, <2>1, <2>2, Numbers, Zenon
<1>12. CASE LookNext(c)
  <2>1. /\ pc[t] = "look" /\ pos' = [pos EXCEPT ![t] = pos[t] + 1]
        /\ UNCHANGED <<state, pc, ret, idx, run, newtask, parent, childs, abandoned, trodden>>
    BY <1>a, <1>12, Zenon DEF LookNext, vars
  <2>2. pos[t] + 1 \in Nat /\ pos[t] + 1 > 0
    BY <1>p
  <2>3. Fits(t, "look", ret[t], idx[t], pos[t] + 1) /\ (Dying("look", ret[t]) <=> Dying(pc[t], ret[t]))
    BY <1>a, <2>1, <2>2, Zenon DEF Fits, Dying
  <2>4. pc' = [pc EXCEPT ![t] = "look"] /\ ret' = [ret EXCEPT ![t] = ret[t]]
    BY <1>k, <2>1, Zenon
  <2> QED
    BY <1>a, <1>g, <2>1, <2>2, <2>3, <2>4, Zenon
<1>13. CASE Reap(c)
  BY <1>1, <1>13, ReapTInv, Zenon
<1>14. CASE WaitSleep(c)
  <2>1. /\ pc[t] = "look" /\ pc' = [pc EXCEPT ![t] = "sleep"] /\ pos' = [pos EXCEPT ![t] = 1]
        /\ ret' = [ret EXCEPT ![t] = "look"]
        /\ UNCHANGED <<state, idx, run, newtask, parent, childs, abandoned, trodden>>
    BY <1>a, <1>14, Zenon DEF WaitSleep, CallSleep, Goto
  <2>2. Fits(t, "sleep", "look", idx[t], 1) /\ (Dying("sleep", "look") <=> Dying(pc[t], ret[t]))
    BY <1>a, <2>1, Numbers, Zenon DEF Fits, Dying
  <2> QED
    BY <1>g, <2>1, <2>2, Numbers, Zenon DEF Caller
<1> QED
  BY <1>2, <1>3, <1>4, <1>5, <1>6, <1>7, <1>8, <1>9, <1>10, <1>11, <1>12, <1>13, <1>14, Zenon DEF LifeStep

(* The invariant is inductive: a CPU executes its scheduler or a task, and *)
(* once a kernel stack has two users no step is taken.                     *)
LEMMA NextTInv == TInv /\ [LifeNext]_lifevars => TInv'
<1> SUFFICES ASSUME TInv, [LifeNext]_lifevars PROVE TInv'
  OBVIOUS
<1>1. CASE UNCHANGED lifevars
  <2>1. UNCHANGED <<state, run, pc, ret, idx, newtask, parent, childs, pos, abandoned, trodden>>
    BY <1>1, Zenon DEF lifevars, vars, lvars
  <2>2. Types' <=> Types
    BY <2>1, Zenon DEF Types
  <2>3. Tree' <=> Tree
    BY <2>1, Zenon DEF Tree
  <2>4. Ctl' <=> Ctl
    <3>1. \A t \in Task : OfTask(t)' <=> OfTask(t)
      BY <2>1, Zenon DEF OfTask, Running
    <3>2. (\A c \in Cpu : OnCpu(c))' <=> \A c \in Cpu : OnCpu(c)
      BY <2>1, Zenon DEF OnCpu
    <3>3. (Alone' <=> Alone) /\ (Forking' <=> Forking) /\ (Adopting' <=> Adopting)
      BY <2>1, Zenon DEF Alone, Forking, Adopting
    <3> QED
      BY <2>1, <3>1, <3>2, <3>3, Zenon DEF Ctl
  <2> QED
    BY <2>1, <2>2, <2>3, <2>4, Zenon DEF TInv
<1>2. CASE ~trodden /\ \E c \in Cpu : LifeCpuStep(c)
  <2>1. PICK c \in Cpu : LifeCpuStep(c)
    BY <1>2
  <2>2. Ctl /\ run[c] \in Task \cup {c}
    BY <1>2, Zenon DEF TInv, Ctl, OnCpu
  <2>3. CASE run[c] = c
    BY <1>2, <2>1, <2>3, CpuTInv, Zenon
  <2>4. CASE run[c] \in Task
    <3>1. CASE BaseStep(c) /\ UNCHANGED lvars
      BY <1>2, <2>4, <3>1, BaseTInv, Zenon
    <3>2. CASE LifeStep(c)
      BY <1>2, <2>4, <3>2, LifeTInv, Zenon
    <3> QED
      BY <2>1, <3>1, <3>2, Zenon DEF LifeCpuStep
  <2> QED
    BY <2>2, <2>3, <2>4, Zenon
<1> QED
  BY <1>1, <1>2, Zenon DEF LifeNext

(* TInv is an invariant of the life of tasks on any number of CPUs.        *)
LEMMA SpecTInv == LifeSpec => []TInv
  BY InitTInv, NextTInv, PTL DEF LifeSpec

(* The tree of tasks, for any number of CPUs and of slots: through any     *)
(* interleaving of forks, exits, hand-overs to init, waits and kills       *)
(* (systask.c, sche.c:92), on child lists that no lock protects, a task in *)
(* use is once in the list of its parent and in no other list; except the  *)
(* children of a task that was killed, in sys_wait with the child it had   *)
(* just taken off its list.                                                *)
THEOREM FamilyTree == LifeSpec => []Family
<1>1. TInv => Family
  <2> SUFFICES ASSUME TInv, NEW t \in Task \ ({0} \cup abandoned), state[t] \notin {"FREE", "INIT"}
               PROVE  /\ parent[t] \in Task
                      /\ \E i \in DOMAIN childs[parent[t]] :
                            /\ childs[parent[t]][i] = t
                            /\ \A u \in Task : \A j \in DOMAIN childs[u] :
                                  childs[u][j] = t => u = parent[t] /\ j = i
    BY Zenon DEF Family
  <2>1. Tree
    BY Zenon DEF TInv
  <2>2. parent[t] \in Task /\ t \in Elems(childs[parent[t]])
    BY <2>1, Zenon DEF Tree, Unused
  <2>3. PICK i \in DOMAIN childs[parent[t]] : childs[parent[t]][i] = t
    BY <2>2, Zenon DEF Elems
  <2>4. ASSUME NEW u \in Task, NEW j \in DOMAIN childs[u], childs[u][j] = t
        PROVE  u = parent[t] /\ j = i
    <3>1. t \in Elems(childs[u])
      BY <2>4, Zenon DEF Elems
    <3>2. u = parent[t] /\ Distinct(childs[u])
      BY <2>1, <3>1, Zenon DEF Tree
    <3> QED
      BY <2>3, <2>4, <3>2, Zenon DEF Distinct
  <2> QED
    BY <2>2, <2>3, <2>4, Zenon
<1> QED
  BY <1>1, SpecTInv, PTL
=============================================================================

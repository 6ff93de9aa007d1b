---------------------------- MODULE DaBootProofs ----------------------------
(***************************************************************************)
(* The whole boot, for every command line and device, every layout of the  *)
(* memory, and every order in which host and device run, the host's        *)
(* timeouts included.                                                      *)
(*                                                                         *)
(* None of the properties is inductive by itself: whether an answer on the *)
(* wire is the one the host waits for depends on where in its line of      *)
(* steps the host is.  The proof labels the line: each step has a place in *)
(* the boot (which payload runs, what it has been told) and a number of    *)
(* ranges reserved so far.  Every line of steps that a command line makes  *)
(* has such a labelling, and the invariant says for each label what is on  *)
(* the wire and what the device knows.                                     *)
(*                                                                         *)
(* The second half is about memory.  The host writes where the user says   *)
(* and where the device says, so what survives depends on where the user's *)
(* images go: WellPlaced, KeepsClear and BssClear say what is asked of     *)
(* them.  MemInv then carries every byte of an upload, every reserved      *)
(* range, the pointers for LK and the hook from the step that leaves them  *)
(* to the moment control leaves the payload.                               *)
(***************************************************************************)
EXTENDS DaBoot, ParamsProofs, TLAPS

(* Where the boot is after step st, when it was at p:                      *)
(*   begin   main has not checked the command line                         *)
(*   plain   the blacklist holds LK's .bss at most                         *)
(*   rom     the parameters for the payload in SRAM are complete           *)
(*   sentB   that payload has been sent; brom: it has said hello           *)
(*   gone    the device has been told to jump; back: to the preloader      *)
(*   pl      the parameters for the payload in DRAM are complete           *)
(*   sentP   that payload has been sent; fresh: it has said hello          *)
(*   ready   it knows the preloader                                        *)
(*   imaged  it has found a place for boot.img                             *)
(*   armed   it knows LK                                                   *)
(*   over    the REPL has been left                                        *)
Follows(c, st, p) ==
  CASE p = "begin" /\ st.op = "main" -> "plain"
    [] p = "plain" /\ st.op = "params_brom" /\ c.dev = "rom" -> "rom"
    [] p = "rom" /\ st.op = "payload_brom" -> "sentB"
    [] p = "sentB" /\ st.op = "start" -> "brom"
    [] p = "brom" /\ st.op \in {"any_input", "upload", "reserve"} -> "brom"
    [] p = "brom" /\ st.op = "jump" /\ st.obj[1] = "preloader" -> "gone"
    [] p = "gone" /\ st.op = "open_port" -> "back"
    [] p \in {"plain", "back"} /\ st.op = "params_pl" -> "pl"
    [] p = "pl" /\ st.op = "extract" -> "pl"
    [] p = "pl" /\ st.op = "payload_pl" -> "sentP"
    [] p = "sentP" /\ st.op = "start" -> "fresh"
    [] p = "fresh" /\ st.op = "set_pl" -> "ready"
    [] p = "ready" /\ st.op \in {"upload", "reserve", "mkbootimg", "extract"} -> "ready"
    [] p = "ready" /\ st.op = "alloc" /\ st.obj[1] = "bootarg" -> "ready"
    [] p = "ready" /\ st.op = "alloc" /\ st.obj[1] = "bootimg" -> "imaged"
    [] p = "imaged" /\ st.op \in {"upload", "reserve", "extract"} -> "imaged"
    [] p = "ready" /\ st.op = "set_lk" /\ c.kernel = 0 /\ c.mode = "LK" -> "armed"
    [] p = "imaged" /\ st.op = "set_lk" /\ c.kernel > 0 -> "armed"
    [] p = "armed" /\ st.op = "hook" -> "armed"
    [] p \in {"ready", "armed"} /\ st.op = "jump" /\ st.obj[1] = "lk" -> "gone"
    [] p = "ready" /\ st.op = "jump" /\ st.obj[1] = "cli" /\ c.mode \notin {"LK", "REPL"}
       /\ ~ (c.mode = "Preloader" /\ c.lk) -> "gone"
    [] p = "ready" /\ st.op = "repl" -> "over"
    [] OTHER -> "bad"

(* A payload starts with nothing reserved by the host.                     *)
Uses(st, u) ==
  IF st.op \in {"payload_brom", "payload_pl"} THEN 0
  ELSE IF st.op = "reserve" THEN u + 1 ELSE u

Lab(p, u) == [at |-> p, used |-> u]

After(c, st, l) == Lab(Follows(c, st, l.at), Uses(st, l.used))

(* The labelling of the line of steps.                                     *)
Label(c) ==
  LET f[i \in 0..Len(Script(c))] ==
        IF i = 0 THEN Lab("begin", 0) ELSE After(c, Script(c)[i], f[i - 1])
  IN  f

(* How many ranges the host reserves on a payload, and how many slots the  *)
(* payload is sent with, at most.                                          *)
Reserves(c) ==
  Len(c.upload) + (IF c.lk THEN 2 ELSE 0) + (IF c.kernel > 0 THEN 1 ELSE 0)

HostSlots(c) ==
  (IF c.lk THEN 1 ELSE 0) + (IF c.dev = "rom" THEN Len(c.upload) + 1 ELSE 0)

-----------------------------------------------------------------------------
(* Every line of steps has a labelling.                                    *)

Places ==
  {"begin", "plain", "rom", "sentB", "brom", "gone", "back", "pl", "sentP", "fresh",
   "ready", "imaged", "armed", "over", "bad"}
Ops ==
  {"main", "params_brom", "payload_brom", "start", "any_input", "upload", "reserve", "jump",
   "open_port", "params_pl", "extract", "payload_pl", "set_pl", "alloc", "mkbootimg",
   "set_lk", "hook", "repl"}
Objs == {"none", "up", "preloader", "lk", "bootarg", "bootimg", "cli"} \X Nat

Labels == [at : Places, used : Nat]
Steps == [op : Ops, obj : Objs]

Leads(c, s, f, l, m) ==
  /\ s \in Seq(Steps)
  /\ f \in [0..Len(s) -> Labels]
  /\ f[0] = l /\ f[Len(s)] = m
  /\ \A i \in 1..Len(s) :
       f[i] = After(c, s[i], f[i - 1]) /\ f[i].at # "bad" /\ f[i].used <= Reserves(c)

Path(c, s, l, m) == \E f : Leads(c, s, f, l, m)

LEMMA EmptyPath ==
  ASSUME NEW c, NEW l \in Labels
  PROVE  Path(c, <<>>, l, l)
<1> DEFINE f == [i \in {0} |-> l]
<1>1. Len(<<>>) = 0 /\ <<>> \in Seq(Steps) /\ 0..0 = {0} /\ 1..0 = {}
  OBVIOUS
<1>2. Leads(c, <<>>, f, l, l)
  BY <1>1 DEF Leads
<1> QED
  BY <1>2 DEF Path

LEMMA StepPath ==
  ASSUME NEW c, NEW op \in Ops, NEW obj \in Objs, NEW l \in Labels,
         NEW m \in Labels,
         m = After(c, [op |-> op, obj |-> obj], l), m.at # "bad", m.used <= Reserves(c)
  PROVE  Path(c, Step(op, obj), l, m)
<1> DEFINE f == [i \in 0..1 |-> IF i = 0 THEN l ELSE m]
           st == [op |-> op, obj |-> obj]
           s == <<st>>
<1>1. s \in Seq(Steps) /\ Len(s) = 1 /\ s[1] = st
  BY DEF Steps, Ops, Objs
<1>2. f \in [0..1 -> Labels] /\ f[0] = l /\ f[1] = m
  OBVIOUS
<1>3. 1..1 = {1} /\ 1 - 1 = 0
  OBVIOUS
<1> HIDE DEF f, st
<1>4. Leads(c, s, f, l, m)
  BY <1>1, <1>2, <1>3 DEF Leads, st
<1> QED
  BY <1>4 DEF Path, Step, st

LEMMA JoinPaths ==
  ASSUME NEW c, NEW s, NEW t, NEW l, NEW m, NEW n,
         Path(c, s, l, m), Path(c, t, m, n)
  PROVE  Path(c, s \o t, l, n)
<1>1. PICK f : Leads(c, s, f, l, m)
  BY DEF Path
<1>2. PICK g : Leads(c, t, g, m, n)
  BY DEF Path
<1>3. s \in Seq(Steps) /\ t \in Seq(Steps) /\ Len(s) \in Nat /\ Len(t) \in Nat
  BY <1>1, <1>2 DEF Leads
<1>4. /\ s \o t \in Seq(Steps) /\ Len(s \o t) = Len(s) + Len(t)
      /\ \A i \in 1..Len(s) : (s \o t)[i] = s[i]
      /\ \A i \in 1..Len(t) : (s \o t)[Len(s) + i] = t[i]
  BY <1>3
<1> DEFINE h == [i \in 0..(Len(s) + Len(t)) |-> IF i <= Len(s) THEN f[i] ELSE g[i - Len(s)]]
<1>5. h \in [0..(Len(s) + Len(t)) -> Labels]
  BY <1>1, <1>2, <1>3 DEF Leads
<1>6. h[0] = l
  BY <1>1, <1>3 DEF Leads
<1>7. h[Len(s) + Len(t)] = n
  <2>1. CASE Len(t) = 0
    BY <1>1, <1>2, <1>3, <2>1 DEF Leads
  <2>2. CASE Len(t) > 0
    BY <1>1, <1>2, <1>3, <2>2 DEF Leads
  <2> QED
    BY <1>3, <2>1, <2>2
<1>8. ASSUME NEW i \in 1..(Len(s) + Len(t))
      PROVE  /\ h[i] = After(c, (s \o t)[i], h[i - 1])
             /\ h[i].at # "bad" /\ h[i].used <= Reserves(c)
  <2>1. CASE i <= Len(s)
    <3>1. h[i] = f[i] /\ h[i - 1] = f[i - 1] /\ (s \o t)[i] = s[i] /\ i \in 1..Len(s)
      BY <1>3, <1>4, <2>1
    <3> HIDE DEF h
    <3> QED
      BY <1>1, <3>1 DEF Leads
  <2>2. CASE i > Len(s)
    <3> DEFINE j == i - Len(s)
    <3>1. j \in 1..Len(t) /\ h[i] = g[j] /\ (s \o t)[i] = t[j]
      BY <1>3, <1>4, <2>2
    <3>2. h[i - 1] = g[j - 1]
      <4>1. CASE j = 1
        BY <1>1, <1>2, <1>3, <4>1 DEF Leads
      <4>2. CASE j > 1
        BY <1>3, <3>1, <4>2
      <4> QED
        BY <3>1, <4>1, <4>2
    <3> HIDE DEF h, j
    <3> QED
      BY <1>2, <3>1, <3>2 DEF Leads
  <2> QED
    BY <1>3, <2>1, <2>2
<1> HIDE DEF h
<1>9. Leads(c, s \o t, h, l, n)
  BY <1>3, <1>4, <1>5, <1>6, <1>7, <1>8 DEF Leads
<1> QED
  BY <1>9 DEF Path

(* A step that neither sends a payload nor reserves takes the boot from p  *)
(* to q, and keeps the count; one that reserves adds to it.                *)
Moves(c, op, obj, p, q) ==
  /\ op \in Ops \ {"payload_brom", "payload_pl", "reserve"} /\ obj \in Objs
  /\ p \in Places /\ q \in Places \ {"bad"}
  /\ q = Follows(c, [op |-> op, obj |-> obj], p)

LEMMA PlainStep ==
  ASSUME NEW c, NEW op, NEW obj, NEW p, NEW q, Moves(c, op, obj, p, q),
         NEW u \in Nat, u <= Reserves(c)
  PROVE  Path(c, Step(op, obj), Lab(p, u), Lab(q, u))
<1> DEFINE st == [op |-> op, obj |-> obj]
<1>1. After(c, st, Lab(p, u)) = Lab(q, u)
  BY DEF Moves, After, Lab, Uses
<1>2. Lab(p, u) \in Labels /\ Lab(q, u) \in Labels /\ Lab(q, u).at = q /\ Lab(q, u).used = u
  BY DEF Moves, Lab, Labels, Places
<1> QED
  BY <1>1, <1>2, StepPath DEF Moves

LEMMA ReserveStep ==
  ASSUME NEW c, NEW obj \in Objs, NEW p \in {"brom", "ready", "imaged"}, NEW u \in Nat,
         u + 1 <= Reserves(c)
  PROVE  Path(c, Step("reserve", obj), Lab(p, u), Lab(p, u + 1))
<1> DEFINE st == [op |-> "reserve", obj |-> obj]
<1>1. Follows(c, st, p) = p
  BY DEF Follows
<1>2. After(c, st, Lab(p, u)) = Lab(p, u + 1)
  BY <1>1 DEF After, Lab, Uses
<1>3. /\ Lab(p, u) \in Labels /\ Lab(p, u + 1) \in Labels
      /\ Lab(p, u + 1).at = p /\ Lab(p, u + 1).used = u + 1
  BY DEF Lab, Labels, Places
<1> QED
  BY <1>2, <1>3, StepPath DEF Ops

LEMMA PayloadSteps ==
  ASSUME NEW c, NEW obj \in Objs, NEW u \in Nat, Reserves(c) \in Nat
  PROVE  /\ Path(c, Step("payload_brom", obj), Lab("rom", u), Lab("sentB", 0))
         /\ Path(c, Step("payload_pl", obj), Lab("pl", u), Lab("sentP", 0))
<1>1. /\ After(c, [op |-> "payload_brom", obj |-> obj], Lab("rom", u)) = Lab("sentB", 0)
      /\ After(c, [op |-> "payload_pl", obj |-> obj], Lab("pl", u)) = Lab("sentP", 0)
  BY DEF After, Lab, Uses, Follows
<1>2. /\ Lab("rom", u) \in Labels /\ Lab("sentB", 0) \in Labels
      /\ Lab("pl", u) \in Labels /\ Lab("sentP", 0) \in Labels
      /\ Lab("sentB", 0).at = "sentB" /\ Lab("sentB", 0).used = 0
      /\ Lab("sentP", 0).at = "sentP" /\ Lab("sentP", 0).used = 0
  BY DEF Lab, Labels, Places
<1>3. 0 <= Reserves(c)
  OBVIOUS
<1>4. Path(c, Step("payload_brom", obj), Lab("rom", u), Lab("sentB", 0))
  BY <1>1, <1>2, <1>3, StepPath DEF Ops
<1>5. Path(c, Step("payload_pl", obj), Lab("pl", u), Lab("sentP", 0))
  BY <1>1, <1>2, <1>3, StepPath DEF Ops
<1> QED
  BY <1>4, <1>5

-----------------------------------------------------------------------------
(* The parts of the line.                                                  *)

LEMMA ConfigFacts ==
  ASSUME NEW c \in Configs
  PROVE  /\ Len(c.upload) \in Nat /\ Reserves(c) \in Nat
         /\ HostSlots(c) \in Nat
         /\ Len(c.upload) + (IF c.lk THEN 2 ELSE 0) <= Reserves(c)
         /\ HostSlots(c) + 3 + Reserves(c) <= SlotsNeeded(c)
         /\ c.kernel \in Nat
<1>1. Len(c.upload) \in Nat /\ c.kernel \in Nat
  BY ConfigsAssumption
<1> DEFINE n == Len(c.upload)
           l1 == IF c.lk THEN 1 ELSE 0
           l2 == IF c.lk THEN 2 ELSE 0
           l3 == IF c.lk THEN 3 ELSE 0
           k == IF c.kernel > 0 THEN 1 ELSE 0
           d == IF c.dev = "rom" THEN n + 1 ELSE 0
<1>2. Reserves(c) = n + l2 + k /\ HostSlots(c) = l1 + d
  BY DEF Reserves, HostSlots
<1>3. SlotsNeeded(c) = l3 + k + d + 3 + n
  BY DEF SlotsNeeded
<1>4. l1 \in Nat /\ l2 \in Nat /\ l3 = l1 + l2 /\ k \in Nat /\ d \in Nat /\ n \in Nat
  BY <1>1
<1> HIDE DEF n, l1, l2, l3, k, d
<1>5. /\ n + l2 + k \in Nat /\ l1 + d \in Nat /\ n + l2 <= n + l2 + k
      /\ l1 + d + 3 + (n + l2 + k) <= l3 + k + d + 3 + n
  BY <1>4
<1> QED
  BY <1>1, <1>2, <1>3, <1>5 DEF n, l2

LEMMA ReservesFacts ==
  ASSUME NEW c \in Configs
  PROVE  /\ Reserves(c) \in Nat /\ 0 <= Reserves(c)
         /\ Len(c.upload) \in Nat /\ Len(c.upload) <= Reserves(c)
<1> DEFINE n == Len(c.upload)
           l == IF c.lk THEN 2 ELSE 0
<1>1. n + l <= Reserves(c) /\ l \in Nat /\ n \in Nat /\ Reserves(c) \in Nat
  BY ConfigFacts
<1> HIDE DEF n, l
<1>2. n <= Reserves(c) /\ 0 <= Reserves(c)
  BY <1>1
<1> QED
  BY <1>1, <1>2 DEF n

LEMMA UploadsPath ==
  ASSUME NEW c \in Configs, NEW p \in {"brom", "ready"}, NEW u \in Nat,
         u + Len(c.upload) <= Reserves(c)
  PROVE  Path(c, Uploads(c), Lab(p, u), Lab(p, u + Len(c.upload)))
<1> DEFINE n == Len(c.upload)
           s == Uploads(c)
           f == [i \in 0..(2 * n) |-> Lab(p, u + (i \div 2))]
<1>1. n \in Nat /\ Reserves(c) \in Nat
  BY ConfigFacts
<1> HIDE DEF n
<1>2. /\ s \in Seq(Steps) /\ Len(s) = 2 * n
      /\ \A i \in 1..(2 * n) : s[i].op = IF i % 2 = 1 THEN "upload" ELSE "reserve"
  <2>1. s = [i \in 1..(2 * n) |->
               [op |-> IF i % 2 = 1 THEN "upload" ELSE "reserve",
                obj |-> <<"up", (i + 1) \div 2>>]]
    BY DEF Uploads, n
  <2>2. \A i \in 1..(2 * n) : (i + 1) \div 2 \in Nat
    BY <1>1
  <2>3. \A i \in 1..(2 * n) :
          [op |-> IF i % 2 = 1 THEN "upload" ELSE "reserve",
           obj |-> <<"up", (i + 1) \div 2>>] \in Steps
    BY <2>2 DEF Steps, Ops, Objs
  <2>4. s \in [1..(2 * n) -> Steps]
    BY <2>1, <2>3
  <2>5. 2 * n \in Nat
    BY <1>1
  <2> HIDE DEF s
  <2>6. s \in Seq(Steps) /\ Len(s) = 2 * n
    BY <2>4, <2>5
  <2>7. \A i \in 1..(2 * n) : s[i].op = IF i % 2 = 1 THEN "upload" ELSE "reserve"
    BY <2>1
  <2> QED
    BY <2>6, <2>7
<1>3. \A i \in 0..(2 * n) : u + (i \div 2) \in Nat /\ u + (i \div 2) <= Reserves(c)
  BY <1>1 DEF n
<1>4. f \in [0..(2 * n) -> Labels]
  BY <1>3 DEF Lab, Labels, Places
<1>5. f[0] = Lab(p, u) /\ f[2 * n] = Lab(p, u + n)
  BY <1>1
<1>6. ASSUME NEW i \in 1..(2 * n)
      PROVE  f[i] = After(c, s[i], f[i - 1]) /\ f[i].at # "bad" /\ f[i].used <= Reserves(c)
  <2>1. f[i] = Lab(p, u + (i \div 2)) /\ f[i - 1] = Lab(p, u + ((i - 1) \div 2))
    BY <1>1
  <2>2. f[i].at # "bad" /\ f[i].used <= Reserves(c)
    BY <1>1, <1>3, <2>1 DEF Lab
  <2>3. Follows(c, s[i], p) = p
    BY <1>2 DEF Follows
  <2>4. Uses(s[i], u + ((i - 1) \div 2)) = u + (i \div 2)
    <3>1. CASE i % 2 = 1
      <4>1. (i - 1) \div 2 = i \div 2
        BY <1>1, <3>1
      <4>2. s[i].op = "upload"
        BY <1>2, <3>1
      <4> QED
        BY <4>1, <4>2 DEF Uses
    <3>2. CASE i % 2 # 1
      <4>1. (i - 1) \div 2 + 1 = i \div 2
        BY <1>1, <3>2
      <4>2. s[i].op = "reserve"
        BY <1>2, <3>2
      <4>3. u + ((i - 1) \div 2) + 1 = u + (i \div 2)
        BY <1>1, <4>1
      <4> QED
        BY <4>2, <4>3 DEF Uses
    <3> QED
      BY <3>1, <3>2
  <2>5. After(c, s[i], f[i - 1]) = Lab(p, u + (i \div 2))
    <3> HIDE DEF f, s
    <3> QED
      BY <2>1, <2>3, <2>4 DEF After, Lab
  <2> QED
    BY <2>1, <2>2, <2>5
<1> HIDE DEF f, s
<1>7. Leads(c, s, f, Lab(p, u), Lab(p, u + n))
  BY <1>2, <1>4, <1>5, <1>6 DEF Leads
<1> QED
  BY <1>7 DEF Path, s, n

LEMMA LkPath ==
  ASSUME NEW c \in Configs, NEW u \in Nat, u + (IF c.lk THEN 2 ELSE 0) <= Reserves(c)
  PROVE  Path(c, LkScript(c), Lab("ready", u), Lab("ready", u + (IF c.lk THEN 2 ELSE 0)))
<1> DEFINE lk == <<"lk", 0>>
           arg == <<"bootarg", 0>>
<1>0. Reserves(c) \in Nat /\ Lab("ready", u) \in Labels
  BY ConfigFacts DEF Lab, Labels, Places
<1>1. CASE ~ c.lk
  BY <1>0, <1>1, EmptyPath DEF LkScript
<1>2. CASE c.lk
  <2>0. u + 2 <= Reserves(c) /\ u + 1 <= Reserves(c) /\ u <= Reserves(c) /\ u + 1 \in Nat
    BY <1>0, <1>2
  <2>1. Path(c, Step("upload", lk), Lab("ready", u), Lab("ready", u))
    <3>1. Moves(c, "upload", lk, "ready", "ready")
      BY <1>0, <2>0 DEF Moves, Follows, Places, Ops, Objs
    <3> QED
      BY <1>0, <2>0, <3>1, PlainStep
  <2>2. Path(c, Step("reserve", lk), Lab("ready", u), Lab("ready", u + 1))
    BY <1>0, <2>0, ReserveStep DEF Objs
  <2>3. Path(c, Step("alloc", arg), Lab("ready", u + 1), Lab("ready", u + 1))
    <3>1. Moves(c, "alloc", arg, "ready", "ready")
      BY <1>0, <2>0 DEF Moves, Follows, Places, Ops, Objs
    <3> QED
      BY <1>0, <2>0, <3>1, PlainStep
  <2>4. Path(c, Step("reserve", arg), Lab("ready", u + 1), Lab("ready", u + 1 + 1))
    BY <1>0, <2>0, ReserveStep DEF Objs
  <2>5. Path(c, Step("upload", arg), Lab("ready", u + 2), Lab("ready", u + 2))
    <3>1. Moves(c, "upload", arg, "ready", "ready")
      BY <1>0, <2>0 DEF Moves, Follows, Places, Ops, Objs
    <3> QED
      BY <1>0, <2>0, <3>1, PlainStep
  <2>6. u + 1 + 1 = u + 2
    OBVIOUS
  <2> QED
    BY <1>2, <2>1, <2>2, <2>3, <2>4, <2>5, <2>6, JoinPaths DEF LkScript
<1> QED
  BY <1>1, <1>2, ConfigsAssumption

LEMMA ModePath ==
  ASSUME NEW c \in Configs, NEW u \in Nat, u + (IF c.kernel > 0 THEN 1 ELSE 0) <= Reserves(c)
  PROVE  \E m : Path(c, ModeScript(c), Lab("ready", u), m)
<1> DEFINE none == <<"none", 0>>
           lk == <<"lk", 0>>
           img == <<"bootimg", 0>>
<1>00. Reserves(c) \in Nat /\ Lab("ready", u) \in Labels /\ c.kernel \in Nat
  BY ConfigFacts DEF Lab, Labels, Places
<1>0. /\ Reserves(c) \in Nat /\ Lab("ready", u) \in Labels /\ c.kernel \in Nat
      /\ u <= Reserves(c)
  BY <1>00
<1>1. CASE c.mode = "LK"
  <2>1. ASSUME NEW p \in {"ready", "imaged"}, NEW v \in Nat, v <= Reserves(c),
               p = "ready" => c.kernel = 0, p = "imaged" => c.kernel > 0,
               Path(c, BootimgScript(c), Lab("ready", u), Lab(p, v))
        PROVE  Path(c, ModeScript(c), Lab("ready", u), Lab("gone", v))
    <3>1. Path(c, Step("extract", none), Lab(p, v), Lab(p, v))
      <4>1. Moves(c, "extract", none, p, p)
        BY <2>1 DEF Moves, Follows, Places, Ops, Objs
      <4> QED
        BY <2>1, <4>1, PlainStep
    <3>2. Path(c, Step("set_lk", none), Lab(p, v), Lab("armed", v))
      <4>1. Moves(c, "set_lk", none, p, "armed")
        BY <1>1, <2>1 DEF Moves, Follows, Places, Ops, Objs
      <4> QED
        BY <1>1, <2>1, <4>1, PlainStep
    <3>3. Path(c, Step("hook", none), Lab("armed", v), Lab("armed", v))
      <4>1. Moves(c, "hook", none, "armed", "armed")
        BY <2>1 DEF Moves, Follows, Places, Ops, Objs
      <4> QED
        BY <2>1, <4>1, PlainStep
    <3>4. Path(c, Step("jump", lk), Lab("armed", v), Lab("gone", v))
      <4>1. Moves(c, "jump", lk, "armed", "gone")
        BY <2>1 DEF Moves, Follows, Places, Ops, Objs
      <4> QED
        BY <2>1, <4>1, PlainStep
    <3> QED
      BY <1>1, <2>1, <3>1, <3>2, <3>3, <3>4, JoinPaths DEF ModeScript, Local
  <2>2. CASE c.kernel > 0
    <3>0. u + 1 <= Reserves(c) /\ u + 1 \in Nat
      BY <1>0, <2>2
    <3>1. Path(c, Step("mkbootimg", none), Lab("ready", u), Lab("ready", u))
      <4>1. Moves(c, "mkbootimg", none, "ready", "ready")
        BY <1>0 DEF Moves, Follows, Places, Ops, Objs
      <4> QED
        BY <1>0, <4>1, PlainStep
    <3>2. Path(c, Step("alloc", img), Lab("ready", u), Lab("imaged", u))
      <4>1. Moves(c, "alloc", img, "ready", "imaged")
        BY <1>0 DEF Moves, Follows, Places, Ops, Objs
      <4> QED
        BY <1>0, <4>1, PlainStep
    <3>3. Path(c, Step("upload", img), Lab("imaged", u), Lab("imaged", u))
      <4>1. Moves(c, "upload", img, "imaged", "imaged")
        BY <1>0 DEF Moves, Follows, Places, Ops, Objs
      <4> QED
        BY <1>0, <4>1, PlainStep
    <3>4. Path(c, Step("reserve", img), Lab("imaged", u), Lab("imaged", u + 1))
      BY <3>0, ReserveStep DEF Objs
    <3>5. Path(c, BootimgScript(c), Lab("ready", u), Lab("imaged", u + 1))
      BY <2>2, <3>1, <3>2, <3>3, <3>4, JoinPaths DEF BootimgScript, Local
    <3> QED
      BY <2>1, <2>2, <3>0, <3>5
  <2>3. CASE c.kernel = 0
    <3>1. Path(c, BootimgScript(c), Lab("ready", u), Lab("ready", u))
      BY <1>0, <2>3, EmptyPath DEF BootimgScript
    <3> QED
      BY <1>0, <2>1, <2>3, <3>1
  <2> QED
    BY <1>0, <2>2, <2>3
<1>2. CASE c.mode = "REPL"
  <2>1. Path(c, Step("repl", none), Lab("ready", u), Lab("over", u))
    <3>1. Moves(c, "repl", none, "ready", "over")
      BY <1>0 DEF Moves, Follows, Places, Ops, Objs
    <3> QED
      BY <1>0, <3>1, PlainStep
  <2> QED
    BY <1>2, <2>1 DEF ModeScript, Local
<1>3. CASE c.mode = "Preloader" /\ c.lk
  <2>1. Path(c, Step("jump", lk), Lab("ready", u), Lab("gone", u))
    <3>1. Moves(c, "jump", lk, "ready", "gone")
      BY <1>0 DEF Moves, Follows, Places, Ops, Objs
    <3> QED
      BY <1>0, <3>1, PlainStep
  <2> QED
    BY <1>3, <2>1 DEF ModeScript
<1>4. CASE c.mode \notin {"LK", "REPL"} /\ ~ (c.mode = "Preloader" /\ c.lk)
  <2>1. Path(c, Step("jump", <<"cli", 0>>), Lab("ready", u), Lab("gone", u))
    <3>1. Moves(c, "jump", <<"cli", 0>>, "ready", "gone")
      BY <1>0, <1>4 DEF Moves, Follows, Places, Ops, Objs
    <3> QED
      BY <1>0, <1>4, <3>1, PlainStep
  <2> QED
    BY <1>4, <2>1 DEF ModeScript
<1> QED
  BY <1>1, <1>2, <1>3, <1>4

LEMMA PreloaderPath ==
  ASSUME NEW c \in Configs, NEW p \in {"plain", "back"}, NEW u \in Nat, u <= Reserves(c)
  PROVE  \E m : Path(c, PreloaderScript(c), Lab(p, u), m)
<1> DEFINE none == <<"none", 0>>
           n == Len(c.upload)
           l == IF c.lk THEN 2 ELSE 0
           k == IF c.kernel > 0 THEN 1 ELSE 0
<1>a. /\ Reserves(c) \in Nat /\ n \in Nat /\ l \in Nat /\ k \in Nat
      /\ Reserves(c) = n + l + k
  BY ConfigFacts DEF Reserves
<1>0. Reserves(c) \in Nat /\ 0 <= Reserves(c) /\ none \in Objs
  BY ReservesFacts DEF Objs
<1>1. Path(c, Step("params_pl", none), Lab(p, u), Lab("pl", u))
  <2>1. Moves(c, "params_pl", none, p, "pl")
    BY DEF Moves, Follows, Places, Ops, Objs
  <2> QED
    BY <2>1, PlainStep
<1>2. Path(c, Step("extract", none), Lab("pl", u), Lab("pl", u))
  <2>1. Moves(c, "extract", none, "pl", "pl")
    BY DEF Moves, Follows, Places, Ops, Objs
  <2> QED
    BY <2>1, PlainStep
<1>3. Path(c, Step("payload_pl", none), Lab("pl", u), Lab("sentP", 0))
  BY <1>0, PayloadSteps
<1>4. Path(c, Step("start", none), Lab("sentP", 0), Lab("fresh", 0))
  <2>1. Moves(c, "start", none, "sentP", "fresh")
    BY <1>0 DEF Moves, Follows, Places, Ops, Objs
  <2> QED
    BY <1>0, <2>1, PlainStep
<1>5. Path(c, Step("set_pl", none), Lab("fresh", 0), Lab("ready", 0))
  <2>1. Moves(c, "set_pl", none, "fresh", "ready")
    BY <1>0 DEF Moves, Follows, Places, Ops, Objs
  <2> QED
    BY <1>0, <2>1, PlainStep
<1>6. Path(c, Uploads(c), Lab("ready", 0), Lab("ready", n))
  <2>1. 0 + n <= Reserves(c) /\ 0 + n = n
    BY ReservesFacts
  <2> HIDE DEF n
  <2>2. Path(c, Uploads(c), Lab("ready", 0), Lab("ready", 0 + n))
    BY <2>1, UploadsPath DEF n
  <2> QED
    BY <2>1, <2>2
<1>7. Path(c, LkScript(c), Lab("ready", n), Lab("ready", n + l))
  <2>1. n + l <= Reserves(c)
    <3> HIDE DEF n, l, k
    <3> QED
      BY <1>a
  <2> QED
    BY <1>a, <2>1, LkPath
<1>8. PICK m : Path(c, ModeScript(c), Lab("ready", n + l), m)
  <2>1. n + l \in Nat /\ n + l + k <= Reserves(c)
    <3> HIDE DEF n, l, k
    <3> QED
      BY <1>a
  <2> QED
    BY <2>1, ModePath
<1> HIDE DEF n, l, none
<1> QED
  BY <1>1, <1>2, <1>3, <1>4, <1>5, <1>6, <1>7, <1>8, JoinPaths
     DEF PreloaderScript, Local, none

LEMMA BromPath ==
  ASSUME NEW c \in Configs, c.dev = "rom"
  PROVE  Path(c, BromScript(c), Lab("plain", 0),
              IF c.mode = "BootROM" THEN Lab("brom", Len(c.upload)) ELSE Lab("gone", 0))
<1> DEFINE none == <<"none", 0>>
           n == Len(c.upload)
           pl == <<"preloader", 0>>
           first == Step("params_brom", none) \o Step("payload_brom", none) \o Step("start", none)
<1>0. /\ Reserves(c) \in Nat /\ 0 <= Reserves(c) /\ none \in Objs
      /\ n \in Nat /\ n <= Reserves(c)
  BY ReservesFacts DEF Objs
<1>1. Path(c, Step("params_brom", none), Lab("plain", 0), Lab("rom", 0))
  <2>1. Moves(c, "params_brom", none, "plain", "rom")
    BY <1>0 DEF Moves, Follows, Places, Ops, Objs
  <2> QED
    BY <1>0, <2>1, PlainStep
<1>2. Path(c, Step("payload_brom", none), Lab("rom", 0), Lab("sentB", 0))
  BY <1>0, PayloadSteps
<1>3. Path(c, Step("start", none), Lab("sentB", 0), Lab("brom", 0))
  <2>1. Moves(c, "start", none, "sentB", "brom")
    BY <1>0 DEF Moves, Follows, Places, Ops, Objs
  <2> QED
    BY <1>0, <2>1, PlainStep
<1>4. Path(c, first, Lab("plain", 0), Lab("brom", 0))
  BY <1>1, <1>2, <1>3, JoinPaths
<1>5. CASE c.mode = "BootROM"
  <2>1. Path(c, Step("any_input", none), Lab("brom", 0), Lab("brom", 0))
    <3>1. Moves(c, "any_input", none, "brom", "brom")
      BY <1>0 DEF Moves, Follows, Places, Ops, Objs
    <3> QED
      BY <1>0, <3>1, PlainStep
  <2>2. Path(c, Uploads(c), Lab("brom", 0), Lab("brom", n))
    <3>1. 0 + n <= Reserves(c) /\ 0 + n = n
      BY <1>0
    <3>2. Path(c, Uploads(c), Lab("brom", 0), Lab("brom", 0 + n))
      BY <3>1, UploadsPath
    <3> HIDE DEF n
    <3> QED
      BY <3>1, <3>2
  <2>3. Path(c, Step("any_input", none) \o Uploads(c), Lab("brom", 0), Lab("brom", n))
    BY <2>1, <2>2, JoinPaths
  <2>4. BromScript(c) = first \o (Step("any_input", none) \o Uploads(c))
    BY <1>5 DEF BromScript, Local
  <2> HIDE DEF first
  <2> QED
    BY <1>4, <1>5, <2>3, <2>4, JoinPaths
<1>6. CASE c.mode # "BootROM"
  <2>1. Path(c, Step("upload", pl), Lab("brom", 0), Lab("brom", 0))
    <3>1. Moves(c, "upload", pl, "brom", "brom")
      BY <1>0 DEF Moves, Follows, Places, Ops, Objs
    <3> QED
      BY <1>0, <3>1, PlainStep
  <2>2. Path(c, Step("jump", pl), Lab("brom", 0), Lab("gone", 0))
    <3>1. Moves(c, "jump", pl, "brom", "gone")
      BY <1>0 DEF Moves, Follows, Places, Ops, Objs
    <3> QED
      BY <1>0, <3>1, PlainStep
  <2>3. Path(c, Step("upload", pl) \o Step("jump", pl), Lab("brom", 0), Lab("gone", 0))
    BY <2>1, <2>2, JoinPaths
  <2>4. BromScript(c) = first \o (Step("upload", pl) \o Step("jump", pl))
    BY <1>6 DEF BromScript, Local
  <2> HIDE DEF first
  <2> QED
    BY <1>4, <1>6, <2>3, <2>4, JoinPaths
<1> QED
  BY <1>5, <1>6

LEMMA ConcatLen ==
  ASSUME NEW S, NEW s \in Seq(S), NEW t \in Seq(S)
  PROVE  Len(s \o t) = Len(s) + Len(t) /\ Len(s) \in Nat /\ Len(t) \in Nat
OBVIOUS

LEMMA ScriptPath ==
  ASSUME NEW c \in Configs
  PROVE  /\ \E m : Path(c, Script(c), Lab("begin", 0), m)
         /\ Len(Script(c)) >= 1
<1> DEFINE none == <<"none", 0>>
           main == Step("main", none)
<1>0. Reserves(c) \in Nat /\ none \in Objs /\ 0 <= Reserves(c)
  BY ReservesFacts DEF Objs
<1>1. Path(c, main, Lab("begin", 0), Lab("plain", 0))
  <2>1. Moves(c, "main", none, "begin", "plain")
    BY <1>0 DEF Moves, Follows, Places, Ops, Objs
  <2> QED
    BY <1>0, <2>1, PlainStep
<1>2. \E t : Script(c) = main \o t /\ \E m : Path(c, t, Lab("plain", 0), m)
  <2>1. CASE c.dev # "rom"
    BY <1>0, <2>1, PreloaderPath DEF Script, Local
  <2>2. CASE c.dev = "rom" /\ c.mode = "BootROM"
    <3>1. Path(c, BromScript(c), Lab("plain", 0), Lab("brom", Len(c.upload)))
      BY <2>2, BromPath
    <3>2. Lab("brom", Len(c.upload)) \in Labels
      BY ConfigFacts DEF Lab, Labels, Places
    <3>3. Path(c, BromScript(c) \o <<>>, Lab("plain", 0), Lab("brom", Len(c.upload)))
      BY <3>1, <3>2, EmptyPath, JoinPaths
    <3>4. Script(c) = main \o (BromScript(c) \o <<>>)
      BY <2>2 DEF Script, Local
    <3> QED
      BY <3>3, <3>4
  <2>3. CASE c.dev = "rom" /\ c.mode # "BootROM"
    <3>1. Path(c, BromScript(c), Lab("plain", 0), Lab("gone", 0))
      BY <2>3, BromPath
    <3>2. Path(c, Step("open_port", none), Lab("gone", 0), Lab("back", 0))
      <4>1. Moves(c, "open_port", none, "gone", "back")
        BY <1>0 DEF Moves, Follows, Places, Ops, Objs
      <4> QED
        BY <1>0, <4>1, PlainStep
    <3>3. PICK m : Path(c, PreloaderScript(c), Lab("back", 0), m)
      BY <1>0, PreloaderPath
    <3>4. Path(c, Step("open_port", none) \o PreloaderScript(c), Lab("gone", 0), m)
      BY <3>2, <3>3, JoinPaths
    <3>5. Path(c, BromScript(c) \o (Step("open_port", none) \o PreloaderScript(c)),
               Lab("plain", 0), m)
      BY <3>1, <3>4, JoinPaths
    <3>6. Script(c) = main \o (BromScript(c) \o (Step("open_port", none) \o PreloaderScript(c)))
      BY <2>3 DEF Script, Local
    <3> QED
      BY <3>5, <3>6
  <2> QED
    BY <2>1, <2>2, <2>3
<1>3. PICK t : Script(c) = main \o t /\ \E m : Path(c, t, Lab("plain", 0), m)
  BY <1>2
<1>4. PICK m : Path(c, t, Lab("plain", 0), m)
  BY <1>3
<1>5. Path(c, Script(c), Lab("begin", 0), m)
  BY <1>1, <1>3, <1>4, JoinPaths
<1>6. main \in Seq(Steps) /\ t \in Seq(Steps) /\ Len(main) = 1
  BY <1>1, <1>4 DEF Path, Leads, Step
<1>7. Len(Script(c)) >= 1
  <2> HIDE DEF main
  <2>1. Len(main \o t) = Len(main) + Len(t) /\ Len(t) \in Nat
    BY <1>6, ConcatLen
  <2> QED
    BY <1>3, <1>6, <2>1
<1> QED
  BY <1>5, <1>7

(* So the labelling exists, and never goes bad.                            *)
LEMMA LabelFacts ==
  ASSUME NEW c \in Configs
  PROVE  LET s == Script(c)
             f == Label(c)
         IN  /\ s \in Seq(Steps) /\ Len(s) \in Nat /\ Len(s) >= 1
             /\ f[0] = Lab("begin", 0)
             /\ \A i \in 0..Len(s) : f[i] \in Labels /\ f[i].used <= Reserves(c)
             /\ \A i \in 1..Len(s) :
                  f[i] = After(c, s[i], f[i - 1]) /\ f[i].at # "bad"
<1> DEFINE s == Script(c)
           R(g) == [i \in 0..Len(s) |->
                      IF i = 0 THEN Lab("begin", 0) ELSE After(c, s[i], g[i - 1])]
<1>1. PICK m : Path(c, s, Lab("begin", 0), m)
  BY ScriptPath
<1>2. PICK h : Leads(c, s, h, Lab("begin", 0), m)
  BY <1>1 DEF Path
<1> HIDE DEF s
<1>3. s \in Seq(Steps) /\ Len(s) \in Nat
  BY <1>2 DEF Leads
<1>4. h = R(h)
  <2>1. h \in [0..Len(s) -> Labels]
    BY <1>2 DEF Leads
  <2>2. \A i \in 0..Len(s) : h[i] = R(h)[i]
    BY <1>2, <1>3 DEF Leads
  <2> QED
    BY <2>1, <2>2
<1> DEFINE f == CHOOSE g : g = R(g)
<1>5. f = R(f)
  BY <1>4
<1>6. Label(c) = f
  BY DEF Label, s
<1> HIDE DEF f
<1>7. \A i \in 0..Len(s) : f[i] = IF i = 0 THEN Lab("begin", 0) ELSE After(c, s[i], f[i - 1])
  BY <1>5
<1>8. \A i \in 0..Len(s) : f[i] = h[i]
  <2> SUFFICES ASSUME NEW j \in 0..Len(s), f[j] # h[j] PROVE FALSE
    OBVIOUS
  <2> DEFINE B == {i \in 0..Len(s) : f[i] # h[i]}
  <2>1. B \in SUBSET Nat /\ B # {}
    OBVIOUS
  <2>2. PICK i \in B : \A k \in B : i <= k
    BY <2>1, LeastNat
  <2>3. i # 0
    BY <1>2, <1>7, <2>2 DEF Leads
  <2>4. i \in 1..Len(s) /\ i - 1 \in 0..Len(s) /\ i - 1 \notin B
    BY <1>3, <2>2, <2>3
  <2>5. f[i - 1] = h[i - 1]
    BY <2>4
  <2>6. f[i] = h[i]
    BY <1>2, <1>7, <2>3, <2>4, <2>5 DEF Leads
  <2> QED
    BY <2>2, <2>6
<1>9. Reserves(c) \in Nat
  BY ConfigFacts
<1>10. \A i \in 0..Len(s) : h[i] \in Labels /\ h[i].used <= Reserves(c)
  <2>1. h[0].used <= Reserves(c)
    BY <1>2, <1>9 DEF Leads, Lab
  <2> QED
    BY <1>2, <1>3, <2>1 DEF Leads
<1>11. \A i \in 1..Len(s) : h[i] = After(c, s[i], h[i - 1]) /\ h[i].at # "bad"
  BY <1>2 DEF Leads
<1>12. Len(s) >= 1
  BY ScriptPath DEF s
<1>13. \A i \in 1..Len(s) : i \in 0..Len(s) /\ i - 1 \in 0..Len(s)
  BY <1>3
<1>14. f[0] = Lab("begin", 0)
  BY <1>3, <1>7
<1>15. \A i \in 1..Len(s) : f[i] = After(c, s[i], f[i - 1]) /\ f[i].at # "bad"
  BY <1>8, <1>11, <1>13
<1>16. \A i \in 0..Len(s) : f[i] \in Labels /\ f[i].used <= Reserves(c)
  BY <1>8, <1>10
<1> QED
  BY <1>3, <1>6, <1>12, <1>14, <1>15, <1>16 DEF s

-----------------------------------------------------------------------------
(* The invariant.                                                          *)

(* The label of the place before the step under way, and after it.         *)
Lbl == Label(cfg)[ip - 1]
Then == After(cfg, Here, Lbl)

Boots == {"begin", "plain", "rom", "back", "pl"}
Sents == {"sentB", "sentP"}
Ons == {"brom", "fresh", "ready", "imaged", "armed"}

IsSeq(s) == \E S : s \in Seq(S)

EnoughSlots == SlotsNeeded(cfg) <= MaxSlots

(* The parameters on the host and on the device hold twelve slots.         *)
Table(p) ==
  /\ p = [memory |-> p.memory, blacklist |-> p.blacklist]
  /\ IsSeq(p.blacklist)
  /\ Len(p.blacklist) <= MaxSlots

SlotsInv == cfg \in Configs /\ Table(params) /\ Table(hparams)

(* The host by itself.                                                     *)
HostInv ==
  hstat = "running" =>
    /\ ip \in 1..Len(Script(cfg))
    /\ cmd \in ReplCommands \cup {NoCmd}
    /\ place \in [{"bootarg", "bootimg"} -> Int]
    /\ Lbl.at # "begin" => UsageOK(cfg)
    /\ Len(hparams.blacklist) <= HostSlots(cfg)
    /\ Lbl.at = "begin" => hparams.blacklist = <<>>
    /\ Lbl.at = "plain" => Len(hparams.blacklist) <= IF cfg.lk THEN 1 ELSE 0
    /\ Lbl.at = "pl" => hparams.memory = Dram

(* The wire to the device: a payload that has not read the host's Ack has  *)
(* it in front of the request.                                             *)
Hi == Message("Ack", Empty, 0)
Carries0 == toDev = IF phase = "hello" THEN <<Hi>> ELSE <<>>
Carries1(m) == toDev = IF phase = "hello" THEN <<Hi, m>> ELSE <<m>>
Carries2(m, d) == toDev = IF phase = "hello" THEN <<Hi, m, d>> ELSE <<m, d>>

Kind(m) == Decode(MessageKinds, m)
AKind(m) == Decode(ResponseKinds, m)

Reading == Here.op = "repl" /\ cmd.op = "Read"

(* m is the request of the step under way.                                 *)
Meant(m) ==
  /\ Here.op \in {"set_pl", "set_lk", "hook", "reserve", "alloc", "jump", "upload", "repl"}
  /\ Here.op = "set_pl" =>
       Kind(m) = "SetParams" /\ m.arg.type = "Preloader" /\ m.arg.ptrs = <<PlAddr>>
  /\ Here.op = "set_lk" =>
       /\ Kind(m) = "SetParams" /\ m.arg.type = "LK"
       /\ m.arg.ptrs = <<LkAddr + HookOff, LkAddr, BootimgAddr>>
  /\ Here.op = "hook" => Kind(m) = "Hook"
  /\ Here.op = "reserve" => Kind(m) = "BlacklistRange"
  /\ Here.op = "alloc" => Kind(m) = "GetFreeRange" /\ m.arg.size = Length(Here.obj)
  /\ Here.op = "jump" => Kind(m) = "Jump" /\ m.arg.addr = Addr(Here.obj)
  /\ Here.op = "upload" => Kind(m) = "Write"
  /\ Here.op = "repl" =>
       /\ Kind(m) \in {"Ack", "Read", "Write", "FlushCache", "Jump", "Reset"}
       /\ Kind(m) = "Read" <=> cmd.op = "Read"

(* What the payload has been told at place p.                              *)
Told(p) ==
  /\ p \in {"ready", "imaged", "armed"} => plParams # <<>>
  /\ p = "armed" => lkParams # <<>>

Served(l) ==
  Here.op # "repl" =>
    Told(l.at) /\ Len(params.blacklist) <= HostSlots(cfg) + 3 + l.used

Free(size) == FindUnusedRange(params.memory, params.blacklist, size)

(* m is an answer to it that the device may give.                          *)
Fitting(m) ==
  /\ Here.op \in AckSteps /\ EnoughSlots => AKind(m) = "Ack"
  /\ Here.op = "alloc" => AKind(m) = "Range" /\ m.arg.start = Free(Length(Here.obj)).start
  /\ Here.op = "jump" /\ AKind(m) = "Nack" => cfg.jump \in Returning
  /\ Here.op \notin AckSteps \/ AKind(m) = "Ack" => Served(Then)

Answer(q) ==
  /\ Reading => \E m, d : q = <<m, d>> /\ m.re = req /\ d.re = req
  /\ ~ Reading => \E m : q = <<m>> /\ m.re = req /\ Fitting(m)

Request ==
  \E m, d : /\ m.re = req /\ Meant(m)
            /\ Kind(m) = "Write" => Carries2(m, d)
            /\ Kind(m) # "Write" => Carries1(m)

Rest == waiting = FALSE /\ Carries0 /\ toHost = <<>> /\ phase # "preloader" /\ Served(Lbl)
Asked == waiting = TRUE /\ Request /\ toHost = <<>> /\ phase # "preloader" /\ Served(Lbl)
Answered ==
  waiting = TRUE /\ toDev = <<>> /\ Answer(toHost) /\ phase \notin {"preloader", "hello"}
Lost == waiting = TRUE /\ Carries0 /\ toHost = <<>>

(* The steps that do not talk to the device.                               *)
Silent == {"any_input", "mkbootimg", "extract"}

Up == {"hello", "serving", "preloader", "booted", "lk", "crashed", "reset"}

(* Which payload it is that has been sent.                                 *)
SetUp(p) ==
  /\ p \in {"sentB", "brom"} => stage = "brom"
  /\ p \in {"sentP", "fresh", "ready", "imaged", "armed"} =>
       stage = "pl" /\ params.memory = Dram

(* Nothing runs that could answer.                                         *)
BootInv ==
  waiting = FALSE /\ toDev = <<>> /\ toHost = <<>> /\ phase \in {"rom", "preloader"}

(* The payload starts: it takes a slot for each area.                      *)
SentInv ==
  /\ waiting = FALSE /\ toDev = <<>>
  /\ \/ toHost = <<>> /\ phase \in {"app", "stack", "main", "halted"}
     \/ toHost = <<Hi>> /\ phase = "hello"
  /\ SetUp(Lbl.at)
  /\ DOMAIN areas = {"image", "stack", "heap"}
  /\ phase \in {"app", "stack"} => areas.heap = NoRange
  /\ phase = "app" => Len(params.blacklist) <= HostSlots(cfg)
  /\ phase = "stack" => Len(params.blacklist) <= HostSlots(cfg) + 1
  /\ phase = "main" /\ areas.heap = NoRange => Len(params.blacklist) <= HostSlots(cfg) + 2
  /\ phase \in {"main", "hello"} => Len(params.blacklist) <= HostSlots(cfg) + 3

(* The payload is there: between two requests, with one on its way, with   *)
(* its answer on its way, or gone without an answer; unless the REPL has   *)
(* given up on a transfer, after which nothing is known of the wire.       *)
OnInv ==
  /\ phase \in Up
  /\ Here.op \in Silent => waiting = FALSE
  /\ Lbl.at \notin {"brom", "fresh"} => phase # "hello"
  /\ SetUp(Lbl.at)
  /\ Lbl.at = "imaged" => place["bootimg"] # 0
  /\ \/ abandoned = TRUE /\ Here.op = "repl"
     \/ abandoned = FALSE /\ (Rest \/ Asked \/ Answered \/ Lost)

(* The jump is on its way, or has been made or refused.                    *)
GoneInv ==
  /\ phase \in Up /\ waiting = FALSE
  /\ \/ Carries0 /\ (phase = "preloader" => toHost = <<>>)
     \/ (\E m : Carries1(m)) /\ toHost = <<>> /\ phase # "preloader"

TalkInv ==
  hstat = "running" =>
    /\ Lbl.at \in Boots => BootInv
    /\ Lbl.at \in Sents => SentInv
    /\ Lbl.at \in Ons => OnInv
    /\ Lbl.at = "gone" => GoneInv
    /\ Lbl.at \notin Ons => abandoned = FALSE

(* What a payload that starts finds on the wire is the host's Ack.         *)
HelloInv ==
  phase \in {"app", "stack", "main", "hello"} =>
    toDev = <<>> \/ AKind(Head(toDev)) = "Ack"

(* Why the host may have failed; nothing changes any more after "no range".*)
Outside == {"usage", "no binary", "local", "payload", "timeout", "stale port", "repl"}

FailInv ==
  (hstat = "failed" /\ EnoughSlots) =>
    \/ why \in Outside
    \/ why = "jump" /\ cfg.jump \in Returning
    \/ /\ why = "no range" /\ Free(Length(Here.obj)) = NoRange
       /\ toDev = <<>> /\ phase \notin {"app", "stack", "main", "hello"}

IInv == SlotsInv /\ HostInv /\ TalkInv /\ HelloInv /\ HaltsOnlyForLack /\ FailInv

-----------------------------------------------------------------------------
(* Sequences, messages and the parameters.                                 *)

LEMMA JoinOne ==
  ASSUME NEW a, NEW b
  PROVE  <<a>> \o <<b>> = <<a, b>>
<1> DEFINE S == {a, b}
           s == <<a>> \o <<b>>
           t == <<a, b>>
<1>1. <<a>> \in Seq(S) /\ <<b>> \in Seq(S) /\ t \in Seq(S) /\ Len(t) = 2
  OBVIOUS
<1>2. s \in Seq(S) /\ Len(s) = 2 /\ s[1] = a /\ s[2] = b
  BY <1>1
<1>3. t[1] = a /\ t[2] = b
  OBVIOUS
<1> HIDE DEF S, s, t
<1>4. s \in Seq(S) /\ Len(s) = 2
  BY <1>2
<1>5. t \in Seq(S) /\ Len(t) = 2
  BY <1>1
<1>6. s \in [1..2 -> S] /\ t \in [1..2 -> S]
  BY <1>4, <1>5
<1>7. \A i \in 1..2 : s[i] = t[i]
  BY <1>2, <1>3
<1>8. s = t
  BY <1>6, <1>7
<1> QED
  BY <1>8 DEF s, t

LEMMA JoinTwo ==
  ASSUME NEW a, NEW b, NEW c
  PROVE  <<a>> \o <<b, c>> = <<a, b, c>>
<1> DEFINE S == {a, b, c}
           s == <<a>> \o <<b, c>>
           t == <<a, b, c>>
<1>1. <<a>> \in Seq(S) /\ <<b, c>> \in Seq(S) /\ t \in Seq(S) /\ Len(t) = 3
  OBVIOUS
<1>2. s \in Seq(S) /\ Len(s) = 3 /\ s[1] = a /\ s[2] = b /\ s[3] = c
  BY <1>1
<1>3. t[1] = a /\ t[2] = b /\ t[3] = c
  OBVIOUS
<1> HIDE DEF S, s, t
<1>4. s \in Seq(S) /\ Len(s) = 3
  BY <1>2
<1>5. t \in Seq(S) /\ Len(t) = 3
  BY <1>1
<1>6. s \in [1..3 -> S] /\ t \in [1..3 -> S]
  BY <1>4, <1>5
<1>7. \A i \in 1..3 : s[i] = t[i]
  BY <1>2, <1>3
<1>8. s = t
  BY <1>6, <1>7
<1> QED
  BY <1>8 DEF s, t

LEMMA Tuples ==
  ASSUME NEW a, NEW b, NEW c
  PROVE  /\ <<a>> # <<>> /\ <<a, b>> # <<>> /\ <<a, b, c>> # <<>>
         /\ Head(<<a>>) = a /\ Head(<<a, b>>) = a /\ Head(<<a, b, c>>) = a
         /\ Tail(<<a>>) = <<>> /\ Tail(<<a, b>>) = <<b>> /\ Tail(<<a, b, c>>) = <<b, c>>
         /\ Append(<<>>, a) = <<a>> /\ <<>> \o <<a>> = <<a>> /\ <<>> \o <<a, b>> = <<a, b>>
         /\ <<a>> \o <<b>> = <<a, b>> /\ <<a>> \o <<b, c>> = <<a, b, c>>
         /\ Len(<<>>) = 0 /\ Len(<<a>>) = 1 /\ Len(<<a, b>>) = 2
         /\ SubSeq(<<a>>, 2, 1) = <<>> /\ SubSeq(<<a, b>>, 3, 2) = <<>>
<1>1. <<a>> # <<>> /\ <<a, b>> # <<>> /\ <<a, b, c>> # <<>>
  OBVIOUS
<1>2. Head(<<a>>) = a /\ Head(<<a, b>>) = a /\ Head(<<a, b, c>>) = a
  OBVIOUS
<1>3. Tail(<<a>>) = <<>>
  OBVIOUS
<1>4. Tail(<<a, b>>) = <<b>>
  OBVIOUS
<1>5. Tail(<<a, b, c>>) = <<b, c>>
  OBVIOUS
<1>6. Append(<<>>, a) = <<a>> /\ <<>> \o <<a>> = <<a>>
  OBVIOUS
<1>7. <<>> \o <<a, b>> = <<a, b>>
  OBVIOUS
<1>8. <<a>> \o <<b>> = <<a, b>>
  BY JoinOne
<1>9. <<a>> \o <<b, c>> = <<a, b, c>>
  BY JoinTwo
<1>10. Len(<<>>) = 0 /\ Len(<<a>>) = 1 /\ Len(<<a, b>>) = 2
  OBVIOUS
<1>11. SubSeq(<<a>>, 2, 1) = <<>>
  OBVIOUS
<1>12. SubSeq(<<a, b>>, 3, 2) = <<>>
  OBVIOUS
<1> QED
  BY <1>1, <1>2, <1>3, <1>4, <1>5, <1>6, <1>7, <1>8, <1>9, <1>10, <1>11, <1>12

LEMMA DecodeEncode ==
  ASSUME NEW kinds, NEW j \in 1..Len(kinds), NEW arg, NEW re
  PROVE  Decode(kinds, Encode(kinds, kinds[j], arg, re)) = kinds[j]
<1> DEFINE p == CHOOSE i \in 1..Len(kinds) : kinds[i] = kinds[j]
<1>1. p \in 1..Len(kinds) /\ kinds[p] = kinds[j]
  OBVIOUS
<1> HIDE DEF p
<1>2. Encode(kinds, kinds[j], arg, re) = [tag |-> "frame", pos |-> p, arg |-> arg, re |-> re]
  BY DEF Encode, p
<1> QED
  BY <1>1, <1>2 DEF Decode

LEMMA SlotsNeededType ==
  ASSUME NEW c \in Configs
  PROVE  SlotsNeeded(c) \in Nat /\ HostSlots(c) <= SlotsNeeded(c)
<1> DEFINE n == Len(c.upload)
           l1 == IF c.lk THEN 1 ELSE 0
           l3 == IF c.lk THEN 3 ELSE 0
           k == IF c.kernel > 0 THEN 1 ELSE 0
           d == IF c.dev = "rom" THEN n + 1 ELSE 0
<1>1. n \in Nat /\ l3 \in Nat /\ k \in Nat /\ d \in Nat /\ l1 \in Nat /\ l1 <= l3
  BY ConfigFacts
<1>2. SlotsNeeded(c) = l3 + k + d + 3 + n /\ HostSlots(c) = l1 + d
  BY DEF SlotsNeeded, HostSlots
<1> HIDE DEF n, l1, l3, k, d
<1> QED
  BY <1>1, <1>2

AllKinds ==
  {"Ack", "Read", "Write", "FlushCache", "Jump", "Reset", "Hook", "GetFreeRange",
   "BlacklistRange", "SetParams"}

LEMMA MessageFields ==
  ASSUME NEW k \in AllKinds, NEW arg, NEW re
  PROVE  /\ Kind(Message(k, arg, re)) = k
         /\ Message(k, arg, re).re = re /\ Message(k, arg, re).arg = arg
<1>1. PICK j \in 1..Len(MessageKinds) : MessageKinds[j] = k
  <2>1. Len(MessageKinds) = 10
    BY DEF MessageKinds
  <2>2. \E j \in 1..10 : MessageKinds[j] = k
    BY DEF MessageKinds, AllKinds
  <2> QED
    BY <2>1, <2>2
<1>2. Kind(Message(k, arg, re)) = k
  BY <1>1, DecodeEncode DEF Message, Kind
<1> QED
  BY <1>2 DEF Message, Encode

LEMMA ResponseFields ==
  ASSUME NEW k \in {"Ack", "Nack", "Range"}, NEW arg, NEW re
  PROVE  /\ AKind(Response(k, arg, re)) = k
         /\ Response(k, arg, re).re = re /\ Response(k, arg, re).arg = arg
<1>1. Len(ResponseKinds) = 3 /\ \E j \in 1..3 : ResponseKinds[j] = k
  BY DEF ResponseKinds
<1>2. AKind(Response(k, arg, re)) = k
  BY <1>1, DecodeEncode DEF Response, AKind
<1> QED
  BY <1>2 DEF Response, Encode

(* The two Acks are the same bytes.                                        *)
LEMMA HiFacts == Kind(Hi) = "Ack" /\ AKind(Hi) = "Ack"
<1>1. Kind(Hi) = "Ack"
  BY MessageFields DEF Hi, AllKinds
<1> DEFINE p == CHOOSE i \in 1..Len(MessageKinds) : MessageKinds[i] = "Ack"
<1>2. Len(MessageKinds) = 10 /\ MessageKinds[1] = "Ack"
      /\ \A i \in 1..10 : MessageKinds[i] = "Ack" => i = 1
  BY DEF MessageKinds
<1>3. p = 1
  BY <1>2
<1> HIDE DEF p
<1>4. Hi.pos = p /\ Hi.tag = "frame"
  BY DEF Hi, Message, Encode, p
<1>5. Len(ResponseKinds) = 3 /\ ResponseKinds[1] = "Ack"
  BY DEF ResponseKinds
<1>6. AKind(Hi) = "Ack"
  BY <1>3, <1>4, <1>5 DEF AKind, Decode
<1> QED
  BY <1>1, <1>6

LEMMA AppendKeeps ==
  ASSUME NEW s, IsSeq(s), NEW e
  PROVE  /\ IsSeq(Append(s, e)) /\ Len(s) \in Nat /\ Len(Append(s, e)) = Len(s) + 1
<1>1. PICK S : s \in Seq(S)
  BY DEF IsSeq
<1>2. s \in Seq(S \cup {e}) /\ e \in S \cup {e}
  BY <1>1
<1>3. Append(s, e) \in Seq(S \cup {e})
  BY <1>2
<1> QED
  BY <1>2, <1>3 DEF IsSeq

(* A slot is taken in a table that has a free one.                         *)
LEMMA SlotTaken ==
  ASSUME NEW p, Table(p), HasFreeSlot(p.blacklist), NEW e,
         NEW q, q = [p EXCEPT !.blacklist = Append(@, e)]
  PROVE  /\ Table(q) /\ q.memory = p.memory
         /\ Len(p.blacklist) \in Nat /\ Len(q.blacklist) = Len(p.blacklist) + 1
<1>1. q = [memory |-> p.memory, blacklist |-> Append(p.blacklist, e)]
  BY DEF Table
<1>2. /\ IsSeq(Append(p.blacklist, e)) /\ Len(p.blacklist) \in Nat
      /\ Len(Append(p.blacklist, e)) = Len(p.blacklist) + 1
  BY AppendKeeps DEF Table
<1>3. Len(p.blacklist) + 1 <= MaxSlots
  BY <1>2, MaxSlotsAssumption DEF HasFreeSlot
<1> QED
  BY <1>1, <1>2, <1>3 DEF Table

LEMMA FullTable ==
  ASSUME NEW p, Table(p), ~ HasFreeSlot(p.blacklist)
  PROVE  Len(p.blacklist) = MaxSlots
<1>1. Len(p.blacklist) \in Nat
  BY AppendKeeps DEF Table
<1> QED
  BY <1>1, MaxSlotsAssumption DEF Table, HasFreeSlot

-----------------------------------------------------------------------------
(* Where the host is.                                                      *)

LEMMA PlaceOfStep ==
  ASSUME NEW c \in Configs, NEW i \in 1..Len(Script(c))
  PROVE  /\ Len(Script(c)) \in Nat /\ Script(c)[i] \in Steps
         /\ Label(c)[i - 1] \in Labels /\ Label(c)[i - 1].used <= Reserves(c)
         /\ Label(c)[i] \in Labels /\ Label(c)[i].used <= Reserves(c)
         /\ Label(c)[i] = After(c, Script(c)[i], Label(c)[i - 1])
         /\ Label(c)[i].at # "bad"
<1> DEFINE s == Script(c)
           f == Label(c)
<1>2. /\ s \in Seq(Steps) /\ Len(s) \in Nat
      /\ \A k \in 0..Len(s) : f[k] \in Labels /\ f[k].used <= Reserves(c)
      /\ \A k \in 1..Len(s) : f[k] = After(c, s[k], f[k - 1]) /\ f[k].at # "bad"
  BY LabelFacts
<1>1. i \in 1..Len(s)
  OBVIOUS
<1> HIDE DEF s, f
<1>3. i \in 0..Len(s) /\ i - 1 \in 0..Len(s)
  BY <1>1, <1>2
<1>4. f[i - 1] \in Labels /\ f[i - 1].used <= Reserves(c)
  BY <1>2, <1>3
<1>5. /\ f[i] \in Labels /\ f[i].used <= Reserves(c)
      /\ f[i] = After(c, s[i], f[i - 1]) /\ f[i].at # "bad"
  BY <1>1, <1>2, <1>3
<1>6. s[i] \in Steps
  BY <1>1, <1>2
<1> QED
  BY <1>2, <1>4, <1>5, <1>6 DEF s, f

LEMMA Where ==
  ASSUME SlotsInv, HostInv, hstat = "running"
  PROVE  /\ cfg \in Configs /\ ip \in 1..Len(Script(cfg)) /\ Len(Script(cfg)) \in Nat
         /\ Here \in Steps
         /\ Lbl \in Labels /\ Lbl.used <= Reserves(cfg)
         /\ Then \in Labels /\ Then.used <= Reserves(cfg)
         /\ Then = Label(cfg)[ip] /\ Then.at # "bad"
         /\ Then.at = Follows(cfg, Here, Lbl.at) /\ Then.used = Uses(Here, Lbl.used)
<1>1. cfg \in Configs /\ ip \in 1..Len(Script(cfg))
  BY DEF SlotsInv, HostInv
<1>2. /\ Len(Script(cfg)) \in Nat /\ Here \in Steps
      /\ Lbl \in Labels /\ Lbl.used <= Reserves(cfg)
      /\ Then \in Labels /\ Then.used <= Reserves(cfg)
      /\ Then = Label(cfg)[ip] /\ Then.at # "bad"
  BY <1>1, PlaceOfStep DEF Lbl, Here, Then
<1>3. Then.at = Follows(cfg, Here, Lbl.at) /\ Then.used = Uses(Here, Lbl.used)
  BY DEF Then, After, Lab
<1> QED
  BY <1>1, <1>2, <1>3

(* Which step st can be under way at place p, and the place q it leads to. *)
Placed(c, st, p, q) ==
  /\ p \notin {"over", "bad"} /\ q # "begin"
  /\ p \in {"sentB", "sentP"} => st.op = "start"
  /\ p = "gone" => st.op = "open_port"
  /\ st.op = "main" => p = "begin" /\ q = "plain"
  /\ st.op = "params_brom" => p = "plain" /\ q = "rom" /\ c.dev = "rom"
  /\ st.op = "params_pl" => p \in {"plain", "back"} /\ q = "pl"
  /\ st.op = "payload_brom" => p = "rom" /\ q = "sentB"
  /\ st.op = "payload_pl" => p = "pl" /\ q = "sentP"
  /\ st.op = "start" => (p = "sentB" /\ q = "brom") \/ (p = "sentP" /\ q = "fresh")
  /\ st.op = "any_input" => p = "brom" /\ q = "brom"
  /\ st.op = "mkbootimg" => p = "ready" /\ q = "ready"
  /\ st.op = "extract" => p \in {"pl", "ready", "imaged"} /\ q = p
  /\ st.op \in {"upload", "reserve"} => p \in {"brom", "ready", "imaged"} /\ q = p
  /\ st.op = "set_pl" => p = "fresh" /\ q = "ready"
  /\ st.op = "set_lk" =>
       \/ p = "ready" /\ q = "armed" /\ c.kernel = 0 /\ c.mode = "LK"
       \/ p = "imaged" /\ q = "armed" /\ c.kernel > 0
  /\ st.op = "hook" => p = "armed" /\ q = "armed"
  /\ st.op = "alloc" =>
       \/ p = "ready" /\ q = "ready" /\ st.obj[1] = "bootarg"
       \/ p = "ready" /\ q = "imaged" /\ st.obj[1] = "bootimg"
  /\ st.op = "jump" =>
       /\ p \in {"brom", "ready", "armed"} /\ q = "gone"
       /\ \/ p = "brom" /\ st.obj[1] = "preloader"
          \/ st.obj[1] = "lk"
          \/ /\ st.obj[1] = "cli" /\ c.mode \notin {"LK", "REPL"}
             /\ ~ (c.mode = "Preloader" /\ c.lk)
  /\ st.op = "open_port" => p = "gone" /\ q = "back"
  /\ st.op = "repl" => p = "ready" /\ q = "over"

LEMMA StepsByPlace ==
  ASSUME NEW c, NEW st \in Steps, NEW p \in Places, NEW q,
         q = Follows(c, st, p), q # "bad"
  PROVE  Placed(c, st, p, q)
<1>1. p \notin {"over", "bad"} /\ q # "begin"
  BY DEF Follows
<1>0. /\ p \in {"sentB", "sentP"} => st.op = "start"
      /\ p = "gone" => st.op = "open_port"
  BY DEF Follows
<1>2. /\ st.op = "main" => p = "begin" /\ q = "plain"
      /\ st.op = "params_brom" => p = "plain" /\ q = "rom" /\ c.dev = "rom"
      /\ st.op = "params_pl" => p \in {"plain", "back"} /\ q = "pl"
  BY DEF Follows
<1>3. /\ st.op = "payload_brom" => p = "rom" /\ q = "sentB"
      /\ st.op = "payload_pl" => p = "pl" /\ q = "sentP"
      /\ st.op = "start" => (p = "sentB" /\ q = "brom") \/ (p = "sentP" /\ q = "fresh")
  BY DEF Follows
<1>4. /\ st.op = "any_input" => p = "brom" /\ q = "brom"
      /\ st.op = "mkbootimg" => p = "ready" /\ q = "ready"
      /\ st.op = "extract" => p \in {"pl", "ready", "imaged"} /\ q = p
  BY DEF Follows
<1>5. st.op \in {"upload", "reserve"} => p \in {"brom", "ready", "imaged"} /\ q = p
  BY DEF Follows
<1>6. /\ st.op = "set_pl" => p = "fresh" /\ q = "ready"
      /\ st.op = "hook" => p = "armed" /\ q = "armed"
      /\ st.op = "open_port" => p = "gone" /\ q = "back"
      /\ st.op = "repl" => p = "ready" /\ q = "over"
  BY DEF Follows
<1>7. st.op = "set_lk" =>
        \/ p = "ready" /\ q = "armed" /\ c.kernel = 0 /\ c.mode = "LK"
        \/ p = "imaged" /\ q = "armed" /\ c.kernel > 0
  BY DEF Follows
<1>8. st.op = "alloc" =>
        \/ p = "ready" /\ q = "ready" /\ st.obj[1] = "bootarg"
        \/ p = "ready" /\ q = "imaged" /\ st.obj[1] = "bootimg"
  BY DEF Follows
<1>9. st.op = "jump" =>
        /\ p \in {"brom", "ready", "armed"} /\ q = "gone"
        /\ \/ p = "brom" /\ st.obj[1] = "preloader"
           \/ st.obj[1] = "lk"
           \/ /\ st.obj[1] = "cli" /\ c.mode \notin {"LK", "REPL"}
              /\ ~ (c.mode = "Preloader" /\ c.lk)
  BY DEF Follows
<1> QED
  BY <1>0, <1>1, <1>2, <1>3, <1>4, <1>5, <1>6, <1>7, <1>8, <1>9 DEF Placed

(* Where the host is now.                                                  *)
LEMMA Now ==
  ASSUME SlotsInv, HostInv, hstat = "running"
  PROVE  /\ Placed(cfg, Here, Lbl.at, Then.at)
         /\ Lbl.at \in Places /\ Lbl.used \in Nat /\ Then.used \in Nat
         /\ Then.used = Uses(Here, Lbl.used)
<1>1. /\ Here \in Steps /\ Lbl \in Labels /\ Then \in Labels /\ Then.at # "bad"
      /\ Then.at = Follows(cfg, Here, Lbl.at) /\ Then.used = Uses(Here, Lbl.used)
  BY Where
<1>2. Lbl.at \in Places /\ Lbl.used \in Nat /\ Then.used \in Nat
  BY <1>1 DEF Labels
<1>3. Placed(cfg, Here, Lbl.at, Then.at)
  BY <1>1, <1>2, StepsByPlace
<1> QED
  BY <1>1, <1>2, <1>3

(* The host goes on to the next step, or is done.                          *)
LEMMA Advances ==
  ASSUME SlotsInv, HostInv, hstat = "running", Advance
  PROVE  /\ cfg' = cfg /\ waiting' = FALSE /\ abandoned' = abandoned /\ cmd' = cmd
         /\ why' = why
         /\ hstat' \in {"running", "ok"}
         /\ hstat' = "running" =>
              /\ ip' \in 1..Len(Script(cfg')) /\ Lbl' = Then
              /\ Then.at \notin {"begin", "over", "bad"} /\ Then.used \in Nat
<1>1. /\ cfg' = cfg /\ waiting' = FALSE /\ abandoned' = abandoned /\ cmd' = cmd
      /\ why' = why /\ ip' = ip + 1
      /\ hstat' = IF ip = Len(Script(cfg)) THEN "ok" ELSE "running"
  BY DEF Advance
<1>2. ASSUME hstat' = "running"
      PROVE  /\ ip' \in 1..Len(Script(cfg')) /\ Lbl' = Then
             /\ Then.at \notin {"begin", "over", "bad"} /\ Then.used \in Nat
  <2> DEFINE n == Len(Script(cfg))
             k == ip + 1
  <2>1. ip \in 1..n /\ n \in Nat /\ cfg \in Configs /\ Then = Label(cfg)[ip]
    BY Where
  <2>2. ip # n
    BY <1>1, <1>2
  <2>3. k \in 1..n /\ k - 1 = ip
    <3> HIDE DEF n
    <3> QED
      BY <2>1, <2>2
  <2>4. ip' \in 1..Len(Script(cfg'))
    BY <1>1, <2>3
  <2>5. Lbl' = Then
    BY <1>1, <2>1, <2>3 DEF Lbl
  <2> HIDE DEF k
  <2>6. /\ Script(cfg)[k] \in Steps /\ Label(cfg)[k - 1] \in Labels
        /\ Label(cfg)[k] = After(cfg, Script(cfg)[k], Label(cfg)[k - 1])
        /\ Label(cfg)[k].at # "bad"
    BY <2>1, <2>3, PlaceOfStep
  <2>7. Label(cfg)[k].at = Follows(cfg, Script(cfg)[k], Then.at) /\ Then.at \in Places
    BY <2>1, <2>3, <2>6 DEF After, Lab, Labels
  <2>8. Placed(cfg, Script(cfg)[k], Then.at, Label(cfg)[k].at)
    BY <2>6, <2>7, StepsByPlace
  <2>9. Then.at \notin {"over", "bad"}
    BY <2>8 DEF Placed
  <2>10. Then.at # "begin" /\ Then.used \in Nat
    BY Now DEF Placed
  <2> QED
    BY <2>4, <2>5, <2>9, <2>10
<1> QED
  BY <1>1, <1>2

(* HostInv is kept by a step that is not about the parameters.             *)
LEMMA HostGoesOn ==
  ASSUME SlotsInv, HostInv, hstat = "running", Advance, hparams' = hparams,
         Here.op \notin {"main", "params_brom", "params_pl"},
         place' \in [{"bootarg", "bootimg"} -> Int]
  PROVE  HostInv'
<1> SUFFICES ASSUME hstat' = "running" PROVE HostInv'
  BY DEF HostInv
<1>1. /\ cfg' = cfg /\ cmd' = cmd /\ ip' \in 1..Len(Script(cfg')) /\ Lbl' = Then
      /\ Then.at # "begin"
  BY Advances
<1>2. Placed(cfg, Here, Lbl.at, Then.at)
  BY Now
<1>3. /\ cmd \in ReplCommands \cup {NoCmd} /\ Lbl.at # "begin" => UsageOK(cfg)
      /\ Len(hparams.blacklist) <= HostSlots(cfg)
      /\ Lbl.at = "pl" => hparams.memory = Dram
  BY DEF HostInv
<1>4. Lbl.at # "begin" /\ Then.at # "plain" /\ (Then.at = "pl" => Lbl.at = "pl")
  <2>1. Here.op \in Ops
    BY Where DEF Steps
  <2> QED
    BY <1>2, <2>1 DEF Placed, Ops
<1> QED
  BY <1>1, <1>3, <1>4 DEF HostInv

LEMMA HostStays ==
  ASSUME SlotsInv, HostInv, hstat = "running",
         cfg' = cfg, ip' = ip, place' = place, hparams' = hparams,
         cmd' \in ReplCommands \cup {NoCmd}
  PROVE  HostInv'
<1>1. Lbl' = Lbl
  BY DEF Lbl
<1> QED
  BY <1>1 DEF HostInv

(* The host and its parameters do not change.                              *)
LEMMA SameHost ==
  ASSUME cfg' = cfg, ip' = ip
  PROVE  Lbl' = Lbl /\ Here' = Here /\ Then' = Then /\ EnoughSlots' = EnoughSlots
BY DEF Lbl, Here, Then, EnoughSlots

-----------------------------------------------------------------------------
(* What the device does.                                                   *)

LEMMA Quiet ==
  ASSUME toDev = <<>>, phase \notin {"app", "stack", "main"}
  PROVE  ~ PayloadStep
BY DEF PayloadStep, Relocate, Settle, NoRelocation, TakeStack, TakeHeap, Hello, Greeted, OnAck,
       OnRead, OnWrite, OnFlushCache, OnJumpLeaves, OnJumpReturns, OnJumpRefused, OnReset,
       OnHook, OnGetFreeRange, OnBlacklistRange, OnSetParams, OnError, Got

LEMMA Elsewhere ==
  ASSUME phase \notin {"app", "stack", "main", "hello", "serving"}
  PROVE  ~ PayloadStep
BY DEF PayloadStep, Relocate, Settle, NoRelocation, TakeStack, TakeHeap, Hello, Greeted, OnAck,
       OnRead, OnWrite, OnFlushCache, OnJumpLeaves, OnJumpReturns, OnJumpRefused, OnReset,
       OnHook, OnGetFreeRange, OnBlacklistRange, OnSetParams, OnError, Got

LEMMA Greets ==
  ASSUME phase = "hello", PayloadStep
  PROVE  Greeted
BY DEF PayloadStep, Relocate, Settle, NoRelocation, TakeStack, TakeHeap, Hello, Greeted, OnAck,
       OnRead, OnWrite, OnFlushCache, OnJumpLeaves, OnJumpReturns, OnJumpRefused, OnReset,
       OnHook, OnGetFreeRange, OnBlacklistRange, OnSetParams, OnError, Got

(* The arm of the command loop that message kind k selects.                *)
Arm(k) ==
  \/ k = "Ack" /\ OnAck
  \/ k = "Read" /\ OnRead
  \/ k = "Write" /\ OnWrite
  \/ k = "FlushCache" /\ OnFlushCache
  \/ k = "Jump" /\ (OnJumpLeaves \/ OnJumpReturns \/ OnJumpRefused)
  \/ k = "Reset" /\ OnReset
  \/ k = "Hook" /\ OnHook
  \/ k = "GetFreeRange" /\ OnGetFreeRange
  \/ k = "BlacklistRange" /\ OnBlacklistRange
  \/ k = "SetParams" /\ OnSetParams
  \/ k = "Error" /\ OnError

LEMMA ArmByKind ==
  ASSUME phase = "serving", PayloadStep
  PROVE  toDev # <<>> /\ Arm(Kind(Head(toDev)))
<1>1. OnAck \/ OnRead \/ OnWrite \/ OnFlushCache \/ OnJumpLeaves \/ OnJumpReturns
      \/ OnJumpRefused \/ OnReset \/ OnHook \/ OnGetFreeRange \/ OnBlacklistRange
      \/ OnSetParams \/ OnError
  BY DEF PayloadStep, Relocate, Settle, NoRelocation, TakeStack, TakeHeap, Hello, Greeted
<1>2. toDev # <<>>
  BY <1>1 DEF OnAck, OnRead, OnWrite, OnFlushCache, OnJumpLeaves, OnJumpReturns,
     OnJumpRefused, OnReset, OnHook, OnGetFreeRange, OnBlacklistRange, OnSetParams, OnError, Got
<1>3. /\ OnAck => Kind(Head(toDev)) = "Ack"
      /\ OnRead => Kind(Head(toDev)) = "Read"
      /\ OnWrite => Kind(Head(toDev)) = "Write"
      /\ OnFlushCache => Kind(Head(toDev)) = "FlushCache"
      /\ OnJumpLeaves => Kind(Head(toDev)) = "Jump"
      /\ OnJumpReturns => Kind(Head(toDev)) = "Jump"
      /\ OnJumpRefused => Kind(Head(toDev)) = "Jump"
      /\ OnReset => Kind(Head(toDev)) = "Reset"
      /\ OnHook => Kind(Head(toDev)) = "Hook"
      /\ OnGetFreeRange => Kind(Head(toDev)) = "GetFreeRange"
      /\ OnBlacklistRange => Kind(Head(toDev)) = "BlacklistRange"
      /\ OnSetParams => Kind(Head(toDev)) = "SetParams"
      /\ OnError => Kind(Head(toDev)) = "Error"
  BY DEF OnAck, OnRead, OnWrite, OnFlushCache, OnJumpLeaves, OnJumpReturns,
     OnJumpRefused, OnReset, OnHook, OnGetFreeRange, OnBlacklistRange, OnSetParams, OnError,
     Got, Kind
<1> QED
  BY <1>1, <1>2, <1>3 DEF Arm

(* What every arm leaves alone.                                            *)
Left == {"serving", "preloader", "booted", "crashed", "reset"}

LEMMA ArmFrame ==
  ASSUME SlotsInv, phase = "serving", PayloadStep
  PROVE  /\ stage' = stage /\ params'.memory = params.memory /\ Table(params')
         /\ phase' \in Left
         /\ \/ toDev' = Tail(toDev)
            \/ toDev' = Tail(Tail(toDev)) /\ Len(toDev) >= 2
         /\ phase' = "preloader" => toHost' = toHost
<1>1. Arm(Kind(Head(toDev)))
  BY ArmByKind
<1>2. Table(params)
  BY DEF SlotsInv
<1>3. CASE OnAck \/ OnRead \/ OnFlushCache \/ OnGetFreeRange \/ OnError
  BY <1>2, <1>3 DEF OnAck, OnRead, OnFlushCache, OnGetFreeRange, OnError, dev, Reply, Left, Table
<1>4. CASE OnWrite
  BY <1>2, <1>4 DEF OnWrite, Left, Table
<1>5. CASE OnJumpLeaves \/ OnJumpReturns \/ OnJumpRefused
  BY <1>2, <1>5 DEF OnJumpLeaves, OnJumpReturns, OnJumpRefused, dev, Reply, Left, Table
<1>6. CASE OnReset
  BY <1>2, <1>6 DEF OnReset, Reply, Left, Table
<1>7. CASE OnHook
  BY <1>2, <1>7 DEF OnHook, Reply, Left, Table
<1>8. CASE OnSetParams
  BY <1>2, <1>8 DEF OnSetParams, Reply, Left, Table
<1>9. CASE OnBlacklistRange
  <2>1. /\ stage' = stage /\ phase' = phase /\ toDev' = Tail(toDev)
    BY <1>9 DEF OnBlacklistRange, Reply
  <2>2. params'.memory = params.memory /\ Table(params')
    <3>1. CASE params' = params
      BY <1>2, <3>1 DEF Table
    <3>2. CASE /\ HasFreeSlot(params.blacklist)
               /\ params' = [params EXCEPT !.blacklist = blacklist_dl(@, Arg)]
      <4> DEFINE e == [start |-> Arg.start, end |-> Arg.end, mode |-> "ForbiddenDL"]
      <4>1. params' = [params EXCEPT !.blacklist = Append(@, e)]
        BY <3>2 DEF blacklist_dl
      <4> HIDE DEF e
      <4> QED
        BY <1>2, <3>2, <4>1, SlotTaken
    <3> QED
      BY <1>9, <3>1, <3>2 DEF OnBlacklistRange
  <2> QED
    BY <2>1, <2>2 DEF Left
<1> QED
  BY <1>1, <1>3, <1>4, <1>5, <1>6, <1>7, <1>8, <1>9 DEF Arm

(* The payload starts up: a step of app or main keeps what it does not     *)
(* take, takes one slot or halts for lack of a slot or of memory.          *)
Lacks ==
  /\ phase' = "halted" /\ params' = params
  /\ \/ Len(params.blacklist) = MaxSlots
     \/ \E size \in {ImageSize, StackSize, HeapSize} :
          FindUnusedRange(params.memory, params.blacklist, size) = NoRange

Takes(next) == phase' = next /\ Len(params'.blacklist) = Len(params.blacklist) + 1

LEMMA AreaStep ==
  ASSUME SlotsInv, NEW name \in {"stack", "heap"}, NEW size \in {StackSize, HeapSize},
         NEW next, TakeArea(name, size, next)
  PROVE  /\ stage' = stage /\ params'.memory = params.memory /\ Table(params')
         /\ \/ Takes(next) /\ \E a : areas' = [areas EXCEPT ![name] = Range(a, size)]
            \/ Lacks /\ areas' = areas
<1>1. Table(params)
  BY DEF SlotsInv
<1> DEFINE r == FindUnusedRange(params.memory, params.blacklist, size)
<1>2. CASE /\ HasFreeSlot(params.blacklist) /\ stage' = stage
           /\ params' = [params EXCEPT !.blacklist = blacklist_dl(@, r)]
           /\ areas' = [areas EXCEPT ![name] = Range(r.start, size)]
           /\ phase' = next
  <2> DEFINE e == [start |-> r.start, end |-> r.end, mode |-> "ForbiddenDL"]
  <2>1. params' = [params EXCEPT !.blacklist = Append(@, e)]
    BY <1>2 DEF blacklist_dl
  <2> HIDE DEF e
  <2>2. /\ params'.memory = params.memory /\ Table(params')
        /\ Len(params'.blacklist) = Len(params.blacklist) + 1
    BY <1>1, <1>2, <2>1, SlotTaken
  <2>3. \E a : areas' = [areas EXCEPT ![name] = Range(a, size)]
    BY <1>2
  <2> HIDE DEF r
  <2> QED
    BY <1>2, <2>2, <2>3 DEF Takes
<1>3. CASE /\ r = NoRange \/ ~ HasFreeSlot(params.blacklist)
           /\ Die /\ params' = params /\ areas' = areas
  <2>1. phase' = "halted" /\ stage' = stage
    BY <1>3 DEF Die
  <2>2. r = NoRange \/ Len(params.blacklist) = MaxSlots
    BY <1>1, <1>3, FullTable
  <2>3. size \in {ImageSize, StackSize, HeapSize}
    OBVIOUS
  <2>4. Lacks
    BY <1>3, <2>1, <2>2, <2>3 DEF Lacks
  <2> QED
    BY <1>1, <1>3, <2>1, <2>4 DEF Table
<1> QED
  <2>1. \/ /\ HasFreeSlot(params.blacklist) /\ stage' = stage
           /\ params' = [params EXCEPT !.blacklist = blacklist_dl(@, r)]
           /\ areas' = [areas EXCEPT ![name] = Range(r.start, size)]
           /\ phase' = next
        \/ /\ r = NoRange \/ ~ HasFreeSlot(params.blacklist)
           /\ Die /\ params' = params /\ areas' = areas
    BY DEF TakeArea
  <2> QED
    BY <1>2, <1>3, <2>1

LEMMA StartUp ==
  ASSUME SlotsInv, phase \in {"app", "stack", "main"}, PayloadStep
  PROVE  /\ stage' = stage /\ params'.memory = params.memory /\ Table(params')
         /\ toDev' = toDev
         /\ phase = "app" =>
              \/ phase' = "app" /\ params' = params /\ areas' = areas /\ toHost' = toHost
              \/ /\ Takes("stack") /\ toHost' = toHost
                 /\ \E x : areas' = [areas EXCEPT !.image = x]
              \/ Lacks /\ areas' = areas /\ toHost' = toHost
         /\ phase = "stack" =>
              \/ /\ Takes("main") /\ toHost' = toHost
                 /\ \E a : areas' = [areas EXCEPT !.stack = Range(a, StackSize)]
              \/ Lacks /\ areas' = areas /\ toHost' = toHost
         /\ phase = "main" =>
              \/ /\ Takes("main") /\ toHost' = toHost /\ areas.heap = NoRange
                 /\ \E a : areas' = [areas EXCEPT !.heap = Range(a, HeapSize)]
              \/ Lacks /\ areas' = areas /\ toHost' = toHost
              \/ /\ phase' = "hello" /\ params' = params /\ areas' = areas
                 /\ toHost' = Append(toHost, Hi)
<1>1. Table(params)
  BY DEF SlotsInv
<1>2. Relocate \/ Settle \/ NoRelocation \/ TakeStack \/ TakeHeap \/ Hello
  BY DEF PayloadStep, Greeted, OnAck, OnRead, OnWrite, OnFlushCache, OnJumpLeaves,
     OnJumpReturns, OnJumpRefused, OnReset, OnHook, OnGetFreeRange, OnBlacklistRange,
     OnSetParams, OnError, Got
<1>3. CASE Relocate
  BY <1>1, <1>3 DEF Relocate, wire, Table
<1>4. CASE Settle
  <2>1. phase = "app" /\ toDev' = toDev /\ toHost' = toHost
    BY <1>4 DEF Settle, wire
  <2>2. PICK r : \/ /\ HasFreeSlot(params.blacklist)
                    /\ params' = [params EXCEPT !.blacklist =
                         blacklist_dl(@, Range(IF Overlaps(r.start) THEN base ELSE r.start,
                                               ImageSize))]
                    /\ areas' = [areas EXCEPT !.image = Range(base, ImageSize)]
                    /\ phase' = "stack" /\ stage' = stage
                 \/ /\ ~ HasFreeSlot(params.blacklist)
                    /\ Die /\ params' = params /\ areas' = areas
    BY <1>4 DEF Settle
  <2>3. CASE /\ HasFreeSlot(params.blacklist)
             /\ params' = [params EXCEPT !.blacklist =
                         blacklist_dl(@, Range(IF Overlaps(r.start) THEN base ELSE r.start,
                                               ImageSize))]
             /\ areas' = [areas EXCEPT !.image = Range(base, ImageSize)]
             /\ phase' = "stack" /\ stage' = stage
    <3> DEFINE x == Range(IF Overlaps(r.start) THEN base ELSE r.start, ImageSize)
               e == [start |-> x.start, end |-> x.end, mode |-> "ForbiddenDL"]
    <3>1. params' = [params EXCEPT !.blacklist = Append(@, e)]
      BY <2>3 DEF blacklist_dl
    <3> HIDE DEF e
    <3>2. /\ params'.memory = params.memory /\ Table(params')
          /\ Len(params'.blacklist) = Len(params.blacklist) + 1
      BY <1>1, <2>3, <3>1, SlotTaken
    <3>3. \E y : areas' = [areas EXCEPT !.image = y]
      BY <2>3
    <3>4. Takes("stack") /\ stage' = stage
      BY <2>3, <3>2 DEF Takes
    <3> QED
      BY <2>1, <3>2, <3>3, <3>4
  <2>4. CASE ~ HasFreeSlot(params.blacklist) /\ Die /\ params' = params /\ areas' = areas
    <3>1. phase' = "halted" /\ stage' = stage
      BY <2>4 DEF Die
    <3>2. Len(params.blacklist) = MaxSlots
      BY <1>1, <2>4, FullTable
    <3> QED
      BY <1>1, <2>1, <2>4, <3>1, <3>2 DEF Lacks, Table
  <2> QED
    BY <2>2, <2>3, <2>4
<1>5. CASE NoRelocation
  <2>1. /\ phase = "app" /\ toDev' = toDev /\ toHost' = toHost /\ params' = params
        /\ areas' = areas /\ phase' = "halted" /\ stage' = stage
    BY <1>5 DEF NoRelocation, Die, wire
  <2>2. FindUnusedRange(params.memory, params.blacklist, ImageSize) = NoRange
    BY <1>5 DEF NoRelocation, RelocRange
  <2>3. Lacks
    BY <2>1, <2>2 DEF Lacks
  <2> QED
    BY <1>1, <2>1, <2>3 DEF Table
<1>6. CASE TakeStack
  <2>1. phase = "stack" /\ toDev' = toDev /\ toHost' = toHost
    BY <1>6 DEF TakeStack, wire
  <2>2. TakeArea("stack", StackSize, "main")
    BY <1>6 DEF TakeStack
  <2>3. /\ stage' = stage /\ params'.memory = params.memory /\ Table(params')
        /\ \/ Takes("main") /\ \E a : areas' = [areas EXCEPT !["stack"] = Range(a, StackSize)]
           \/ Lacks /\ areas' = areas
    BY <2>2, AreaStep
  <2> QED
    BY <2>1, <2>3
<1>7. CASE TakeHeap
  <2>1. phase = "main" /\ toDev' = toDev /\ toHost' = toHost /\ areas.heap = NoRange
    BY <1>7 DEF TakeHeap, wire
  <2>2. TakeArea("heap", HeapSize, "main")
    BY <1>7 DEF TakeHeap
  <2>3. /\ stage' = stage /\ params'.memory = params.memory /\ Table(params')
        /\ \/ Takes("main") /\ \E a : areas' = [areas EXCEPT !["heap"] = Range(a, HeapSize)]
           \/ Lacks /\ areas' = areas
    BY <2>2, AreaStep
  <2> QED
    BY <2>1, <2>3
<1>8. CASE Hello
  BY <1>1, <1>8 DEF Hello, Hi, Table
<1> QED
  BY <1>2, <1>3, <1>4, <1>5, <1>6, <1>7, <1>8

(* Without a host that talks, the payload that starts up ...               *)
LEMMA SentStep ==
  ASSUME SlotsInv, SentInv, PayloadStep, UNCHANGED host
  PROVE  SentInv'
<1>1. /\ waiting' = FALSE /\ cfg' = cfg /\ Lbl' = Lbl
  BY SameHost DEF host, SentInv
<1>2. toDev = <<>> /\ phase \in {"app", "stack", "main"}
  BY Quiet DEF SentInv
<1>3. toHost = <<>>
  BY <1>2 DEF SentInv
<1>4. /\ stage' = stage /\ params'.memory = params.memory /\ toDev' = <<>>
  BY <1>2, StartUp
<1>5. SetUp(Lbl.at)'
  BY <1>1, <1>4 DEF SentInv, SetUp
<1> DEFINE n == Len(params.blacklist)
           h == HostSlots(cfg)
<1>6. n \in Nat /\ h \in Nat
  BY AppendKeeps, ConfigFacts DEF SlotsInv, Table
<1>7. HostSlots(cfg)' = h
  BY <1>1
<1>8. DOMAIN areas = {"image", "stack", "heap"}
  BY DEF SentInv
<1>9. CASE phase = "app"
  <2>1. areas.heap = NoRange /\ n <= h
    BY <1>9 DEF SentInv
  <2>2. CASE phase' = "app" /\ params' = params /\ areas' = areas /\ toHost' = toHost
    BY <1>1, <1>3, <1>4, <1>5, <1>8, <2>1, <2>2 DEF SentInv
  <2>3. CASE Takes("stack") /\ toHost' = toHost /\ \E x : areas' = [areas EXCEPT !.image = x]
    <3>1. DOMAIN areas' = {"image", "stack", "heap"} /\ areas'.heap = NoRange
      BY <1>8, <2>1, <2>3
    <3>2. Len(params'.blacklist) <= h + 1 /\ phase' = "stack"
      <4> HIDE DEF h
      <4> QED
        BY <1>6, <2>1, <2>3 DEF Takes
    <3> QED
      BY <1>1, <1>3, <1>4, <1>5, <2>3, <3>1, <3>2 DEF SentInv
  <2>4. CASE Lacks /\ areas' = areas /\ toHost' = toHost
    BY <1>1, <1>3, <1>4, <1>5, <1>8, <2>4 DEF SentInv, Lacks
  <2> QED
    BY <1>2, <1>9, <2>2, <2>3, <2>4, StartUp
<1>10. CASE phase = "stack"
  <2>1. areas.heap = NoRange /\ n <= h + 1
    BY <1>10 DEF SentInv
  <2>2. CASE /\ Takes("main") /\ toHost' = toHost
             /\ \E a : areas' = [areas EXCEPT !.stack = Range(a, StackSize)]
    <3>1. DOMAIN areas' = {"image", "stack", "heap"}
      BY <1>8, <2>2
    <3>2. /\ Len(params'.blacklist) <= h + 2 /\ Len(params'.blacklist) <= h + 3
          /\ phase' = "main"
      <4> HIDE DEF h
      <4> QED
        BY <1>6, <2>1, <2>2 DEF Takes
    <3> QED
      BY <1>1, <1>3, <1>4, <1>5, <2>2, <3>1, <3>2 DEF SentInv
  <2>3. CASE Lacks /\ areas' = areas /\ toHost' = toHost
    BY <1>1, <1>3, <1>4, <1>5, <1>8, <2>3 DEF SentInv, Lacks
  <2> QED
    BY <1>2, <1>10, <2>2, <2>3, StartUp
<1>11. CASE phase = "main"
  <2>1. n <= h + 3 /\ (areas.heap = NoRange => n <= h + 2)
    BY <1>11 DEF SentInv
  <2>2. CASE /\ Takes("main") /\ toHost' = toHost /\ areas.heap = NoRange
             /\ \E a : areas' = [areas EXCEPT !.heap = Range(a, HeapSize)]
    <3>1. PICK a : areas' = [areas EXCEPT !.heap = Range(a, HeapSize)]
      BY <2>2
    <3>2. DOMAIN areas' = {"image", "stack", "heap"} /\ areas'.heap = Range(a, HeapSize)
      BY <1>8, <3>1
    <3>3. areas'.heap # NoRange
      BY <3>2, AreaAssumption DEF Range, NoRange
    <3>4. Len(params'.blacklist) <= h + 3 /\ phase' = "main"
      <4> HIDE DEF h
      <4> QED
        BY <1>6, <2>1, <2>2 DEF Takes
    <3> QED
      BY <1>1, <1>3, <1>4, <1>5, <2>2, <3>2, <3>3, <3>4 DEF SentInv
  <2>3. CASE Lacks /\ areas' = areas /\ toHost' = toHost
    BY <1>1, <1>3, <1>4, <1>5, <1>8, <2>3 DEF SentInv, Lacks
  <2>4. CASE /\ phase' = "hello" /\ params' = params /\ areas' = areas
             /\ toHost' = Append(toHost, Hi)
    <3>1. toHost' = <<Hi>>
      BY <1>3, <2>4, Tuples
    <3> QED
      BY <1>1, <1>4, <1>5, <1>8, <2>1, <2>4, <3>1 DEF SentInv
  <2> QED
    BY <1>2, <1>11, <2>2, <2>3, <2>4, StartUp
<1> QED
  BY <1>2, <1>9, <1>10, <1>11

(* The payload takes the host's Ack for the answer to its own.             *)
LEMMA Greeting ==
  ASSUME phase = "hello", PayloadStep, Head(toDev) = Hi
  PROVE  /\ phase' = "serving" /\ toDev' = Tail(toDev) /\ toHost' = toHost
         /\ stage' = stage /\ params' = params /\ plParams' = plParams /\ lkParams' = lkParams
<1>1. Greeted
  BY Greets
<1>2. AKind(Hi) = "Ack"
  BY HiFacts
<1> QED
  BY <1>1, <1>2 DEF Greeted, AKind

LEMMA GoneStep ==
  ASSUME SlotsInv, GoneInv, PayloadStep, UNCHANGED host
  PROVE  GoneInv'
<1>1. waiting' = FALSE /\ phase \in Up
  BY DEF host, GoneInv
<1>2. phase \in {"hello", "serving"}
  BY <1>1, Elsewhere DEF Up
<1>3. CASE Carries0
  <2>1. phase = "hello"
    BY <1>2, <1>3, Quiet DEF Carries0
  <2>2. toDev = <<Hi>>
    BY <1>3, <2>1 DEF Carries0
  <2>3. Head(toDev) = Hi /\ Tail(toDev) = <<>>
    BY <2>2, Tuples
  <2>4. phase' = "serving" /\ toDev' = <<>>
    BY <2>1, <2>3, Greeting
  <2> QED
    BY <1>1, <2>4 DEF GoneInv, Carries0, Up
<1>4. CASE (\E m : Carries1(m)) /\ toHost = <<>>
  <2>1. PICK m : Carries1(m)
    BY <1>4
  <2>2. CASE phase = "hello"
    <3>1. toDev = <<Hi, m>>
      BY <2>1, <2>2 DEF Carries1
    <3>2. Head(toDev) = Hi /\ Tail(toDev) = <<m>>
      BY <3>1, Tuples
    <3>3. phase' = "serving" /\ toDev' = <<m>> /\ toHost' = <<>>
      BY <1>4, <2>2, <3>2, Greeting
    <3>4. Carries1(m)'
      BY <3>3 DEF Carries1
    <3> QED
      BY <1>1, <3>3, <3>4 DEF GoneInv, Up
  <2>3. CASE phase = "serving"
    <3>1. toDev = <<m>>
      BY <2>1, <2>3 DEF Carries1
    <3>2. Len(toDev) = 1 /\ Tail(toDev) = <<>>
      BY <3>1, Tuples
    <3>4. ~ (Len(toDev) >= 2)
      BY <3>2
    <3>5. /\ toDev' = Tail(toDev) \/ Len(toDev) >= 2
          /\ phase' \in Left /\ (phase' = "preloader" => toHost' = toHost)
      BY <2>3, ArmFrame
    <3>3. /\ toDev' = <<>> /\ phase' \in Left
          /\ phase' = "preloader" => toHost' = toHost
      BY <3>2, <3>4, <3>5
    <3> QED
      BY <1>1, <1>4, <3>3 DEF GoneInv, Carries0, Left, Up
  <2> QED
    BY <1>2, <2>2, <2>3
<1> QED
  BY <1>3, <1>4 DEF GoneInv

(* The answers of the command loop to the one message m on the wire.       *)
LEMMA Replies ==
  ASSUME NEW k \in {"Ack", "Nack", "Range"}, NEW arg, NEW m,
         Head(toDev) = m, toHost = <<>>, Reply(k, arg)
  PROVE  /\ toDev' = Tail(toDev)
         /\ \E a : toHost' = <<a>> /\ a.re = m.re /\ AKind(a) = k /\ a.arg = arg
<1> DEFINE a == Response(k, arg, m.re)
<1>1. AKind(a) = k /\ a.re = m.re /\ a.arg = arg
  BY ResponseFields
<1> HIDE DEF a
<1>2. toDev' = Tail(toDev) /\ toHost' = Append(toHost, a)
  BY DEF Reply, a
<1>3. toHost' = <<a>>
  BY <1>2, Tuples
<1> QED
  BY <1>1, <1>2, <1>3

(* What a payload that has left the command loop leaves on the wire.       *)
Silence == toDev' = <<>> /\ toHost' = <<>> /\ phase' \in Left

(* The step settles the host's request: its answer is on the wire, or the  *)
(* host will wait in vain.                                                 *)
Settles == Answered' \/ Lost'

LEMMA SettlesByAnswer ==
  ASSUME waiting = TRUE, UNCHANGED host, toDev' = <<>>, phase' \in {"serving", "reset"},
         ~ Reading, NEW a, toHost' = <<a>>, a.re = req, Fitting(a)'
  PROVE  Settles
<1>1. waiting' = TRUE /\ req' = req /\ ~ Reading'
  BY DEF host, Reading, Here
<1> QED
  BY <1>1 DEF Settles, Answered, Answer

LEMMA SettlesBySilence ==
  ASSUME waiting = TRUE, UNCHANGED host, Silence
  PROVE  Settles
<1>1. waiting' = TRUE
  BY DEF host
<1> QED
  BY <1>1 DEF Settles, Lost, Carries0, Silence, Left

(* The slots that are taken, before and after a step that takes none.      *)
LEMMA ServedOn ==
  ASSUME SlotsInv, HostInv, hstat = "running", UNCHANGED host, Served(Lbl),
         Here.op \notin {"reserve", "payload_brom", "payload_pl", "repl"},
         params' = params, Told(Then.at)'
  PROVE  Served(Then)'
<1>1. Then' = Then /\ Here' = Here /\ cfg' = cfg
  BY SameHost DEF host
<1>2. Then.used = Lbl.used
  BY Now DEF Uses
<1>3. Len(params.blacklist) <= HostSlots(cfg) + 3 + Lbl.used
  BY DEF Served
<1> QED
  BY <1>1, <1>2, <1>3 DEF Served

(* Request m of the step under way has reached the command loop.           *)
Pending(m) ==
  /\ SlotsInv /\ HostInv /\ hstat = "running" /\ waiting = TRUE
  /\ SetUp(Lbl.at) /\ (Lbl.at = "imaged" => place["bootimg"] # 0)
  /\ Served(Lbl) /\ toHost = <<>> /\ phase = "serving"
  /\ m.re = req /\ Meant(m) /\ Head(toDev) = m
  /\ Kind(m) # "Write" => Tail(toDev) = <<>>
  /\ Kind(m) = "Write" => Tail(Tail(toDev)) = <<>>

LEMMA PendingArm ==
  ASSUME NEW m, Pending(m), PayloadStep
  PROVE  Arm(Kind(m))
BY ArmByKind DEF Pending

LEMMA SetPlAnswered ==
  ASSUME NEW m, Pending(m), Here.op = "set_pl", PayloadStep, UNCHANGED host
  PROVE  Settles
<1>1. Kind(m) = "SetParams" /\ m.arg.type = "Preloader" /\ m.arg.ptrs = <<PlAddr>>
  BY DEF Pending, Meant
<1>2. OnSetParams /\ Arg = m.arg /\ Tail(toDev) = <<>>
  BY <1>1, PendingArm DEF Arm, Arg, Pending
<1>3. Placed(cfg, Here, Lbl.at, Then.at)
  BY Now DEF Pending
<1>4. stage = "pl" /\ Then.at = "ready"
  BY <1>3 DEF Pending, SetUp, Placed
<1>5. IsValid(m.arg.ptrs) /\ m.arg.ptrs # <<>>
  BY <1>1, NonZeroAssumption DEF IsValid
<1>6. plParams' = m.arg.ptrs /\ Reply("Ack", Empty) /\ phase' = "serving" /\ params' = params
  BY <1>1, <1>2, <1>4, <1>5 DEF OnSetParams, Pending
<1>7. PICK a : toHost' = <<a>> /\ a.re = m.re /\ AKind(a) = "Ack"
  BY <1>6, Replies DEF Pending
<1>8. toDev' = <<>>
  BY <1>2, <1>6 DEF Reply
<1>9. Then' = Then /\ Here' = Here /\ EnoughSlots' = EnoughSlots
  BY SameHost DEF host
<1>10. Told(Then.at)'
  BY <1>4, <1>5, <1>6, <1>9 DEF Told
<1>11. Served(Then)'
  BY <1>6, <1>10, ServedOn DEF Pending
<1>12. Fitting(a)'
  BY <1>7, <1>9, <1>11 DEF Fitting, AckSteps
<1> QED
  BY <1>6, <1>7, <1>8, <1>12, SettlesByAnswer DEF Pending, Reading

LEMMA SetLkAnswered ==
  ASSUME NEW m, Pending(m), Here.op = "set_lk", PayloadStep, UNCHANGED host
  PROVE  Settles
<1>1. /\ Kind(m) = "SetParams" /\ m.arg.type = "LK"
      /\ m.arg.ptrs = <<LkAddr + HookOff, LkAddr, BootimgAddr>>
  BY DEF Pending, Meant
<1>2. OnSetParams /\ Arg = m.arg /\ Tail(toDev) = <<>>
  BY <1>1, PendingArm DEF Arm, Arg, Pending
<1>3. Placed(cfg, Here, Lbl.at, Then.at)
  BY Now DEF Pending
<1>4. /\ stage = "pl" /\ Then.at = "armed" /\ plParams # <<>>
  BY <1>3 DEF Pending, SetUp, Placed, Served, Told
<1>5. BootimgAddr # 0
  <2>1. CASE Lbl.at = "imaged" /\ cfg.kernel > 0
    BY <2>1 DEF Pending, BootimgAddr
  <2>2. CASE Lbl.at = "ready" /\ cfg.kernel = 0 /\ cfg.mode = "LK"
    <3>1. UsageOK(cfg) /\ cfg \in Configs
      BY <2>2 DEF Pending, HostInv, SlotsInv
    <3>2. cfg.upload # <<>>
      BY <2>2, <3>1 DEF UsageOK
    <3>3. cfg.upload \in Seq([addr : U32 \ {0}, len : Nat])
      BY <3>1, ConfigsAssumption
    <3>4. cfg.upload[1] \in [addr : U32 \ {0}, len : Nat]
      <4>1. \A S, s : s \in Seq(S) /\ s # <<>> => s[1] \in S
        OBVIOUS
      <4> QED
        BY <3>2, <3>3, <4>1
    <3> QED
      BY <2>2, <3>4 DEF BootimgAddr
  <2> QED
    BY <1>3, <2>1, <2>2 DEF Placed
<1>6. LkAddr + HookOff # 0 /\ LkAddr # 0
  BY NonZeroAssumption, LayoutAssumption, U32MaxAssumption DEF U32
<1>7. IsValid(m.arg.ptrs) /\ m.arg.ptrs # <<>>
  <2>1. \A x, y, z : Len(<<x, y, z>>) = 3 /\ <<x, y, z>> # <<>>
    OBVIOUS
  <2>2. \A i \in 1..3 : i = 1 \/ i = 2 \/ i = 3
    OBVIOUS
  <2> QED
    BY <1>1, <1>5, <1>6, <2>1, <2>2 DEF IsValid
<1>8. /\ lkParams' = m.arg.ptrs /\ plParams' = plParams /\ Reply("Ack", Empty)
      /\ phase' = "serving" /\ params' = params
  BY <1>1, <1>2, <1>4, <1>7 DEF OnSetParams, Pending
<1>9. PICK a : toHost' = <<a>> /\ a.re = m.re /\ AKind(a) = "Ack"
  BY <1>8, Replies DEF Pending
<1>10. toDev' = <<>>
  BY <1>2, <1>8 DEF Reply
<1>11. Then' = Then /\ Here' = Here /\ EnoughSlots' = EnoughSlots
  BY SameHost DEF host
<1>12. Told(Then.at)'
  BY <1>4, <1>7, <1>8, <1>11 DEF Told
<1>13. Served(Then)'
  BY <1>8, <1>12, ServedOn DEF Pending
<1>14. Fitting(a)'
  BY <1>9, <1>11, <1>13 DEF Fitting, AckSteps
<1> QED
  BY <1>8, <1>9, <1>10, <1>14, SettlesByAnswer DEF Pending, Reading

LEMMA HookAnswered ==
  ASSUME NEW m, Pending(m), Here.op = "hook", PayloadStep, UNCHANGED host
  PROVE  Settles
<1>1. Kind(m) = "Hook"
  BY DEF Pending, Meant
<1>2. OnHook /\ Tail(toDev) = <<>>
  BY <1>1, PendingArm DEF Arm, Pending
<1>3. Placed(cfg, Here, Lbl.at, Then.at)
  BY Now DEF Pending
<1>4. stage = "pl" /\ Then.at = "armed" /\ plParams # <<>> /\ lkParams # <<>>
  BY <1>3 DEF Pending, SetUp, Placed, Served, Told
<1>5. /\ Reply("Ack", Empty) /\ phase' = "serving" /\ params' = params
      /\ plParams' = plParams /\ lkParams' = lkParams
  BY <1>2, <1>4 DEF OnHook, Pending
<1>6. PICK a : toHost' = <<a>> /\ a.re = m.re /\ AKind(a) = "Ack"
  BY <1>5, Replies DEF Pending
<1>7. toDev' = <<>>
  BY <1>2, <1>5 DEF Reply
<1>8. Then' = Then /\ Here' = Here /\ EnoughSlots' = EnoughSlots
  BY SameHost DEF host
<1>9. Told(Then.at)'
  BY <1>4, <1>5, <1>8 DEF Told
<1>10. Served(Then)'
  BY <1>5, <1>9, ServedOn DEF Pending
<1>11. Fitting(a)'
  BY <1>6, <1>8, <1>10 DEF Fitting, AckSteps
<1> QED
  BY <1>5, <1>6, <1>7, <1>11, SettlesByAnswer DEF Pending, Reading

LEMMA ReserveAnswered ==
  ASSUME NEW m, Pending(m), Here.op = "reserve", PayloadStep, UNCHANGED host
  PROVE  Settles
<1>1. Kind(m) = "BlacklistRange"
  BY DEF Pending, Meant
<1>2. OnBlacklistRange /\ Tail(toDev) = <<>>
  BY <1>1, PendingArm DEF Arm, Pending
<1>3. Placed(cfg, Here, Lbl.at, Then.at) /\ Then.used = Lbl.used + 1 /\ Lbl.used \in Nat
  BY Now DEF Pending, Uses
<1>4. Then.at = Lbl.at
  BY <1>3 DEF Placed
<1>5. /\ phase' = "serving" /\ plParams' = plParams /\ lkParams' = lkParams
  BY <1>2 DEF OnBlacklistRange, Pending
<1>6. Then' = Then /\ Here' = Here /\ EnoughSlots' = EnoughSlots /\ cfg' = cfg
  BY SameHost DEF host
<1> DEFINE n == Len(params.blacklist)
           h == HostSlots(cfg)
<1>7. Table(params) /\ n \in Nat /\ cfg \in Configs /\ h \in Nat
  BY AppendKeeps, ConfigFacts DEF Pending, SlotsInv, Table
<1>8. n <= h + 3 + Lbl.used /\ Told(Lbl.at)
  BY DEF Pending, Served
<1>9. Told(Then.at)'
  BY <1>4, <1>5, <1>6, <1>8 DEF Told
<1>10. CASE /\ HasFreeSlot(params.blacklist)
            /\ params' = [params EXCEPT !.blacklist = blacklist_dl(@, Arg)]
            /\ Reply("Ack", Empty)
  <2>1. PICK a : toHost' = <<a>> /\ a.re = m.re /\ AKind(a) = "Ack"
    BY <1>10, Replies DEF Pending
  <2>2. toDev' = <<>>
    BY <1>2, <1>10 DEF Reply
  <2> DEFINE e == [start |-> Arg.start, end |-> Arg.end, mode |-> "ForbiddenDL"]
  <2>3. params' = [params EXCEPT !.blacklist = Append(@, e)]
    BY <1>10 DEF blacklist_dl
  <2> HIDE DEF e
  <2>4. Len(params'.blacklist) = n + 1
    BY <1>7, <1>10, <2>3, SlotTaken
  <2>5. Len(params'.blacklist) <= h + 3 + Then.used
    <3> HIDE DEF n, h
    <3> QED
      BY <1>3, <1>7, <1>8, <2>4
  <2>6. Served(Then)'
    BY <1>6, <1>9, <2>5 DEF Served
  <2>7. Fitting(a)'
    BY <1>6, <2>1, <2>6 DEF Fitting, AckSteps
  <2> QED
    BY <1>5, <2>1, <2>2, <2>7, SettlesByAnswer DEF Pending, Reading
<1>11. CASE ~ HasFreeSlot(params.blacklist) /\ Reply("Nack", [error |-> "NotSupported"])
  <2>1. PICK a : toHost' = <<a>> /\ a.re = m.re /\ AKind(a) = "Nack"
    BY <1>11, Replies DEF Pending
  <2>2. toDev' = <<>>
    BY <1>2, <1>11 DEF Reply
  <2>3. ~ EnoughSlots
    <3>1. n = MaxSlots
      BY <1>7, <1>11, FullTable
    <3>2. h + 3 + Reserves(cfg) <= SlotsNeeded(cfg) /\ Reserves(cfg) \in Nat
      BY <1>7, ConfigFacts
    <3>3. Then.used <= Reserves(cfg)
      BY Where DEF Pending
    <3> SUFFICES ASSUME SlotsNeeded(cfg) <= MaxSlots PROVE FALSE
      BY DEF EnoughSlots
    <3>4. SlotsNeeded(cfg) \in Int
      BY <1>7, SlotsNeededType
    <3> HIDE DEF n, h
    <3> QED
      BY <1>3, <1>7, <1>8, <3>1, <3>2, <3>3, <3>4, MaxSlotsAssumption
  <2>4. Fitting(a)'
    BY <1>6, <2>1, <2>3 DEF Fitting, AckSteps
  <2> QED
    BY <1>5, <2>1, <2>2, <2>4, SettlesByAnswer DEF Pending, Reading
<1> QED
  BY <1>2, <1>10, <1>11 DEF OnBlacklistRange

LEMMA AllocAnswered ==
  ASSUME NEW m, Pending(m), Here.op = "alloc", PayloadStep, UNCHANGED host
  PROVE  Settles
<1>1. Kind(m) = "GetFreeRange" /\ m.arg.size = Length(Here.obj)
  BY DEF Pending, Meant
<1>2. OnGetFreeRange /\ Arg = m.arg /\ Tail(toDev) = <<>>
  BY <1>1, PendingArm DEF Arm, Arg, Pending
<1>3. Placed(cfg, Here, Lbl.at, Then.at)
  BY Now DEF Pending
<1>4. Lbl.at = "ready" /\ Then.at \in {"ready", "imaged"} /\ plParams # <<>>
  BY <1>3 DEF Pending, Placed, Served, Told
<1>5. /\ Reply("Range", [start |-> Free(Length(Here.obj)).start]) /\ phase' = "serving"
      /\ params' = params /\ plParams' = plParams
  BY <1>1, <1>2 DEF OnGetFreeRange, Pending, Free, dev
<1>6. PICK a : /\ toHost' = <<a>> /\ a.re = m.re /\ AKind(a) = "Range"
               /\ a.arg = [start |-> Free(Length(Here.obj)).start]
  BY <1>5, Replies DEF Pending
<1>7. toDev' = <<>>
  BY <1>2, <1>5 DEF Reply
<1>8. /\ Then' = Then /\ Here' = Here /\ EnoughSlots' = EnoughSlots
  BY SameHost DEF host
<1>9. Told(Then.at)'
  BY <1>4, <1>5, <1>8 DEF Told
<1>10. Served(Then)'
  BY <1>5, <1>9, ServedOn DEF Pending
<1>11. Free(Length(Here.obj))' = Free(Length(Here.obj))
  BY <1>5, <1>8 DEF Free, Length, host
<1>12. a.arg.start = Free(Length(Here.obj))'.start
  BY <1>6, <1>11
<1>13. Fitting(a)'
  BY <1>6, <1>8, <1>10, <1>12 DEF Fitting, AckSteps
<1> QED
  BY <1>5, <1>6, <1>7, <1>13, SettlesByAnswer DEF Pending, Reading

(* Where the host jumps to, and what of it may return.                     *)
LEMMA JumpTarget ==
  ASSUME SlotsInv, HostInv, hstat = "running", Here.op = "jump", Addr(Here.obj) \in Returning
  PROVE  cfg.jump \in Returning
<1>1. Placed(cfg, Here, Lbl.at, Then.at)
  BY Now
<1>2. Lbl.at # "begin" /\ UsageOK(cfg)
  BY <1>1 DEF Placed, HostInv
<1>3. CASE Here.obj[1] = "preloader"
  BY <1>3, NoReturnAssumption DEF Addr
<1>4. CASE Here.obj[1] = "lk"
  BY <1>4, NoReturnAssumption DEF Addr
<1>5. CASE Here.obj[1] = "cli" /\ cfg.mode \notin {"LK", "REPL"} /\ ~ (cfg.mode = "Preloader" /\ cfg.lk)
  <2>1. cfg.jump # NoAddr
    BY <1>2, <1>5 DEF UsageOK
  <2> QED
    BY <1>5, <2>1 DEF Addr
<1> QED
  BY <1>1, <1>3, <1>4, <1>5 DEF Placed

LEMMA JumpAnswered ==
  ASSUME NEW m, Pending(m), Here.op = "jump", PayloadStep, UNCHANGED host
  PROVE  Settles
<1>1. Kind(m) = "Jump" /\ m.arg.addr = Addr(Here.obj)
  BY DEF Pending, Meant
<1>2. (OnJumpLeaves \/ OnJumpReturns \/ OnJumpRefused) /\ Arg = m.arg /\ Tail(toDev) = <<>>
  BY <1>1, PendingArm DEF Arm, Arg, Pending
<1>3. Placed(cfg, Here, Lbl.at, Then.at)
  BY Now DEF Pending
<1>4. Lbl.at \in {"brom", "ready", "armed"} /\ Then.at = "gone" /\ CanJump
  BY <1>3 DEF Pending, SetUp, Placed, Served, Told, CanJump
<1>5. CASE OnJumpLeaves
  <2>1. Silence
    BY <1>2, <1>5 DEF OnJumpLeaves, Silence, Left, Pending
  <2> QED
    BY <2>1, SettlesBySilence DEF Pending
<1>6. CASE OnJumpReturns
  <2>1. /\ Arg.addr \in Returning /\ Reply("Nack", [error |-> "Unreachable"])
        /\ phase' = "serving" /\ params' = params
    BY <1>6 DEF OnJumpReturns, Pending, dev
  <2>2. cfg.jump \in Returning
    BY <1>1, <1>2, <2>1, JumpTarget DEF Pending
  <2>3. PICK a : toHost' = <<a>> /\ a.re = m.re /\ AKind(a) = "Nack"
    BY <2>1, Replies DEF Pending
  <2>4. toDev' = <<>>
    BY <1>2, <2>1 DEF Reply
  <2>5. Then' = Then /\ Here' = Here /\ cfg' = cfg
    BY SameHost DEF host
  <2>6. Told(Then.at)'
    BY <1>4, <2>5 DEF Told
  <2>7. Served(Then)'
    BY <2>1, <2>6, ServedOn DEF Pending
  <2>8. Fitting(a)'
    BY <2>2, <2>3, <2>5, <2>7 DEF Fitting, AckSteps
  <2> QED
    BY <2>1, <2>3, <2>4, <2>8, SettlesByAnswer DEF Pending, Reading
<1> QED
  BY <1>2, <1>4, <1>5, <1>6 DEF OnJumpRefused

LEMMA UploadAnswered ==
  ASSUME NEW m, Pending(m), Here.op = "upload", PayloadStep, UNCHANGED host
  PROVE  Settles
<1>1. Kind(m) = "Write"
  BY DEF Pending, Meant
<1>2. OnWrite /\ Tail(Tail(toDev)) = <<>> /\ Head(toDev) = m
  BY <1>1, PendingArm DEF Arm, Pending
<1>3. Placed(cfg, Here, Lbl.at, Then.at)
  BY Now DEF Pending
<1>4. Then.at = Lbl.at /\ Told(Lbl.at)
  BY <1>3 DEF Placed, Pending, Served
<1>5. /\ toDev' = <<>> /\ params' = params /\ plParams' = plParams /\ lkParams' = lkParams
  BY <1>2 DEF OnWrite
<1>6. CASE phase' = "crashed" /\ UNCHANGED toHost
  <2>1. Silence
    BY <1>5, <1>6 DEF Silence, Left, Pending
  <2> QED
    BY <2>1, SettlesBySilence DEF Pending
<1>7. CASE phase' = phase /\ toHost' = Append(toHost, Response("Ack", Empty, m.re))
  <2> DEFINE a == Response("Ack", Empty, m.re)
  <2>1. AKind(a) = "Ack" /\ a.re = m.re
    BY ResponseFields
  <2>2. toHost' = <<a>>
    BY <1>7, Tuples DEF Pending
  <2> HIDE DEF a
  <2>3. Then' = Then /\ Here' = Here
    BY SameHost DEF host
  <2>4. Told(Then.at)'
    BY <1>4, <1>5, <2>3 DEF Told
  <2>5. Served(Then)'
    BY <1>5, <2>4, ServedOn DEF Pending
  <2>6. Fitting(a)'
    BY <2>1, <2>3, <2>5 DEF Fitting, AckSteps
  <2> QED
    BY <1>5, <1>7, <2>1, <2>2, <2>6, SettlesByAnswer DEF Pending, Reading
<1> QED
  BY <1>2, <1>6, <1>7 DEF OnWrite

LEMMA ReplAnswered ==
  ASSUME NEW m, Pending(m), Here.op = "repl", PayloadStep, UNCHANGED host
  PROVE  Settles
<1>1. /\ Kind(m) \in {"Ack", "Read", "Write", "FlushCache", "Jump", "Reset"}
      /\ (Kind(m) = "Read" <=> Reading)
  BY DEF Pending, Meant, Reading
<1>2. Here' = Here /\ Then' = Then
  BY SameHost DEF host
<1>3. \A a : Fitting(a)'
  BY <1>2 DEF Fitting, Served, AckSteps
<1>4. /\ Kind(m) # "Write" => Tail(toDev) = <<>>
      /\ Kind(m) = "Write" => Tail(Tail(toDev)) = <<>>
  BY DEF Pending
<1>5. CASE Kind(m) = "Read"
  <2>1. OnRead
    BY <1>5, PendingArm DEF Arm
  <2> DEFINE d == Data(<<"mem", Arg.addr>>, 0, Arg.size, m.re)
             a == Response("Ack", Empty, m.re)
  <2>2. d.re = m.re /\ a.re = m.re
    BY ResponseFields DEF Data
  <2>3. toHost' = toHost \o <<d, a>> /\ toDev' = <<>> /\ phase' = "serving"
    BY <1>4, <1>5, <2>1 DEF OnRead, Pending, dev
  <2> HIDE DEF a, d
  <2>4. toHost' = <<d, a>>
    BY <2>3, Tuples DEF Pending
  <2>5. Reading' /\ req' = req /\ waiting' = TRUE
    BY <1>1, <1>2, <1>5 DEF Reading, host, Pending
  <2>6. Answer(toHost)'
    BY <2>2, <2>4, <2>5 DEF Answer, Pending
  <2> QED
    BY <2>3, <2>5, <2>6 DEF Settles, Answered
<1>6. CASE Kind(m) # "Read"
  <2>1. ~ Reading
    BY <1>1, <1>6
  <2>2. CASE /\ toDev' = <<>> /\ phase' \in {"serving", "reset"}
             /\ \E k \in {"Ack", "Nack", "Range"} : \E arg :
                  toHost' = Append(toHost, Response(k, arg, m.re))
    <3>0. PICK k \in {"Ack", "Nack", "Range"} :
                  \E arg : toHost' = Append(toHost, Response(k, arg, m.re))
      BY <2>2
    <3>1. PICK arg : toHost' = Append(toHost, Response(k, arg, m.re))
      BY <3>0
    <3> DEFINE a == Response(k, arg, m.re)
    <3>2. a.re = m.re
      BY ResponseFields
    <3>3. toHost' = <<a>>
      BY <3>1, Tuples DEF Pending
    <3> HIDE DEF a
    <3> QED
      BY <1>3, <2>1, <2>2, <3>2, <3>3, SettlesByAnswer DEF Pending
  <2>3. CASE Silence
    BY <2>3, SettlesBySilence DEF Pending
  <2>4. CASE OnAck \/ OnFlushCache \/ OnJumpReturns \/ OnJumpRefused
    <3>1. Kind(m) # "Write"
      BY <2>4 DEF OnAck, OnFlushCache, OnJumpReturns, OnJumpRefused, Got, Kind, Pending
    <3>2. phase' = "serving" /\ toDev' = <<>>
      BY <1>4, <2>4, <3>1 DEF OnAck, OnFlushCache, OnJumpReturns, OnJumpRefused, Reply, dev,
         Pending
    <3>3. \E k \in {"Ack", "Nack", "Range"} : \E arg :
                  toHost' = Append(toHost, Response(k, arg, m.re))
      BY <2>4 DEF OnAck, OnFlushCache, OnJumpReturns, OnJumpRefused, Reply, Pending
    <3> QED
      BY <2>2, <3>2, <3>3
  <2>5. CASE OnWrite
    <3>1. Kind(m) = "Write"
      BY <2>5 DEF OnWrite, Got, Kind, Pending
    <3>2. toDev' = <<>>
      BY <1>4, <2>5, <3>1 DEF OnWrite
    <3>3. CASE phase' = "crashed" /\ UNCHANGED toHost
      BY <2>3, <3>2, <3>3 DEF Silence, Left, Pending
    <3>4. CASE phase' = phase /\ toHost' = Append(toHost, Response("Ack", Empty, m.re))
      BY <2>2, <3>2, <3>4 DEF Pending
    <3> QED
      BY <2>5, <3>3, <3>4 DEF OnWrite, Pending
  <2>6. CASE OnJumpLeaves
    <3>1. Kind(m) # "Write"
      BY <2>6 DEF OnJumpLeaves, Got, Kind, Pending
    <3> QED
      BY <1>4, <2>3, <2>6, <3>1 DEF OnJumpLeaves, Silence, Left, Pending
  <2>7. CASE OnReset
    <3>1. Kind(m) # "Write"
      BY <2>7 DEF OnReset, Got, Kind, Pending
    <3>2. phase' = "reset" /\ toDev' = <<>>
      BY <1>4, <2>7, <3>1 DEF OnReset, Reply
    <3>3. CASE UNCHANGED toHost
      BY <2>3, <3>2, <3>3 DEF Silence, Left, Pending
    <3>4. CASE Reply("Ack", Empty)
      BY <2>2, <3>2, <3>4 DEF Reply, Pending
    <3> QED
      BY <2>7, <3>3, <3>4 DEF OnReset
  <2> QED
    BY <1>1, <1>6, <2>4, <2>5, <2>6, <2>7, PendingArm DEF Arm
<1> QED
  BY <1>5, <1>6

LEMMA PendingAnswered ==
  ASSUME NEW m, Pending(m), PayloadStep, UNCHANGED host
  PROVE  Settles
<1>1. Here.op \in {"set_pl", "set_lk", "hook", "reserve", "alloc", "jump", "upload", "repl"}
  BY DEF Pending, Meant
<1> QED
  BY <1>1, SetPlAnswered, SetLkAnswered, HookAnswered, ReserveAnswered, AllocAnswered,
     JumpAnswered, UploadAnswered, ReplAnswered

(* While the payload is there, a step of it keeps what the host relies on. *)
LEMMA OnStep ==
  ASSUME SlotsInv, HostInv, hstat = "running", Lbl.at \in Ons, OnInv, PayloadStep,
         UNCHANGED host
  PROVE  OnInv'
<1>1. /\ Lbl' = Lbl /\ Here' = Here /\ waiting' = waiting /\ abandoned' = abandoned
      /\ place' = place /\ cfg' = cfg /\ req' = req /\ cmd' = cmd
  BY SameHost DEF host
<1>2. phase \in {"hello", "serving"}
  BY Elsewhere DEF OnInv, Up
<1>3. /\ phase \in Up /\ SetUp(Lbl.at) /\ (Here.op \in Silent => waiting = FALSE)
      /\ (Lbl.at = "imaged" => place["bootimg"] # 0)
      /\ (Lbl.at \notin {"brom", "fresh"} => phase # "hello")
  BY DEF OnInv
<1> DEFINE Body == \/ abandoned = TRUE /\ Here.op = "repl"
                   \/ abandoned = FALSE /\ (Rest \/ Asked \/ Answered \/ Lost)
<1>4. ASSUME stage' = stage, params'.memory = params.memory, phase' \in Left, Body'
      PROVE  OnInv'
  <2>1. SetUp(Lbl.at)'
    BY <1>1, <1>3, <1>4 DEF SetUp
  <2>2. phase' \in Up /\ phase' # "hello"
    BY <1>4 DEF Left, Up
  <2> QED
    BY <1>1, <1>3, <1>4, <2>1, <2>2 DEF OnInv
<1>5. CASE abandoned = TRUE /\ Here.op = "repl"
  <2>1. Lbl.at = "ready"
    BY <1>5, Now DEF Placed
  <2>2. phase = "serving"
    BY <1>2, <1>3, <2>1
  <2>3. stage' = stage /\ params'.memory = params.memory /\ phase' \in Left
    BY <2>2, ArmFrame
  <2> QED
    BY <1>1, <1>4, <1>5, <2>3
<1>6. CASE abandoned = FALSE /\ Rest
  <2>1. phase = "hello"
    BY <1>2, <1>6, Quiet DEF Rest, Carries0
  <2>2. toDev = <<Hi>>
    BY <1>6, <2>1 DEF Rest, Carries0
  <2>3. Head(toDev) = Hi /\ Tail(toDev) = <<>>
    BY <2>2, Tuples
  <2>4. /\ phase' = "serving" /\ toDev' = <<>> /\ toHost' = toHost /\ stage' = stage
        /\ params' = params /\ plParams' = plParams /\ lkParams' = lkParams
    BY <2>1, <2>3, Greeting
  <2>5. Served(Lbl)'
    BY <1>1, <1>6, <2>4 DEF Rest, Served, Told
  <2>6. Rest'
    BY <1>1, <1>6, <2>4, <2>5 DEF Rest, Carries0
  <2> QED
    BY <1>1, <1>4, <1>6, <2>4, <2>6 DEF Left
<1>7. CASE abandoned = FALSE /\ Lost
  <2>1. phase = "hello"
    BY <1>2, <1>7, Quiet DEF Lost, Carries0
  <2>2. toDev = <<Hi>>
    BY <1>7, <2>1 DEF Lost, Carries0
  <2>3. Head(toDev) = Hi /\ Tail(toDev) = <<>>
    BY <2>2, Tuples
  <2>4. /\ phase' = "serving" /\ toDev' = <<>> /\ toHost' = toHost /\ stage' = stage
        /\ params' = params
    BY <2>1, <2>3, Greeting
  <2>5. Lost'
    BY <1>1, <1>7, <2>4 DEF Lost, Carries0
  <2> QED
    BY <1>1, <1>4, <1>7, <2>4, <2>5 DEF Left
<1>8. CASE abandoned = FALSE /\ Answered
  BY <1>2, <1>8, Quiet DEF Answered
<1>9. CASE abandoned = FALSE /\ Asked
  <2>1. PICK m, d : /\ m.re = req /\ Meant(m)
                    /\ Kind(m) = "Write" => Carries2(m, d)
                    /\ Kind(m) # "Write" => Carries1(m)
    BY <1>9 DEF Asked, Request
  <2>2. CASE phase = "hello"
    <3>1. /\ Kind(m) = "Write" => toDev = <<Hi, m, d>>
          /\ Kind(m) # "Write" => toDev = <<Hi, m>>
      BY <2>1, <2>2 DEF Carries1, Carries2
    <3>2. /\ Head(toDev) = Hi
          /\ Kind(m) = "Write" => Tail(toDev) = <<m, d>>
          /\ Kind(m) # "Write" => Tail(toDev) = <<m>>
      <4>1. CASE Kind(m) = "Write"
        <5>1. toDev = <<Hi, m, d>>
          BY <3>1, <4>1
        <5>2. Head(toDev) = Hi /\ Tail(toDev) = <<m, d>>
          BY <5>1, Tuples
        <5> QED
          BY <4>1, <5>2
      <4>2. CASE Kind(m) # "Write"
        <5>1. toDev = <<Hi, m>>
          BY <3>1, <4>2
        <5>2. Head(toDev) = Hi /\ Tail(toDev) = <<m>>
          BY <5>1, Tuples
        <5> QED
          BY <4>2, <5>2
      <4> QED
        BY <4>1, <4>2
    <3>3. /\ phase' = "serving" /\ toDev' = Tail(toDev) /\ toHost' = toHost /\ stage' = stage
          /\ params' = params /\ plParams' = plParams /\ lkParams' = lkParams
      BY <2>2, <3>2, Greeting
    <3>4. Served(Lbl)'
      BY <1>1, <1>9, <3>3 DEF Asked, Served, Told
    <3>5. Meant(m)'
      <4>1. Meant(m)' = Meant(m)
        BY <1>1 DEF Meant, Length, Addr, BootimgAddr
      <4> QED
        BY <2>1, <4>1
    <3>6. /\ Kind(m) = "Write" => Carries2(m, d)'
          /\ Kind(m) # "Write" => Carries1(m)'
      BY <3>2, <3>3 DEF Carries1, Carries2
    <3>7. Request'
      BY <1>1, <2>1, <3>5, <3>6 DEF Request
    <3>8. Asked'
      BY <1>1, <1>9, <3>3, <3>4, <3>7 DEF Asked
    <3> QED
      BY <1>1, <1>4, <1>9, <3>3, <3>8 DEF Left
  <2>3. CASE phase = "serving"
    <3>1. /\ Kind(m) = "Write" => toDev = <<m, d>>
          /\ Kind(m) # "Write" => toDev = <<m>>
      BY <2>1, <2>3 DEF Carries1, Carries2
    <3>2. /\ Head(toDev) = m
          /\ Kind(m) = "Write" => Tail(Tail(toDev)) = <<>>
          /\ Kind(m) # "Write" => Tail(toDev) = <<>>
      <4>1. CASE Kind(m) = "Write"
        <5>1. toDev = <<m, d>>
          BY <3>1, <4>1
        <5>2. Head(toDev) = m /\ Tail(toDev) = <<d>>
          BY <5>1, Tuples
        <5>3. Tail(<<d>>) = <<>>
          BY Tuples
        <5> QED
          BY <4>1, <5>2, <5>3
      <4>2. CASE Kind(m) # "Write"
        <5>1. toDev = <<m>>
          BY <3>1, <4>2
        <5>2. Head(toDev) = m /\ Tail(toDev) = <<>>
          BY <5>1, Tuples
        <5> QED
          BY <4>2, <5>2
      <4> QED
        BY <4>1, <4>2
    <3>3. Pending(m)
      BY <1>3, <1>9, <2>1, <2>3, <3>2 DEF Pending, Asked
    <3>4. Settles
      BY <3>3, PendingAnswered
    <3>5. stage' = stage /\ params'.memory = params.memory /\ phase' \in Left
      BY <2>3, ArmFrame
    <3> QED
      BY <1>1, <1>4, <1>9, <3>4, <3>5 DEF Settles
  <2> QED
    BY <1>2, <2>2, <2>3
<1> QED
  BY <1>5, <1>6, <1>7, <1>8, <1>9 DEF OnInv

(* What the payload halts for is there to be seen.                         *)
LEMMA HaltStep ==
  ASSUME SlotsInv, HelloInv, HaltsOnlyForLack, PayloadStep
  PROVE  HaltsOnlyForLack'
<1> SUFFICES ASSUME phase' = "halted" PROVE HaltsOnlyForLack'
  BY DEF HaltsOnlyForLack
<1>1. phase \in {"app", "stack", "main", "hello", "serving"}
  BY Elsewhere
<1>2. CASE phase \in {"app", "stack", "main"}
  <2>1. Lacks
    BY <1>2, StartUp DEF Takes
  <2> QED
    BY <2>1 DEF Lacks, HaltsOnlyForLack
<1>3. CASE phase = "hello"
  <2>1. Greeted
    BY <1>3, Greets
  <2>2. toDev # <<>>
    BY <2>1 DEF Greeted
  <2>3. AKind(Head(toDev)) = "Ack"
    BY <1>3, <2>2 DEF HelloInv
  <2> QED
    BY <2>1, <2>3 DEF Greeted, AKind
<1>4. CASE phase = "serving"
  BY <1>4, ArmFrame DEF Left
<1> QED
  BY <1>1, <1>2, <1>3, <1>4

(* What the host has put on the wire to a payload that starts is its Ack.  *)
LEMMA HelloByTalk ==
  (SlotsInv /\ HostInv /\ TalkInv /\ hstat = "running") => HelloInv
<1> SUFFICES ASSUME SlotsInv, HostInv, TalkInv, hstat = "running",
                    phase \in {"app", "stack", "main", "hello"}
             PROVE  toDev = <<>> \/ AKind(Head(toDev)) = "Ack"
  BY DEF HelloInv
<1>1. Placed(cfg, Here, Lbl.at, Then.at) /\ Lbl.at \in Places
  BY Now
<1>2. /\ Lbl.at \in Boots => BootInv
      /\ Lbl.at \in Sents => SentInv
      /\ Lbl.at \in Ons => OnInv
      /\ Lbl.at = "gone" => GoneInv
  BY DEF TalkInv
<1>3. Lbl.at \in Boots \cup Sents \cup Ons \cup {"gone"}
  BY <1>1 DEF Placed, Places, Boots, Sents, Ons
<1>4. \A m, d : Head(<<Hi>>) = Hi /\ Head(<<Hi, m>>) = Hi /\ Head(<<Hi, m, d>>) = Hi
  BY Tuples
<1>5. AKind(Hi) = "Ack"
  BY HiFacts
<1>6. CASE Lbl.at \in Boots
  BY <1>2, <1>6 DEF BootInv
<1>7. CASE Lbl.at \in Sents
  BY <1>2, <1>7 DEF SentInv
<1>8. CASE Lbl.at = "gone"
  <2>1. phase = "hello" /\ GoneInv
    BY <1>2, <1>8 DEF GoneInv, Up
  <2>2. toDev = <<Hi>> \/ \E m : toDev = <<Hi, m>>
    BY <2>1 DEF GoneInv, Carries0, Carries1
  <2> QED
    BY <1>4, <1>5, <2>2
<1>9. CASE Lbl.at \in Ons
  <2>1. phase = "hello" /\ OnInv
    BY <1>2, <1>9 DEF OnInv, Up
  <2>2. Here.op # "repl"
    BY <1>1, <2>1 DEF Placed, OnInv
  <2>3. toDev = <<>> \/ toDev = <<Hi>> \/ \E m, d : toDev = <<Hi, m>> \/ toDev = <<Hi, m, d>>
    <3>1. CASE Rest \/ Lost \/ Answered
      BY <2>1, <3>1 DEF Rest, Lost, Answered, Carries0
    <3>2. CASE Asked
      BY <2>1, <3>2 DEF Asked, Request, Carries1, Carries2
    <3> QED
      BY <2>1, <2>2, <3>1, <3>2 DEF OnInv
  <2> QED
    BY <1>4, <1>5, <2>3
<1> QED
  BY <1>3, <1>6, <1>7, <1>8, <1>9

LEMMA HelloByTalkNext ==
  (SlotsInv /\ HostInv /\ TalkInv /\ hstat = "running" => HelloInv)'
BY HelloByTalk, PTL

(* A step of the device.                                                   *)
LEMMA SameHostInv ==
  ASSUME HostInv, UNCHANGED host
  PROVE  HostInv'
<1>1. Lbl' = Lbl
  BY SameHost DEF host
<1> QED
  BY <1>1 DEF HostInv, host

LEMMA DeviceIInv ==
  ASSUME IInv, DeviceStep
  PROVE  IInv'
<1>1. PayloadStep /\ UNCHANGED host
  BY DEF DeviceStep
<1>2. SlotsInv /\ HostInv /\ TalkInv /\ HelloInv /\ HaltsOnlyForLack /\ FailInv
  BY DEF IInv
<1>3. /\ Lbl' = Lbl /\ Here' = Here /\ hstat' = hstat /\ abandoned' = abandoned /\ cfg' = cfg
      /\ hparams' = hparams /\ why' = why /\ EnoughSlots' = EnoughSlots
  BY <1>1, SameHost DEF host
<1>4. phase \in {"app", "stack", "main", "hello", "serving"}
  BY <1>1, Elsewhere
<1>5. SlotsInv'
  <2>1. CASE phase \in {"app", "stack", "main"}
    BY <1>1, <1>2, <1>3, <2>1, StartUp DEF SlotsInv, Table
  <2>2. CASE phase = "hello"
    BY <1>1, <1>2, <1>3, <2>2, Greets DEF Greeted, SlotsInv, Table
  <2>3. CASE phase = "serving"
    BY <1>1, <1>2, <1>3, <2>3, ArmFrame DEF SlotsInv, Table
  <2> QED
    BY <1>4, <2>1, <2>2, <2>3
<1>6. HostInv'
  BY <1>1, <1>2, SameHostInv
<1>7. TalkInv'
  <2> SUFFICES ASSUME hstat = "running" PROVE TalkInv'
    BY <1>3 DEF TalkInv
  <2>1. Lbl.at \in Boots => BootInv'
    <3> SUFFICES ASSUME Lbl.at \in Boots PROVE FALSE
      OBVIOUS
    <3> QED
      BY <1>2, <1>4 DEF TalkInv, BootInv
  <2>2. Lbl.at \in Sents => SentInv'
    BY <1>1, <1>2, SentStep DEF TalkInv
  <2>3. Lbl.at \in Ons => OnInv'
    BY <1>1, <1>2, OnStep DEF TalkInv
  <2>4. Lbl.at = "gone" => GoneInv'
    BY <1>1, <1>2, GoneStep DEF TalkInv
  <2> QED
    BY <1>2, <1>3, <2>1, <2>2, <2>3, <2>4 DEF TalkInv
<1>8. HaltsOnlyForLack'
  BY <1>1, <1>2, HaltStep
<1>9. HelloInv'
  <2>1. CASE hstat = "running"
    BY <1>3, <1>5, <1>6, <1>7, <2>1, HelloByTalkNext
  <2>2. CASE phase \in {"app", "stack", "main"}
    <3>1. toDev' = toDev
      BY <1>1, <1>2, <2>2, StartUp
    <3> QED
      BY <1>2, <2>2, <3>1 DEF HelloInv
  <2>3. CASE phase = "hello"
    BY <1>1, <2>3, Greets DEF Greeted, HelloInv
  <2>4. CASE phase = "serving"
    BY <1>1, <1>2, <2>4, ArmFrame DEF Left, HelloInv
  <2> QED
    BY <1>4, <2>1, <2>2, <2>3, <2>4
<1>10. FailInv'
  <2>1. ~ (toDev = <<>> /\ phase \notin {"app", "stack", "main", "hello"})
    BY <1>1, Quiet
  <2> QED
    BY <1>2, <1>3, <2>1 DEF FailInv
<1> QED
  BY <1>5, <1>6, <1>7, <1>8, <1>9, <1>10 DEF IInv

(* LK starts: nothing that the host relies on changes.                     *)
LEMMA LkStartsIInv ==
  ASSUME IInv, LkStarts
  PROVE  IInv'
<1>1. /\ phase = "booted" /\ phase' = "lk" /\ UNCHANGED <<host, wire, stage, params, areas,
                                                         plParams, lkParams>>
  BY DEF LkStarts
<1>2. SlotsInv /\ HostInv /\ TalkInv /\ HelloInv /\ HaltsOnlyForLack /\ FailInv
  BY DEF IInv
<1>3. /\ Lbl' = Lbl /\ Here' = Here /\ Then' = Then /\ hstat' = hstat /\ abandoned' = abandoned
      /\ cfg' = cfg /\ hparams' = hparams /\ why' = why /\ EnoughSlots' = EnoughSlots
      /\ waiting' = waiting /\ req' = req /\ cmd' = cmd /\ place' = place
      /\ toDev' = toDev /\ toHost' = toHost
      /\ stage' = stage /\ params' = params /\ plParams' = plParams /\ lkParams' = lkParams
  BY <1>1, SameHost DEF host, wire
<1>4. SlotsInv'
  BY <1>2, <1>3 DEF SlotsInv
<1>5. HostInv'
  BY <1>1, <1>2, SameHostInv
<1>6. TalkInv'
  <2> SUFFICES ASSUME hstat = "running" PROVE TalkInv'
    BY <1>3 DEF TalkInv
  <2>1. Lbl.at \notin Boots \cup Sents
    BY <1>1, <1>2 DEF TalkInv, BootInv, SentInv
  <2>2. Lbl.at = "gone" => GoneInv'
    BY <1>1, <1>2, <1>3 DEF TalkInv, GoneInv, Carries0, Carries1, Up
  <2>3. ASSUME Lbl.at \in Ons PROVE OnInv'
    <3>1. OnInv
      BY <1>2, <2>3 DEF TalkInv
    <3>2. SetUp(Lbl.at)'
      BY <1>3, <3>1 DEF OnInv, SetUp
    <3>3. Served(Lbl)' = Served(Lbl) /\ Served(Then)' = Served(Then)
      BY <1>3 DEF Served, Told
    <3>4. Carries0 => Carries0'
      BY <1>1, <1>3 DEF Carries0
    <3>5. Rest => Rest'
      BY <1>1, <1>3, <3>3, <3>4 DEF Rest
    <3>6. Lost => Lost'
      BY <1>1, <1>3, <3>4 DEF Lost
    <3>7. Asked => Asked'
      <4>1. \A m : Meant(m)' = Meant(m)
        BY <1>3 DEF Meant, Length, Addr, BootimgAddr
      <4>2. Request => Request'
        BY <1>1, <1>3, <4>1 DEF Request, Carries1, Carries2
      <4> QED
        BY <1>1, <1>3, <3>3, <4>2 DEF Asked
    <3>8. Answered => Answered'
      <4>1. Reading' = Reading
        BY <1>3 DEF Reading
      <4>2. \A m : Fitting(m)' = Fitting(m)
        BY <1>3, <3>3 DEF Fitting, Free, Length
      <4>3. Answer(toHost)' = Answer(toHost)
        BY <1>3, <4>1, <4>2 DEF Answer
      <4> QED
        BY <1>1, <1>3, <4>3 DEF Answered
    <3> QED
      BY <1>1, <1>3, <3>1, <3>2, <3>5, <3>6, <3>7, <3>8 DEF OnInv, Up
  <2> QED
    BY <1>2, <1>3, <2>1, <2>2, <2>3 DEF TalkInv
<1>7. HaltsOnlyForLack' /\ HelloInv'
  BY <1>1 DEF HaltsOnlyForLack, HelloInv
<1>8. FailInv'
  <2>1. Free(Length(Here.obj))' = Free(Length(Here.obj))
    BY <1>3 DEF Free, Length
  <2> QED
    BY <1>1, <1>2, <1>3, <2>1 DEF FailInv
<1> QED
  BY <1>4, <1>5, <1>6, <1>7, <1>8 DEF IInv

-----------------------------------------------------------------------------
(* What the host does.                                                     *)

LEMMA HostSide ==
  ASSUME IInv, hstat = "running", cfg' = cfg, UNCHANGED dev, Table(hparams'),
         hstat' \in {"running", "ok"}, HostInv', TalkInv',
         hstat' = "running" \/ toDev' = toDev
  PROVE  IInv'
<1>1. SlotsInv /\ HelloInv /\ HaltsOnlyForLack
  BY DEF IInv
<1>2. params' = params /\ phase' = phase
  BY DEF dev
<1>3. SlotsInv'
  BY <1>1, <1>2 DEF SlotsInv, Table
<1>4. HaltsOnlyForLack'
  BY <1>1, <1>2 DEF HaltsOnlyForLack
<1>5. HelloInv'
  <2>1. CASE hstat' = "running"
    BY <1>3, <2>1, HelloByTalkNext
  <2>2. CASE toDev' = toDev
    BY <1>1, <1>2, <2>2 DEF HelloInv
  <2> QED
    BY <2>1, <2>2
<1>6. FailInv'
  BY DEF FailInv
<1> QED
  BY <1>3, <1>4, <1>5, <1>6 DEF IInv

(* The host gives up.                                                      *)
LEMMA GivesUp ==
  ASSUME IInv, NEW error, Fail(error), UNCHANGED dev, toDev' = toDev, Table(hparams'),
         EnoughSlots =>
           \/ error \in Outside
           \/ error = "jump" /\ cfg.jump \in Returning
           \/ /\ error = "no range" /\ Free(Length(Here.obj)) = NoRange
              /\ toDev = <<>> /\ phase \notin {"app", "stack", "main", "hello"}
  PROVE  IInv'
<1>1. SlotsInv /\ HelloInv /\ HaltsOnlyForLack
  BY DEF IInv
<1>2. params' = params /\ phase' = phase
  BY DEF dev
<1>3. hstat' = "failed" /\ why' = error /\ cfg' = cfg /\ ip' = ip
  BY DEF Fail
<1>4. SlotsInv'
  BY <1>1, <1>2, <1>3 DEF SlotsInv, Table
<1>5. HaltsOnlyForLack' /\ HelloInv'
  BY <1>1, <1>2 DEF HaltsOnlyForLack, HelloInv
<1>6. HostInv' /\ TalkInv'
  BY <1>3 DEF HostInv, TalkInv
<1>7. Here' = Here /\ EnoughSlots' = EnoughSlots
  BY <1>3, SameHost
<1>8. Free(Length(Here.obj))' = Free(Length(Here.obj))
  BY <1>2, <1>3, <1>7 DEF Free, Length
<1>9. FailInv'
  BY <1>2, <1>3, <1>7, <1>8 DEF FailInv
<1> QED
  BY <1>4, <1>5, <1>6, <1>9 DEF IInv

(* Before the payload is sent.                                             *)
LEMMA BootGoesOn ==
  ASSUME SlotsInv, HostInv, TalkInv, hstat = "running", Advance, Lbl.at \in Boots,
         Then.at \in Boots, UNCHANGED <<wire, phase>>
  PROVE  TalkInv'
<1>1. /\ waiting' = FALSE /\ abandoned' = abandoned
      /\ hstat' = "running" => Lbl' = Then
  BY Advances
<1>2. BootInv /\ abandoned = FALSE
  BY DEF TalkInv, Boots, Ons
<1>3. BootInv'
  BY <1>1, <1>2 DEF BootInv, wire
<1> QED
  BY <1>1, <1>2, <1>3 DEF TalkInv, Boots, Sents, Ons

LEMMA MainIInv ==
  ASSUME IInv, Main, UNCHANGED dev
  PROVE  IInv'
<1>1. /\ hstat = "running" /\ Here.op = "main" /\ SlotsInv /\ HostInv /\ TalkInv
      /\ UNCHANGED wire
  BY DEF Main, At, IInv
<1>2. Lbl.at = "begin" /\ Then.at = "plain"
  BY <1>1, Now DEF Placed
<1>3. cfg \in Configs /\ hparams.blacklist = <<>> /\ Table(hparams)
  BY <1>1, <1>2 DEF HostInv, SlotsInv
<1> DEFINE e == [start |-> LkAddr + LkLen, end |-> LkAddr + LkLen + LkBssLen,
                 mode |-> "ForbiddenReloc"]
<1>4. hparams' = IF cfg.lk THEN [hparams EXCEPT !.blacklist = Append(@, e)] ELSE hparams
  BY DEF Main, blacklist_reloc
<1> HIDE DEF e
<1>5. Table(hparams') /\ Len(hparams'.blacklist) <= IF cfg.lk THEN 1 ELSE 0
  <2>1. Len(hparams.blacklist) = 0
    BY <1>3
  <2>2. CASE cfg.lk
    <3>1. HasFreeSlot(hparams.blacklist)
      BY <2>1, MaxSlotsAssumption DEF HasFreeSlot
    <3>2. Table(hparams') /\ Len(hparams'.blacklist) = Len(hparams.blacklist) + 1
      BY <1>3, <1>4, <2>2, <3>1, SlotTaken
    <3> QED
      BY <2>1, <2>2, <3>2
  <2>3. CASE ~ cfg.lk
    BY <1>3, <1>4, <2>1, <2>3
  <2> QED
    BY <2>2, <2>3
<1>6. CASE UsageOK(cfg) /\ Advance /\ UNCHANGED place
  <2>1. /\ cfg' = cfg /\ hstat' \in {"running", "ok"} /\ cmd' = cmd
        /\ hstat' = "running" => ip' \in 1..Len(Script(cfg')) /\ Lbl' = Then
    BY <1>1, <1>6, Advances
  <2>2. TalkInv'
    BY <1>1, <1>2, <1>6, BootGoesOn DEF Boots, dev
  <2>3. Len(hparams'.blacklist) <= HostSlots(cfg)
    <3> DEFINE l == IF cfg.lk THEN 1 ELSE 0
               d == IF cfg.dev = "rom" THEN Len(cfg.upload) + 1 ELSE 0
    <3>1. l \in Nat /\ d \in Nat /\ HostSlots(cfg) = l + d
      BY <1>3, ConfigFacts DEF HostSlots
    <3>2. Len(hparams'.blacklist) \in Nat /\ Len(hparams'.blacklist) <= l
      BY <1>5, AppendKeeps DEF Table
    <3> HIDE DEF l, d
    <3> QED
      BY <3>1, <3>2
  <2>4. HostInv'
    BY <1>1, <1>2, <1>5, <1>6, <2>1, <2>3 DEF HostInv
  <2> QED
    BY <1>1, <1>5, <2>1, <2>2, <2>4, HostSide DEF wire
<1>7. CASE Fail("usage") \/ Fail("local")
  <2>1. toDev' = toDev
    BY <1>1 DEF wire
  <2> QED
    BY <1>5, <1>7, <2>1, GivesUp DEF Outside
<1> QED
  BY <1>6, <1>7 DEF Main

LEMMA ParamsPlIInv ==
  ASSUME IInv, ParamsPl, UNCHANGED dev
  PROVE  IInv'
<1>1. /\ hstat = "running" /\ Here.op = "params_pl" /\ SlotsInv /\ HostInv /\ TalkInv
      /\ UNCHANGED <<wire, place>> /\ Advance
      /\ hparams' = [hparams EXCEPT !.memory = Dram]
  BY DEF ParamsPl, At, IInv
<1>2. Lbl.at \in {"plain", "back"} /\ Then.at = "pl"
  BY <1>1, Now DEF Placed
<1>3. /\ cfg' = cfg /\ hstat' \in {"running", "ok"} /\ cmd' = cmd
      /\ hstat' = "running" => ip' \in 1..Len(Script(cfg')) /\ Lbl' = Then
  BY <1>1, Advances
<1>4. TalkInv'
  BY <1>1, <1>2, BootGoesOn DEF Boots, dev
<1>5. hparams' = [memory |-> Dram, blacklist |-> hparams.blacklist] /\ Table(hparams)
  BY <1>1 DEF SlotsInv, Table
<1>6. Table(hparams') /\ hparams'.memory = Dram /\ hparams'.blacklist = hparams.blacklist
  BY <1>5 DEF Table
<1>7. HostInv'
  BY <1>1, <1>2, <1>3, <1>6 DEF HostInv
<1> QED
  BY <1>1, <1>3, <1>4, <1>6, <1>7, HostSide DEF wire

(* The inputs and the preloader are added to the parameters.               *)
LEMMA BromTable ==
  ASSUME SlotsInv, HostInv, hstat = "running", Here.op = "params_brom"
  PROVE  /\ IsSeq(BromBlacklist) /\ Len(BromBlacklist) \in Nat
         /\ Len(BromBlacklist) <= HostSlots(cfg)
         /\ \A i \in 1..Len(hparams.blacklist) :
              i \in 1..Len(BromBlacklist) /\ BromBlacklist[i] = hparams.blacklist[i]
<1>1. Lbl.at = "plain" /\ cfg.dev = "rom"
  BY Now DEF Placed
<1>2. /\ cfg \in Configs /\ IsSeq(hparams.blacklist)
      /\ Len(hparams.blacklist) <= IF cfg.lk THEN 1 ELSE 0
  BY <1>1 DEF SlotsInv, Table, HostInv
<1> DEFINE n == Len(cfg.upload)
           R == [i \in 1..n |-> Reserved(<<"up", i>>)]
           p == Reserved(<<"preloader", 0>>)
           U == {Reserved(<<"up", i>>) : i \in 1..n} \cup {p}
<1>3. n \in Nat
  BY <1>2, ConfigFacts
<1>4. BromRanges = R \o <<p>>
  BY DEF BromRanges
<1>5. R \in Seq(U) /\ Len(R) = n
  <2>1. R \in [1..n -> U]
    OBVIOUS
  <2> HIDE DEF R, U, n
  <2> QED
    BY <1>3, <2>1
<1>6. <<p>> \in Seq(U) /\ Len(<<p>>) = 1
  <2> HIDE DEF p
  <2> QED
    BY DEF U
<1> HIDE DEF R, U, n, p
<1>7. BromRanges \in Seq(U) /\ Len(BromRanges) = n + 1
  BY <1>4, <1>5, <1>6
<1> DEFINE m == Len(BromRanges)
           E(i) == [start |-> BromRanges[i].start, end |-> BromRanges[i].end,
                    mode |-> "ForbiddenReloc"]
           T == [i \in 1..m |-> E(i)]
           V == {E(i) : i \in 1..m}
<1>8. BromBlacklist = hparams.blacklist \o T
  BY DEF BromBlacklist
<1>9. m \in Nat
  BY <1>3, <1>7
<1>10. T \in Seq(V) /\ Len(T) = m
  <2>1. T \in [1..m -> V]
    OBVIOUS
  <2> HIDE DEF T, V, m
  <2> QED
    BY <1>9, <2>1
<1> HIDE DEF T, V, m, E
<1>11. PICK S : hparams.blacklist \in Seq(S)
  BY <1>2 DEF IsSeq
<1>12. hparams.blacklist \in Seq(S \cup V) /\ T \in Seq(S \cup V)
  BY <1>10, <1>11
<1>13. /\ hparams.blacklist \o T \in Seq(S \cup V) /\ Len(hparams.blacklist) \in Nat
       /\ Len(hparams.blacklist \o T) = Len(hparams.blacklist) + m
  BY <1>10, <1>12
<1>14. Len(BromBlacklist) <= HostSlots(cfg) /\ Len(BromBlacklist) \in Nat
  <2> DEFINE l == IF cfg.lk THEN 1 ELSE 0
  <2>1. l \in Nat /\ HostSlots(cfg) = l + (n + 1) /\ Len(hparams.blacklist) <= l
    BY <1>1, <1>2 DEF HostSlots, n
  <2>2. m = n + 1
    BY <1>7 DEF m
  <2> DEFINE b == Len(hparams.blacklist)
  <2>3. b \in Nat /\ b <= l /\ Len(BromBlacklist) = b + m
    BY <1>8, <1>13, <2>1
  <2> HIDE DEF l, b
  <2>4. b + m <= l + (n + 1) /\ b + m \in Nat
    BY <1>3, <2>1, <2>2, <2>3
  <2> QED
    BY <2>1, <2>3, <2>4
<1>15. \A i \in 1..Len(hparams.blacklist) :
         /\ i \in 1..Len(hparams.blacklist \o T)
         /\ (hparams.blacklist \o T)[i] = hparams.blacklist[i]
  BY <1>9, <1>12, <1>13
<1> QED
  BY <1>8, <1>13, <1>14, <1>15 DEF IsSeq

LEMMA ParamsBromIInv ==
  ASSUME IInv, ParamsBrom, UNCHANGED dev
  PROVE  IInv'
<1>1. /\ hstat = "running" /\ Here.op = "params_brom" /\ SlotsInv /\ HostInv /\ TalkInv
      /\ UNCHANGED wire
  BY DEF ParamsBrom, At, IInv
<1>2. Lbl.at = "plain" /\ Then.at = "rom" /\ cfg \in Configs /\ Table(hparams)
  BY <1>1, Now DEF Placed, SlotsInv
<1>3. IsSeq(BromBlacklist) /\ Len(BromBlacklist) \in Nat /\ Len(BromBlacklist) <= HostSlots(cfg)
  BY <1>1, BromTable
<1>4. CASE /\ Len(BromBlacklist) <= MaxSlots /\ Advance /\ UNCHANGED place
           /\ hparams' = [memory |-> Sram, blacklist |-> BromBlacklist]
  <2>1. /\ cfg' = cfg /\ hstat' \in {"running", "ok"} /\ cmd' = cmd
        /\ hstat' = "running" => ip' \in 1..Len(Script(cfg')) /\ Lbl' = Then
    BY <1>1, <1>4, Advances
  <2>2. TalkInv'
    BY <1>1, <1>2, <1>4, BootGoesOn DEF Boots, dev
  <2>3. Table(hparams') /\ hparams'.blacklist = BromBlacklist
    BY <1>3, <1>4 DEF Table
  <2>4. HostInv'
    BY <1>1, <1>2, <1>3, <1>4, <2>1, <2>3 DEF HostInv
  <2> QED
    BY <1>1, <2>1, <2>2, <2>3, <2>4, HostSide DEF wire
<1>5. CASE Len(BromBlacklist) > MaxSlots /\ Fail("exhausted") /\ UNCHANGED hparams
  <2>1. ~ EnoughSlots
    <3>1. SlotsNeeded(cfg) \in Nat /\ HostSlots(cfg) <= SlotsNeeded(cfg) /\ HostSlots(cfg) \in Nat
      BY <1>2, SlotsNeededType, ConfigFacts
    <3> QED
      BY <1>3, <1>5, <3>1, MaxSlotsAssumption DEF EnoughSlots
  <2>2. toDev' = toDev /\ Table(hparams')
    BY <1>1, <1>2, <1>5 DEF wire
  <2> QED
    BY <1>5, <2>1, <2>2, GivesUp
<1> QED
  BY <1>4, <1>5 DEF ParamsBrom

(* The payload is sent with the host's parameters, or the device refuses.  *)
LEMMA SendPayloadIInv ==
  ASSUME IInv,
         NEW op, NEW which, NEW addr, SendPayload(op, which, addr),
         \/ op = "payload_brom" /\ which = "brom"
         \/ op = "payload_pl" /\ which = "pl"
  PROVE  IInv'
<1>1. /\ hstat = "running" /\ Here.op = op /\ SlotsInv /\ HostInv /\ TalkInv
      /\ UNCHANGED <<wire, hparams>>
  BY DEF SendPayload, At, IInv
<1>2. \/ which = "brom" /\ Lbl.at = "rom" /\ Then.at = "sentB"
      \/ which = "pl" /\ Lbl.at = "pl" /\ Then.at = "sentP"
  BY <1>1, Now DEF Placed
<1>3. cfg \in Configs /\ Table(hparams) /\ BootInv /\ abandoned = FALSE
  BY <1>1, <1>2 DEF SlotsInv, TalkInv, Boots, Ons
<1>4. CASE LoadPayload(which, addr, hparams) /\ Advance /\ UNCHANGED place
  <2>1. /\ phase' = "app" /\ stage' = which /\ params' = hparams
        /\ areas' = [image |-> NoRange, stack |-> NoRange, heap |-> NoRange]
    BY <1>4 DEF LoadPayload
  <2>2. /\ cfg' = cfg /\ hstat' \in {"running", "ok"} /\ waiting' = FALSE
        /\ abandoned' = FALSE /\ (hstat' = "running" => Lbl' = Then)
    BY <1>1, <1>3, <1>4, Advances
  <2>3. SlotsInv'
    BY <1>1, <1>3, <2>1, <2>2 DEF SlotsInv
  <2>4. HostInv'
    <3>1. place' \in [{"bootarg", "bootimg"} -> Int]
      BY <1>1, <1>4 DEF HostInv
    <3>2. Here.op \notin {"main", "params_brom", "params_pl"}
      BY <1>1
    <3> QED
      BY <1>1, <1>4, <3>1, <3>2, HostGoesOn
  <2>5. TalkInv'
    <3> SUFFICES ASSUME hstat' = "running" PROVE TalkInv'
      BY DEF TalkInv
    <3>1. Len(hparams.blacklist) <= HostSlots(cfg) /\ (Lbl.at = "pl" => hparams.memory = Dram)
      BY <1>1 DEF HostInv
    <3>2. Lbl' = Then
      BY <2>2
    <3>3. SetUp(Lbl.at)'
      BY <1>2, <2>1, <3>1, <3>2 DEF SetUp
    <3>4. toDev' = <<>> /\ toHost' = <<>>
      BY <1>1, <1>3 DEF BootInv, wire
    <3>5. DOMAIN areas' = {"image", "stack", "heap"} /\ areas'.heap = NoRange
      BY <2>1
    <3>6. Len(params'.blacklist) <= HostSlots(cfg')
      BY <2>1, <2>2, <3>1
    <3>7. SentInv'
      BY <2>1, <2>2, <3>3, <3>4, <3>5, <3>6 DEF SentInv
    <3> QED
      BY <1>2, <2>2, <3>2, <3>7 DEF TalkInv, Boots, Sents, Ons
  <2>6. HaltsOnlyForLack' /\ FailInv'
    BY <2>1, <2>2 DEF HaltsOnlyForLack, FailInv
  <2>7. HelloInv'
    BY <1>1, <1>3 DEF HelloInv, BootInv, wire
  <2> QED
    BY <2>3, <2>4, <2>5, <2>6, <2>7 DEF IInv
<1>5. CASE Fail("payload") /\ UNCHANGED dev
  <2>1. toDev' = toDev /\ Table(hparams')
    BY <1>1, <1>3 DEF wire
  <2> QED
    BY <1>5, <2>1, GivesUp DEF Outside
<1> QED
  BY <1>4, <1>5 DEF SendPayload

LEMMA OpenPortIInv ==
  ASSUME IInv, OpenPort
  PROVE  IInv'
<1>1. /\ hstat = "running" /\ Here.op = "open_port" /\ SlotsInv /\ HostInv /\ TalkInv
      /\ UNCHANGED <<wire, hparams, place, dev>>
  BY DEF OpenPort, At, IInv
<1>2. Lbl.at = "gone" /\ Then.at = "back"
  BY <1>1, Now DEF Placed
<1>3. GoneInv /\ abandoned = FALSE /\ Table(hparams') /\ toDev' = toDev /\ toHost' = toHost
  BY <1>1, <1>2 DEF TalkInv, Ons, SlotsInv, wire
<1>4. CASE phase = "preloader" /\ Advance
  <2>1. /\ cfg' = cfg /\ hstat' \in {"running", "ok"} /\ waiting' = FALSE
        /\ abandoned' = FALSE /\ (hstat' = "running" => Lbl' = Then)
    BY <1>1, <1>3, <1>4, Advances
  <2>2. HostInv'
    <3>1. place' \in [{"bootarg", "bootimg"} -> Int]
      BY <1>1 DEF HostInv
    <3>2. Here.op \notin {"main", "params_brom", "params_pl"} /\ hparams' = hparams
      BY <1>1
    <3> QED
      BY <1>1, <1>4, <3>1, <3>2, HostGoesOn
  <2>3. toDev = <<>> /\ toHost = <<>>
    BY <1>3, <1>4 DEF GoneInv, Carries0
  <2>4. BootInv'
    BY <1>1, <1>3, <1>4, <2>1, <2>3 DEF BootInv, dev
  <2>5. TalkInv'
    BY <1>2, <2>1, <2>4 DEF TalkInv, Boots, Sents, Ons
  <2> QED
    BY <1>1, <1>3, <2>1, <2>2, <2>5, HostSide
<1>5. CASE Fail("stale port")
  BY <1>1, <1>3, <1>5, GivesUp DEF Outside
<1> QED
  BY <1>4, <1>5 DEF OpenPort

(* The payload's Ack is read as a message and answered.                    *)
LEMMA StartIInv ==
  ASSUME IInv, Start, UNCHANGED dev
  PROVE  IInv'
<1>1. /\ hstat = "running" /\ Here.op = "start" /\ SlotsInv /\ HostInv /\ TalkInv
      /\ UNCHANGED <<hparams, place>> /\ toHost # <<>> /\ toHost' = Tail(toHost)
  BY DEF Start, At, IInv
<1>2. \/ Lbl.at = "sentB" /\ Then.at = "brom"
      \/ Lbl.at = "sentP" /\ Then.at = "fresh"
  BY <1>1, Now DEF Placed
<1>3. SentInv /\ abandoned = FALSE /\ Table(hparams')
  BY <1>1, <1>2 DEF TalkInv, Sents, Ons, SlotsInv
<1>4. toHost = <<Hi>> /\ phase = "hello" /\ toDev = <<>>
  BY <1>1, <1>3 DEF SentInv
<1>5. Head(toHost) = Hi /\ toHost' = <<>> /\ Append(toDev, Hi) = <<Hi>>
  BY <1>1, <1>4, Tuples
<1>6. Decode(MessageKinds, Head(toHost)) = "Ack"
  BY <1>5, HiFacts DEF Kind
<1>7. toDev' = <<Hi>> /\ Advance
  BY <1>5, <1>6 DEF Start, Hi
<1>8. /\ cfg' = cfg /\ hstat' \in {"running", "ok"} /\ waiting' = FALSE
      /\ abandoned' = FALSE /\ (hstat' = "running" => Lbl' = Then /\ Then.used \in Nat)
  BY <1>1, <1>3, <1>7, Advances
<1>9. HostInv'
  <2>1. place' \in [{"bootarg", "bootimg"} -> Int]
    BY <1>1 DEF HostInv
  <2>2. Here.op \notin {"main", "params_brom", "params_pl"} /\ hparams' = hparams
    BY <1>1
  <2> QED
    BY <1>1, <1>7, <2>1, <2>2, HostGoesOn
<1>10. /\ phase' = "hello" /\ stage' = stage /\ params' = params
  BY <1>4 DEF dev
<1>11. TalkInv'
  <2> SUFFICES ASSUME hstat' = "running" PROVE TalkInv'
    BY DEF TalkInv
  <2>1. Lbl' = Then /\ Then.used \in Nat
    BY <1>8
  <2>2. SetUp(Lbl.at)'
    BY <1>2, <1>3, <1>10, <2>1 DEF SentInv, SetUp
  <2>3. Served(Lbl)'
    <3> DEFINE h == HostSlots(cfg)
               n == Len(params.blacklist)
    <3>1. h \in Nat /\ n \in Nat /\ n <= h + 3
      BY <1>1, <1>3, <1>4, ConfigFacts, AppendKeeps DEF SlotsInv, Table, SentInv
    <3>2. n <= h + 3 + Then.used
      <4> HIDE DEF h, n
      <4> QED
        BY <2>1, <3>1
    <3>3. Told(Lbl.at)'
      BY <1>2, <2>1 DEF Told
    <3> QED
      BY <1>8, <1>10, <2>1, <3>2, <3>3 DEF Served
  <2>4. Rest'
    BY <1>5, <1>7, <1>8, <1>10, <2>3 DEF Rest, Carries0
  <2>5. OnInv'
    BY <1>2, <1>8, <1>10, <2>1, <2>2, <2>4 DEF OnInv, Up
  <2> QED
    BY <1>2, <1>8, <2>1, <2>5 DEF TalkInv, Boots, Sents, Ons
<1>12. HelloInv'
  <2>1. Head(<<Hi>>) = Hi
    BY Tuples
  <2> QED
    BY <1>7, <2>1, HiFacts DEF HelloInv
<1>13. SlotsInv' /\ HaltsOnlyForLack' /\ FailInv'
  BY <1>1, <1>3, <1>8, <1>10 DEF SlotsInv, HaltsOnlyForLack, FailInv
<1> QED
  BY <1>9, <1>11, <1>12, <1>13 DEF IInv

(* The steps that have a payload to talk to.                               *)
Talks == {"set_pl", "set_lk", "hook", "reserve", "alloc", "upload", "jump", "repl"}

LEMMA OnAt ==
  ASSUME IInv, hstat = "running", Here.op \in Talks \cup {"any_input", "mkbootimg"}
  PROVE  /\ SlotsInv /\ HostInv /\ TalkInv /\ Table(hparams)
         /\ Lbl.at \in Ons /\ OnInv
         /\ Here.op # "repl" => abandoned = FALSE /\ (Rest \/ Asked \/ Answered \/ Lost)
<1>1. SlotsInv /\ HostInv /\ TalkInv
  BY DEF IInv
<1>2. Lbl.at \in Ons
  BY <1>1, Now DEF Placed, Ons, Talks
<1>3. OnInv
  BY <1>1, <1>2 DEF TalkInv
<1> QED
  BY <1>1, <1>2, <1>3 DEF OnInv, SlotsInv

(* A request goes out.                                                     *)
LEMMA SendIInv ==
  ASSUME IInv, hstat = "running", Here.op \in Talks, UNCHANGED <<dev, cmd>>,
         NEW m, NEW d, m.re = req + 1, Meant(m),
         \/ Kind(m) = "Write" /\ Send(<<m, d>>)
         \/ Kind(m) # "Write" /\ Send(<<m>>)
  PROVE  IInv'
<1>1. /\ SlotsInv /\ HostInv /\ TalkInv /\ Lbl.at \in Ons /\ OnInv /\ Table(hparams)
  BY OnAt
<1>2. /\ ~ waiting /\ waiting' = TRUE /\ req' = req + 1 /\ toHost' = toHost
      /\ cfg' = cfg /\ hstat' = hstat /\ ip' = ip /\ place' = place /\ hparams' = hparams
      /\ abandoned' = abandoned /\ cmd' = cmd
      /\ \/ Kind(m) = "Write" /\ toDev' = toDev \o <<m, d>>
         \/ Kind(m) # "Write" /\ toDev' = toDev \o <<m>>
  BY DEF Send
<1>3. /\ phase' = phase /\ stage' = stage /\ params' = params /\ plParams' = plParams
      /\ lkParams' = lkParams
  BY DEF dev
<1>4. Lbl' = Lbl /\ Here' = Here
  BY <1>2, SameHost
<1>5. HostInv'
  BY <1>1, <1>2, HostStays DEF HostInv
<1>6. SetUp(Lbl.at)'
  BY <1>1, <1>3, <1>4 DEF OnInv, SetUp
<1>7. Here.op \notin Silent
  BY DEF Talks, Silent
<1>8. ASSUME abandoned = FALSE PROVE Asked'
  <2>1. Rest
    BY <1>1, <1>2, <1>8 DEF OnInv, Asked, Answered, Lost
  <2>2. Served(Lbl)'
    BY <1>2, <1>3, <1>4, <2>1 DEF Rest, Served, Told
  <2>3. Meant(m)'
    <3>1. Meant(m)' = Meant(m)
      BY <1>2, <1>4 DEF Meant, Length, Addr, BootimgAddr
    <3> QED
      BY <3>1
  <2>4. toDev = IF phase = "hello" THEN <<Hi>> ELSE <<>>
    BY <2>1 DEF Rest, Carries0
  <2>5. /\ <<Hi>> \o <<m>> = <<Hi, m>> /\ <<>> \o <<m>> = <<m>>
        /\ <<Hi>> \o <<m, d>> = <<Hi, m, d>> /\ <<>> \o <<m, d>> = <<m, d>>
    BY Tuples
  <2>6. Kind(m) = "Write" => Carries2(m, d)'
    BY <1>2, <1>3, <2>4, <2>5 DEF Carries2
  <2>7. Kind(m) # "Write" => Carries1(m)'
    BY <1>2, <1>3, <2>4, <2>5 DEF Carries1
  <2>8. Request'
    BY <1>2, <2>3, <2>6, <2>7 DEF Request
  <2> QED
    BY <1>2, <1>3, <2>1, <2>2, <2>8 DEF Asked, Rest
<1>9. OnInv'
  BY <1>1, <1>2, <1>3, <1>4, <1>6, <1>7, <1>8 DEF OnInv
<1>10. TalkInv'
  BY <1>1, <1>2, <1>4, <1>9 DEF TalkInv, Boots, Sents, Ons
<1> QED
  BY <1>1, <1>2, <1>5, <1>10, HostSide

(* One of the requests that is a single message.                           *)
LEMMA AskIInv ==
  ASSUME IInv, hstat = "running", Here.op \in Talks, UNCHANGED dev,
         NEW k \in AllKinds \ {"Write"}, NEW arg, Ask(k, arg),
         Meant(Message(k, arg, req + 1))
  PROVE  IInv'
<1> DEFINE m == Message(k, arg, req + 1)
<1>1. Kind(m) = k /\ m.re = req + 1
  BY MessageFields
<1>2. Send(<<m>>) /\ UNCHANGED cmd
  BY DEF Ask
<1> HIDE DEF m
<1>3. Kind(m) # "Write" /\ Meant(m)
  BY <1>1 DEF m
<1> QED
  BY <1>1, <1>2, <1>3, SendIInv

LEMMA RequestsIInv ==
  ASSUME IInv, UNCHANGED dev,
         SetPreloaderParams \/ SetLkParams \/ Hook \/ Reserve \/ Alloc \/ Jump
  PROVE  IInv'
<1> DEFINE M(k, arg) == Message(k, arg, req + 1)
<1>0. \A k \in AllKinds : \A arg : Kind(M(k, arg)) = k /\ M(k, arg).arg = arg
  BY MessageFields
<1> HIDE DEF M
<1>1. CASE SetPreloaderParams
  <2> DEFINE a == [type |-> "Preloader", ptrs |-> <<PlAddr>>]
  <2>1. hstat = "running" /\ Here.op = "set_pl" /\ Ask("SetParams", a)
    BY <1>1 DEF SetPreloaderParams, At
  <2>2. Meant(M("SetParams", a))
    BY <1>0, <2>1 DEF Meant, AllKinds
  <2> QED
    BY <2>1, <2>2, AskIInv DEF Talks, AllKinds, M
<1>2. CASE SetLkParams
  <2> DEFINE a == [type |-> "LK", ptrs |-> <<LkAddr + HookOff, LkAddr, BootimgAddr>>]
  <2>1. hstat = "running" /\ Here.op = "set_lk" /\ Ask("SetParams", a)
    BY <1>2 DEF SetLkParams, At
  <2>2. Meant(M("SetParams", a))
    BY <1>0, <2>1 DEF Meant, AllKinds
  <2> QED
    BY <2>1, <2>2, AskIInv DEF Talks, AllKinds, M
<1>3. CASE Hook
  <2> DEFINE a == [id |-> "MtPartGenericRead"]
  <2>1. hstat = "running" /\ Here.op = "hook" /\ Ask("Hook", a)
    BY <1>3 DEF Hook, At
  <2>2. Meant(M("Hook", a))
    BY <1>0, <2>1 DEF Meant, AllKinds
  <2> QED
    BY <2>1, <2>2, AskIInv DEF Talks, AllKinds, M
<1>4. CASE Reserve
  <2> DEFINE a == Reserved(Here.obj)
  <2>1. hstat = "running" /\ Here.op = "reserve" /\ Ask("BlacklistRange", a)
    BY <1>4 DEF Reserve, At
  <2> HIDE DEF a
  <2>2. Meant(M("BlacklistRange", a))
    BY <1>0, <2>1 DEF Meant, AllKinds
  <2> QED
    BY <2>1, <2>2, AskIInv DEF Talks, AllKinds, M
<1>5. CASE Alloc
  <2> DEFINE a == [size |-> Length(Here.obj)]
  <2>1. hstat = "running" /\ Here.op = "alloc" /\ Ask("GetFreeRange", a)
    BY <1>5 DEF Alloc, At
  <2>2. Meant(M("GetFreeRange", a))
    BY <1>0, <2>1 DEF Meant, AllKinds
  <2> QED
    BY <2>1, <2>2, AskIInv DEF Talks, AllKinds, M
<1>6. CASE Jump
  <2> DEFINE a == IF cfg.lk /\ Here.obj[1] # "preloader"
                    THEN [addr |-> Addr(Here.obj), r0 |-> place["bootarg"], r1 |-> BootargLen]
                    ELSE [addr |-> Addr(Here.obj), r0 |-> 0, r1 |-> 0]
  <2>1. hstat = "running" /\ Here.op = "jump" /\ Ask("Jump", a)
    BY <1>6 DEF Jump, At
  <2>2. a.addr = Addr(Here.obj)
    OBVIOUS
  <2> HIDE DEF a
  <2>3. Meant(M("Jump", a))
    BY <1>0, <2>1, <2>2 DEF Meant, AllKinds
  <2> QED
    BY <2>1, <2>3, AskIInv DEF Talks, AllKinds, M
<1> QED
  BY <1>1, <1>2, <1>3, <1>4, <1>5, <1>6

LEMMA UploadIInv ==
  ASSUME IInv, Upload, UNCHANGED dev
  PROVE  IInv'
<1>1. hstat = "running" /\ Here.op = "upload" /\ UNCHANGED cmd
  BY DEF Upload, At
<1> DEFINE n == ChunkLen(Length(Here.obj))
           m == Message("Write", [addr |-> Addr(Here.obj) + off, size |-> n], req + 1)
           d == Data(Here.obj, off, n, req + 1)
<1>2. Kind(m) = "Write" /\ m.re = req + 1
  BY MessageFields DEF AllKinds
<1>3. Send(<<m, d>>)
  BY DEF Upload, WriteChunk
<1> HIDE DEF m, d
<1>4. Meant(m)
  BY <1>1, <1>2 DEF Meant
<1> QED
  BY <1>1, <1>2, <1>3, <1>4, SendIInv DEF Talks

LEMMA ReplSendIInv ==
  ASSUME IInv, ReplSend, UNCHANGED dev
  PROVE  IInv'
<1>1. hstat = "running" /\ Here.op = "repl" /\ UNCHANGED cmd /\ cmd # NoCmd
  BY DEF ReplSend, At
<1>2. cmd.op \in {"Ack", "Read", "Write", "FlushCache", "Jump", "Reset"}
  BY <1>1, ReplAssumption DEF IInv, HostInv
<1>3. CASE /\ cmd.op = "Write"
           /\ WriteChunk(cmd.addr, <<"repl", cmds>>, cmd.size)
  <2> DEFINE n == ChunkLen(cmd.size)
             m == Message("Write", [addr |-> cmd.addr + off, size |-> n], req + 1)
             d == Data(<<"repl", cmds>>, off, n, req + 1)
  <2>1. Kind(m) = "Write" /\ m.re = req + 1
    BY MessageFields DEF AllKinds
  <2>2. Send(<<m, d>>)
    BY <1>3 DEF WriteChunk
  <2> HIDE DEF m, d
  <2>3. Meant(m)
    BY <1>1, <1>3, <2>1 DEF Meant
  <2> QED
    BY <1>1, <2>1, <2>2, <2>3, SendIInv DEF Talks
<1>4. CASE /\ cmd.op = "Read"
           /\ Send(<<Message("Read", [addr |-> cmd.addr + off, size |-> ChunkLen(cmd.size)],
                             req + 1)>>)
  <2> DEFINE a == [addr |-> cmd.addr + off, size |-> ChunkLen(cmd.size)]
             m == Message("Read", a, req + 1)
  <2>1. Kind(m) = "Read" /\ m.re = req + 1
    BY MessageFields DEF AllKinds
  <2>2. Send(<<m>>)
    BY <1>4
  <2> HIDE DEF m
  <2>3. Meant(m)
    BY <1>1, <1>4, <2>1 DEF Meant
  <2> QED
    BY <1>1, <2>1, <2>2, <2>3, SendIInv DEF Talks
<1>5. CASE /\ cmd.op \notin Transfers
           /\ Send(<<Message(cmd.op, [addr |-> cmd.addr, r0 |-> 0, r1 |-> 0], req + 1)>>)
  <2> DEFINE a == [addr |-> cmd.addr, r0 |-> 0, r1 |-> 0]
             m == Message(cmd.op, a, req + 1)
  <2>1. Kind(m) = cmd.op /\ m.re = req + 1
    BY <1>2, MessageFields DEF AllKinds
  <2>2. Send(<<m>>)
    BY <1>5
  <2> HIDE DEF m
  <2>3. Meant(m) /\ Kind(m) # "Write"
    BY <1>1, <1>2, <1>5, <2>1 DEF Meant, Transfers
  <2> QED
    BY <1>1, <2>1, <2>2, <2>3, SendIInv DEF Talks
<1> QED
  BY <1>3, <1>4, <1>5 DEF ReplSend

(* A step of the boot is done, and nothing is on the wire.                 *)
LEMMA OnGoesOn ==
  ASSUME IInv, hstat = "running", Lbl.at \in Ons, Advance, UNCHANGED <<dev, hparams, toDev>>,
         Here.op \in (Talks \ {"repl"}) \cup Silent,
         abandoned = FALSE, Carries0, toHost' = <<>>, phase # "preloader", Served(Then),
         Then.at \notin {"brom", "fresh"} => phase # "hello",
         place' \in [{"bootarg", "bootimg"} -> Int],
         Then.at = "imaged" => place'["bootimg"] # 0
  PROVE  IInv'
<1>1. SlotsInv /\ HostInv /\ TalkInv /\ Table(hparams)
  BY DEF IInv, SlotsInv
<1>2. OnInv /\ phase \in Up /\ SetUp(Lbl.at)
  BY <1>1 DEF TalkInv, OnInv
<1>3. /\ phase' = phase /\ stage' = stage /\ params' = params /\ plParams' = plParams
      /\ lkParams' = lkParams
  BY DEF dev
<1>4. /\ cfg' = cfg /\ hstat' \in {"running", "ok"} /\ waiting' = FALSE
      /\ abandoned' = FALSE /\ (hstat' = "running" => Lbl' = Then)
  BY <1>1, Advances
<1>5. HostInv'
  <2>1. Here.op \notin {"main", "params_brom", "params_pl"}
    BY DEF Talks, Silent
  <2> QED
    BY <1>1, <2>1, HostGoesOn
<1>6. /\ Then.at \in Ons \cup {"gone"}
      /\ Then.at = "brom" => Lbl.at = "brom"
      /\ Then.at \in {"fresh", "ready", "imaged", "armed"} =>
           Lbl.at \in {"fresh", "ready", "imaged", "armed"}
  BY <1>1, Now DEF Placed, Talks, Silent, Ons
<1>7. TalkInv'
  <2> SUFFICES ASSUME hstat' = "running" PROVE TalkInv'
    BY DEF TalkInv
  <2>1. Lbl' = Then
    BY <1>4
  <2>2. Carries0'
    BY <1>3 DEF Carries0
  <2>3. CASE Then.at = "gone"
    <3>1. GoneInv'
      BY <1>2, <1>3, <1>4, <2>2 DEF GoneInv
    <3> QED
      BY <1>4, <2>1, <2>3, <3>1 DEF TalkInv, Boots, Sents, Ons
  <2>4. CASE Then.at \in Ons
    <3>1. SetUp(Lbl.at)'
      BY <1>2, <1>3, <1>6, <2>1, <2>4 DEF SetUp, Ons
    <3>2. Here.op # "repl"
      BY DEF Talks, Silent
    <3>3. Served(Lbl)'
      BY <1>3, <1>4, <2>1, <3>2 DEF Served, Told
    <3>4. Rest'
      BY <1>3, <1>4, <2>2, <3>3 DEF Rest
    <3>5. OnInv'
      BY <1>2, <1>3, <1>4, <2>1, <3>1, <3>4 DEF OnInv
    <3> QED
      BY <1>4, <2>1, <2>4, <3>5 DEF TalkInv, Boots, Sents, Ons
  <2> QED
    BY <1>6, <2>3, <2>4
<1> QED
  BY <1>1, <1>4, <1>5, <1>7, HostSide

(* Nothing is on its way when a step that does not talk ends.              *)
LEMMA RestGoesOn ==
  ASSUME IInv, hstat = "running", Lbl.at \in Ons, Advance,
         UNCHANGED <<dev, hparams, place, wire>>,
         Here.op \in {"upload"} \cup Silent, ~ waiting
  PROVE  IInv'
<1>1. SlotsInv /\ HostInv /\ TalkInv
  BY DEF IInv
<1>2. OnInv
  BY <1>1 DEF TalkInv
<1>3. Here.op # "repl"
  BY DEF Silent
<1>4. abandoned = FALSE /\ Rest
  BY <1>2, <1>3 DEF OnInv, Asked, Answered, Lost
<1>5. Then.at = Lbl.at /\ Then.used = Lbl.used
  BY <1>1, Now DEF Placed, Silent, Uses, Ons
<1>6. Served(Then)
  BY <1>4, <1>5 DEF Rest, Served
<1>7. place' \in [{"bootarg", "bootimg"} -> Int]
  BY <1>1 DEF HostInv
<1>8. /\ Then.at \notin {"brom", "fresh"} => phase # "hello"
      /\ Then.at = "imaged" => place'["bootimg"] # 0
  BY <1>2, <1>5 DEF OnInv
<1>9. Carries0 /\ toHost' = <<>> /\ phase # "preloader" /\ toDev' = toDev
  BY <1>4 DEF Rest, wire
<1>10. Here.op \in (Talks \ {"repl"}) \cup Silent
  BY DEF Talks, Silent
<1> QED
  BY <1>4, <1>6, <1>7, <1>8, <1>9, <1>10, OnGoesOn

LEMMA LocalWorkIInv ==
  ASSUME IInv, LocalWork, UNCHANGED dev
  PROVE  IInv'
<1>1. /\ hstat = "running" /\ Here.op \in {"mkbootimg", "extract"}
      /\ SlotsInv /\ HostInv /\ TalkInv /\ Table(hparams)
      /\ UNCHANGED <<place, hparams, wire>> /\ toDev' = toDev /\ Table(hparams')
  BY DEF LocalWork, At, IInv, SlotsInv, wire
<1>2. Lbl.at \in Ons \cup {"pl"} /\ Then.at = Lbl.at
  BY <1>1, Now DEF Placed, Ons
<1>3. CASE Fail("local")
  BY <1>1, <1>3, GivesUp DEF Outside
<1>4. CASE Advance /\ Lbl.at = "pl"
  <2>1. TalkInv'
    BY <1>1, <1>2, <1>4, BootGoesOn DEF Boots, dev
  <2>2. place' \in [{"bootarg", "bootimg"} -> Int]
    BY <1>1 DEF HostInv
  <2>3. Here.op \notin {"main", "params_brom", "params_pl"}
    BY <1>1
  <2>4. HostInv'
    BY <1>1, <1>4, <2>2, <2>3, HostGoesOn
  <2>5. cfg' = cfg /\ hstat' \in {"running", "ok"}
    BY <1>1, <1>4, Advances
  <2> QED
    BY <1>1, <2>1, <2>4, <2>5, HostSide
<1>5. CASE Advance /\ Lbl.at \in Ons
  <2>1. ~ waiting
    BY <1>1, <1>5 DEF TalkInv, OnInv, Silent
  <2> QED
    BY <1>1, <1>5, <2>1, RestGoesOn DEF Silent
<1> QED
  BY <1>2, <1>3, <1>4, <1>5 DEF LocalWork

LEMMA AnyInputIInv ==
  ASSUME IInv, AnyInput, UNCHANGED dev
  PROVE  IInv'
<1>1. /\ hstat = "running" /\ Here.op = "any_input" /\ UNCHANGED <<place, hparams, wire>>
      /\ toDev' = toDev
  BY DEF AnyInput, At, wire
<1>2. Lbl.at \in Ons /\ OnInv /\ Table(hparams')
  BY <1>1, OnAt
<1>3. CASE Fail("no binary")
  BY <1>1, <1>2, <1>3, GivesUp DEF Outside
<1>4. CASE Advance
  <2>1. ~ waiting
    BY <1>1, <1>2 DEF OnInv, Silent
  <2> QED
    BY <1>1, <1>2, <1>4, <2>1, RestGoesOn DEF Silent
<1> QED
  BY <1>3, <1>4 DEF AnyInput

LEMMA UploadDoneIInv ==
  ASSUME IInv, UploadDone, UNCHANGED dev
  PROVE  IInv'
<1>1. /\ hstat = "running" /\ Here.op = "upload" /\ UNCHANGED <<place, hparams, wire>>
      /\ ~ waiting /\ Advance
  BY DEF UploadDone, At
<1>2. Lbl.at \in Ons
  BY <1>1, OnAt DEF Talks
<1> QED
  BY <1>1, <1>2, RestGoesOn

(* What the host reads is the answer to its request.                       *)
LEMMA ReadAnswer ==
  ASSUME IInv, hstat = "running", Here.op \in Talks \ {"repl"}, NEW kind, Read(kind)
  PROVE  /\ abandoned = FALSE /\ toDev = <<>> /\ toDev' = toDev /\ toHost' = <<>>
         /\ phase \notin {"preloader", "hello"} /\ phase \in Up
         /\ Fitting(Head(toHost)) /\ AKind(Head(toHost)) = kind
<1>1. waiting /\ toHost # <<>> /\ AKind(Head(toHost)) = kind /\ toHost' = Tail(toHost)
      /\ toDev' = toDev
  BY DEF Read, AKind
<1>2. Here.op # "repl" /\ Here.op \in Talks
  OBVIOUS
<1>3. OnInv /\ abandoned = FALSE /\ (Rest \/ Asked \/ Answered \/ Lost)
  BY <1>2, OnAt
<1>4. Answered
  BY <1>1, <1>3 DEF Rest, Asked, Lost
<1>5. PICK a : toHost = <<a>> /\ Fitting(a)
  BY <1>2, <1>4 DEF Answered, Answer, Reading
<1>6. Head(toHost) = a /\ Tail(toHost) = <<>>
  BY <1>5, Tuples
<1> QED
  BY <1>1, <1>3, <1>4, <1>5, <1>6 DEF Answered, OnInv

(* The answer is taken and the step done.                                  *)
LEMMA ReadGoesOn ==
  ASSUME IInv, hstat = "running", Here.op \in Talks \ {"repl"}, NEW kind, Read(kind),
         Advance, UNCHANGED <<dev, hparams>>, Here.op \in AckSteps => kind = "Ack",
         place' \in [{"bootarg", "bootimg"} -> Int],
         Then.at = "imaged" => place'["bootimg"] # 0
  PROVE  IInv'
<1>1. /\ abandoned = FALSE /\ toDev = <<>> /\ toDev' = toDev /\ toHost' = <<>>
      /\ phase \notin {"preloader", "hello"}
      /\ Fitting(Head(toHost)) /\ AKind(Head(toHost)) = kind
  BY ReadAnswer
<1>2. Served(Then)
  BY <1>1 DEF Fitting
<1>3. Carries0
  BY <1>1 DEF Carries0
<1>4. Lbl.at \in Ons
  BY OnAt
<1>5. Here.op \in (Talks \ {"repl"}) \cup Silent
  OBVIOUS
<1> QED
  BY <1>1, <1>2, <1>3, <1>4, <1>5, OnGoesOn

LEMMA ReadAckIInv ==
  ASSUME IInv, ReadAck, UNCHANGED dev
  PROVE  IInv'
<1>1. /\ hstat = "running" /\ Here.op \in AckSteps /\ UNCHANGED hparams
      /\ Here.op \in Talks \ {"repl"}
  BY DEF ReadAck, At, AckSteps, Talks
<1>2. SlotsInv /\ HostInv /\ TalkInv /\ Table(hparams') /\ Lbl.at \in Ons /\ OnInv
  BY <1>1, OnAt
<1>3. CASE Read("Ack") /\ Advance /\ UNCHANGED place
  <2>1. place' \in [{"bootarg", "bootimg"} -> Int]
    BY <1>1, <1>2, <1>3 DEF HostInv
  <2>2. Then.at = "imaged" => Lbl.at = "imaged"
    BY <1>1, <1>2, Now DEF Placed, AckSteps
  <2>3. Then.at = "imaged" => place'["bootimg"] # 0
    BY <1>2, <1>3, <2>2 DEF OnInv
  <2> QED
    BY <1>1, <1>3, <2>1, <2>3, ReadGoesOn
<1>4. CASE (\E kind \in Kinds \ {"Ack"} : Read(kind)) /\ Fail("nack")
  <2>1. PICK kind \in Kinds \ {"Ack"} : Read(kind)
    BY <1>4
  <2>2. Fitting(Head(toHost)) /\ AKind(Head(toHost)) = kind /\ toDev' = toDev
    BY <1>1, <2>1, ReadAnswer
  <2>3. ~ EnoughSlots
    BY <1>1, <2>1, <2>2 DEF Fitting
  <2> QED
    BY <1>2, <1>4, <2>2, <2>3, GivesUp
<1> QED
  BY <1>3, <1>4 DEF ReadAck

(* The host stays at its step, with nothing on the wire, or goes on after  *)
(* a transfer that failed.                                                 *)
LEMMA OnRests ==
  ASSUME IInv, hstat = "running", Lbl.at \in Ons,
         UNCHANGED <<dev, cfg, ip, place, hparams, hstat>>,
         cmd' \in ReplCommands \cup {NoCmd},
         \/ abandoned' = TRUE /\ Here.op = "repl"
         \/ /\ abandoned' = FALSE /\ waiting' = FALSE /\ toDev' = toDev /\ Carries0
            /\ toHost' = <<>> /\ phase # "preloader" /\ Served(Lbl)
  PROVE  IInv'
<1>1. SlotsInv /\ HostInv /\ TalkInv /\ Table(hparams)
  BY DEF IInv, SlotsInv
<1>2. OnInv
  BY <1>1 DEF TalkInv
<1>3. /\ phase' = phase /\ stage' = stage /\ params' = params /\ plParams' = plParams
      /\ lkParams' = lkParams /\ cfg' = cfg /\ ip' = ip /\ hstat' = hstat /\ place' = place
  BY DEF dev
<1>4. Lbl' = Lbl /\ Here' = Here
  BY <1>3, SameHost
<1>5. HostInv'
  BY <1>1, <1>3, HostStays
<1>6. SetUp(Lbl.at)'
  BY <1>2, <1>3, <1>4 DEF OnInv, SetUp
<1>7. Served(Lbl) => Served(Lbl)'
  BY <1>3, <1>4 DEF Served, Told
<1>8. \/ abandoned' = TRUE /\ Here'.op = "repl"
      \/ abandoned' = FALSE /\ Rest'
  BY <1>3, <1>4, <1>7 DEF Rest, Carries0
<1>9. OnInv'
  BY <1>2, <1>3, <1>4, <1>6, <1>8 DEF OnInv, Rest, Silent
<1>10. TalkInv'
  BY <1>3, <1>4, <1>9 DEF TalkInv, Boots, Sents, Ons
<1> QED
  BY <1>1, <1>3, <1>5, <1>10, HostSide

LEMMA ReadWrittenIInv ==
  ASSUME IInv, ReadWritten, UNCHANGED dev
  PROVE  IInv'
<1>1. /\ hstat = "running" /\ Here.op = "upload" /\ Here.op \in Talks \ {"repl"}
      /\ waiting' = FALSE /\ UNCHANGED <<cfg, hstat, ip, place, hparams, cmd, abandoned>>
  BY DEF ReadWritten, At, Talks
<1>2. SlotsInv /\ HostInv /\ TalkInv /\ Lbl.at \in Ons
  BY <1>1, OnAt
<1>3. PICK kind : Read(kind)
  BY DEF ReadWritten
<1>4. /\ abandoned = FALSE /\ toDev = <<>> /\ toDev' = toDev /\ toHost' = <<>>
      /\ phase \notin {"preloader", "hello"} /\ Fitting(Head(toHost))
  BY <1>1, <1>3, ReadAnswer
<1>5. Then.at = Lbl.at /\ Then.used = Lbl.used
  BY <1>1, <1>2, Now DEF Placed, Uses
<1>6. Served(Lbl)
  BY <1>1, <1>4, <1>5 DEF Fitting, Served, AckSteps
<1>7. Carries0
  BY <1>4 DEF Carries0
<1>8. cmd' \in ReplCommands \cup {NoCmd}
  BY <1>1, <1>2 DEF HostInv
<1> QED
  BY <1>1, <1>2, <1>4, <1>6, <1>7, <1>8, OnRests

(* The range the device names for the boot argument or boot.img.           *)
LEMMA RangeNamed ==
  ASSUME IInv, hstat = "running", Here.op = "alloc"
  PROVE  LET r == Free(Length(Here.obj))
         IN  /\ Here.obj[1] \in {"bootarg", "bootimg"}
             /\ Then.at = "imaged" => Here.obj[1] = "bootimg"
             /\ r = NoRange <=> r.start = NoAddr
             /\ r # NoRange => r.start \in Int /\ r.start # 0
<1> DEFINE r == Free(Length(Here.obj))
<1>1. SlotsInv /\ HostInv /\ OnInv
  BY OnAt DEF Talks
<1>2. /\ Lbl.at = "ready"
      /\ \/ Then.at = "ready" /\ Here.obj[1] = "bootarg"
         \/ Then.at = "imaged" /\ Here.obj[1] = "bootimg"
  BY <1>1, Now DEF Placed
<1>3. params.memory = Dram
  BY <1>1, <1>2 DEF OnInv, SetUp
<1>4. Length(Here.obj) \in Nat
  <2>1. cfg \in Configs
    BY <1>1 DEF SlotsInv
  <2> QED
    BY <1>2, <2>1, ConfigsAssumption, LayoutAssumption DEF Length
<1>5. r = FindUnusedRange(Dram, params.blacklist, Length(Here.obj))
  BY <1>3 DEF Free
<1> HIDE DEF r
<1>6. Dram \in MemoryRange /\ Dram.end < U32Max /\ Dram.start # 0
  BY LayoutAssumption, NonZeroAssumption
<1>7. r # NoRange => r \in MemoryRange /\ Dram.start <= r.start
  BY <1>4, <1>5, <1>6, FoundRangeUsable
<1>8. r # NoRange => r.start \in Int /\ r.start # 0 /\ r.start # -1
  BY <1>6, <1>7, U32MaxAssumption DEF MemoryRange, U32
<1>9. NoRange.start = NoAddr /\ NoAddr = -1
  BY DEF NoRange, NoAddr
<1> QED
  BY <1>2, <1>8, <1>9 DEF r

LEMMA ReadRangeIInv ==
  ASSUME IInv, ReadRange, UNCHANGED dev
  PROVE  IInv'
<1>1. /\ hstat = "running" /\ Here.op = "alloc" /\ Here.op \in Talks \ {"repl"}
      /\ UNCHANGED hparams
  BY DEF ReadRange, At, Talks
<1>2. HostInv /\ Table(hparams')
  BY <1>1, OnAt
<1>3. PICK kind \in Kinds :
        /\ Read(kind)
        /\ \/ /\ kind = "Range" /\ Head(toHost).arg.start # NoAddr
              /\ place' = [place EXCEPT ![Here.obj[1]] = Head(toHost).arg.start]
              /\ Advance
           \/ /\ kind # "Range" \/ Head(toHost).arg.start = NoAddr
              /\ Fail("no range")
  BY DEF ReadRange
<1>4. /\ toDev = <<>> /\ toDev' = toDev /\ phase # "hello" /\ phase \in Up
      /\ Fitting(Head(toHost)) /\ AKind(Head(toHost)) = kind
  BY <1>1, <1>3, ReadAnswer
<1> DEFINE r == Free(Length(Here.obj))
           a == Head(toHost).arg.start
<1>5. kind = "Range" /\ a = r.start
  BY <1>1, <1>4 DEF Fitting
<1>6. /\ Here.obj[1] \in {"bootarg", "bootimg"}
      /\ Then.at = "imaged" => Here.obj[1] = "bootimg"
      /\ r = NoRange <=> r.start = NoAddr
      /\ r # NoRange => r.start \in Int /\ r.start # 0
  BY <1>1, RangeNamed
<1> HIDE DEF r
<1>7. CASE /\ a # NoAddr /\ place' = [place EXCEPT ![Here.obj[1]] = a]
           /\ Advance
  <2>1. a \in Int /\ a # 0
    BY <1>5, <1>6, <1>7
  <2>2. place \in [{"bootarg", "bootimg"} -> Int]
    BY <1>1, <1>2 DEF HostInv
  <2> HIDE DEF a
  <2>3. place' \in [{"bootarg", "bootimg"} -> Int]
    BY <1>6, <1>7, <2>1, <2>2
  <2>4. Then.at = "imaged" => place'["bootimg"] # 0
    BY <1>6, <1>7, <2>1, <2>2
  <2>5. Here.op \notin AckSteps
    BY <1>1 DEF AckSteps
  <2> QED
    BY <1>1, <1>3, <1>7, <2>3, <2>4, <2>5, ReadGoesOn
<1>8. CASE a = NoAddr /\ Fail("no range")
  <2>1. Free(Length(Here.obj)) = NoRange
    BY <1>5, <1>6, <1>8 DEF r
  <2>2. phase \notin {"app", "stack", "main", "hello"}
    BY <1>4 DEF Up
  <2> QED
    BY <1>2, <1>4, <1>8, <2>1, <2>2, GivesUp
<1> QED
  BY <1>3, <1>5, <1>7, <1>8

LEMMA ReadJumpIInv ==
  ASSUME IInv, ReadJump, UNCHANGED dev
  PROVE  IInv'
<1>1. /\ hstat = "running" /\ Here.op = "jump" /\ Here.op \in Talks \ {"repl"}
      /\ UNCHANGED hparams
  BY DEF ReadJump, At, Talks
<1>2. SlotsInv /\ HostInv /\ Table(hparams')
  BY <1>1, OnAt
<1>3. PICK kind \in Kinds :
        /\ Read(kind)
        /\ IF kind = "Nack" THEN Fail("jump") ELSE Advance /\ UNCHANGED place
  BY DEF ReadJump
<1>4. toDev' = toDev /\ Fitting(Head(toHost)) /\ AKind(Head(toHost)) = kind
  BY <1>1, <1>3, ReadAnswer
<1>5. CASE kind = "Nack"
  <2>1. cfg.jump \in Returning
    BY <1>1, <1>4, <1>5 DEF Fitting
  <2>2. Fail("jump")
    BY <1>3, <1>5
  <2> QED
    BY <1>2, <1>4, <2>1, <2>2, GivesUp
<1>6. CASE kind # "Nack"
  <2>1. place' \in [{"bootarg", "bootimg"} -> Int] /\ Advance
    BY <1>1, <1>2, <1>3, <1>6 DEF HostInv
  <2>2. Then.at = "gone"
    BY <1>1, <1>2, Now DEF Placed
  <2>3. Here.op \notin AckSteps
    BY <1>1 DEF AckSteps
  <2> QED
    BY <1>1, <1>3, <2>1, <2>2, <2>3, ReadGoesOn
<1> QED
  BY <1>5, <1>6

(* The timeout of a jump is taken for success, wherever the request is.    *)
LEMMA TimeoutIInv ==
  ASSUME IInv, Timeout, UNCHANGED dev
  PROVE  IInv'
<1>1. hstat = "running" /\ UNCHANGED <<hparams, wire>> /\ toDev' = toDev /\ toHost' = toHost
      /\ Table(hparams')
  BY DEF Timeout, At, wire, IInv, SlotsInv
<1>2. CASE Fail("timeout")
  BY <1>1, <1>2, GivesUp DEF Outside
<1>3. CASE Here.op = "jump" /\ waiting /\ Advance /\ UNCHANGED place
  <2>1. /\ SlotsInv /\ HostInv /\ OnInv /\ abandoned = FALSE
        /\ Rest \/ Asked \/ Answered \/ Lost
    BY <1>1, <1>3, OnAt DEF Talks
  <2>2. Then.at = "gone"
    BY <1>1, <1>3, <2>1, Now DEF Placed
  <2>3. /\ cfg' = cfg /\ hstat' \in {"running", "ok"} /\ waiting' = FALSE
        /\ abandoned' = FALSE /\ (hstat' = "running" => Lbl' = Then)
    BY <1>1, <1>3, <2>1, Advances
  <2>4. HostInv'
    <3>1. place' \in [{"bootarg", "bootimg"} -> Int]
      BY <1>1, <1>3, <2>1 DEF HostInv
    <3>2. Here.op \notin {"main", "params_brom", "params_pl"} /\ hparams' = hparams
      BY <1>1, <1>3
    <3> QED
      BY <1>1, <1>3, <2>1, <3>1, <3>2, HostGoesOn
  <2>5. phase' = phase /\ phase \in Up
    BY <2>1 DEF dev, OnInv
  <2>6. GoneInv'
    <3>1. CASE Asked
      <4>1. PICK m : Meant(m) /\ (Kind(m) # "Write" => Carries1(m))
        BY <3>1 DEF Asked, Request
      <4>2. Carries1(m)
        BY <1>3, <4>1 DEF Meant
      <4>3. Carries1(m)'
        BY <1>1, <2>5, <4>2 DEF Carries1
      <4> QED
        BY <1>1, <2>3, <2>5, <3>1, <4>3 DEF GoneInv, Asked
    <3>2. CASE Answered
      BY <1>1, <2>3, <2>5, <3>2 DEF GoneInv, Answered, Carries0
    <3>3. CASE Lost
      BY <1>1, <2>3, <2>5, <3>3 DEF GoneInv, Lost, Carries0
    <3> QED
      BY <1>3, <2>1, <3>1, <3>2, <3>3 DEF Rest
  <2>7. TalkInv'
    BY <2>2, <2>3, <2>6 DEF TalkInv, Boots, Sents, Ons
  <2> QED
    BY <1>1, <2>3, <2>4, <2>7, HostSide
<1> QED
  BY <1>2, <1>3 DEF Timeout, At

(* The REPL.                                                               *)
LEMMA ReplAt ==
  ASSUME IInv, At({"repl"})
  PROVE  /\ hstat = "running" /\ Here.op = "repl" /\ SlotsInv /\ HostInv /\ TalkInv
         /\ Table(hparams) /\ Lbl.at \in Ons /\ OnInv /\ Served(Lbl)
         /\ Then.at = "over"
         /\ \/ abandoned = TRUE
            \/ abandoned = FALSE /\ (Rest \/ Asked \/ Answered \/ Lost)
<1>1. hstat = "running" /\ Here.op = "repl"
  BY DEF At
<1>2. SlotsInv /\ HostInv /\ TalkInv /\ Table(hparams) /\ Lbl.at \in Ons /\ OnInv
  BY <1>1, OnAt DEF Talks
<1>3. Then.at = "over"
  BY <1>1, <1>2, Now DEF Placed
<1> QED
  BY <1>1, <1>2, <1>3 DEF Served, OnInv

LEMMA PromptIInv ==
  ASSUME IInv, ReplType \/ ReplDone, UNCHANGED dev
  PROVE  IInv'
<1>1. At({"repl"}) /\ ~ waiting
  BY DEF ReplType, ReplDone, AtPrompt
<1>2. /\ UNCHANGED <<cfg, hstat, ip, waiting, place, hparams, abandoned, wire>>
      /\ cmd' \in ReplCommands \cup {NoCmd}
  BY DEF ReplType, ReplDone
<1>3. /\ hstat = "running" /\ Here.op = "repl" /\ Lbl.at \in Ons /\ Served(Lbl)
      /\ \/ abandoned = TRUE
         \/ abandoned = FALSE /\ (Rest \/ Asked \/ Answered \/ Lost)
  BY <1>1, ReplAt
<1>4. CASE abandoned = TRUE
  BY <1>2, <1>3, <1>4, OnRests
<1>5. CASE abandoned = FALSE /\ Rest
  <2>1. waiting' = FALSE /\ toDev' = toDev /\ Carries0 /\ toHost' = <<>> /\ phase # "preloader"
    BY <1>2, <1>5 DEF Rest, wire
  <2> QED
    BY <1>2, <1>3, <1>5, <2>1, OnRests
<1> QED
  BY <1>1, <1>3, <1>4, <1>5 DEF Asked, Answered, Lost

LEMMA ReplReadIInv ==
  ASSUME IInv, ReplRead, UNCHANGED dev
  PROVE  IInv'
<1>1. /\ At({"repl"}) /\ waiting /\ Len(toHost) >= AnswerLen /\ waiting' = FALSE
      /\ toHost' = SubSeq(toHost, AnswerLen + 1, Len(toHost))
      /\ UNCHANGED <<cfg, hstat, ip, place, hparams, abandoned, toDev>>
      /\ cmd' = cmd \/ cmd' = NoCmd
  BY DEF ReplRead
<1>2. /\ hstat = "running" /\ Here.op = "repl" /\ Lbl.at \in Ons /\ Served(Lbl) /\ HostInv
      /\ \/ abandoned = TRUE
         \/ abandoned = FALSE /\ (Rest \/ Asked \/ Answered \/ Lost)
  BY <1>1, ReplAt
<1>3. cmd' \in ReplCommands \cup {NoCmd}
  BY <1>1, <1>2 DEF HostInv
<1>4. CASE abandoned = TRUE
  BY <1>1, <1>2, <1>3, <1>4, OnRests
<1>5. CASE abandoned = FALSE
  <2>1. toHost # <<>>
    <3> SUFFICES ASSUME toHost = <<>> PROVE FALSE
      OBVIOUS
    <3>1. Len(toHost) = 0 /\ AnswerLen \in {1, 2}
      BY DEF AnswerLen
    <3> QED
      BY <1>1, <3>1
  <2>2. Answered
    BY <1>1, <1>2, <1>5, <2>1 DEF Rest, Asked, Lost
  <2>3. toHost' = <<>>
    <3>1. CASE cmd.op = "Read"
      <4>1. PICK m, d : toHost = <<m, d>>
        BY <1>2, <2>2, <3>1 DEF Answered, Answer, Reading
      <4>2. AnswerLen = 2 /\ Len(toHost) = 2
        BY <3>1, <4>1, Tuples DEF AnswerLen
      <4>3. toHost' = SubSeq(<<m, d>>, 3, 2)
        BY <1>1, <4>1, <4>2
      <4> QED
        BY <4>3, Tuples
    <3>2. CASE cmd.op # "Read"
      <4>1. PICK m : toHost = <<m>>
        BY <1>2, <2>2, <3>2 DEF Answered, Answer, Reading
      <4>2. AnswerLen = 1 /\ Len(toHost) = 1
        BY <3>2, <4>1, Tuples DEF AnswerLen
      <4>3. toHost' = SubSeq(<<m>>, 2, 1)
        BY <1>1, <4>1, <4>2
      <4> QED
        BY <4>3, Tuples
    <3> QED
      BY <3>1, <3>2
  <2>4. Carries0 /\ phase # "preloader" /\ toDev' = toDev
    BY <1>1, <2>2 DEF Answered, Carries0
  <2> QED
    BY <1>1, <1>2, <1>3, <1>5, <2>3, <2>4, OnRests
<1> QED
  BY <1>2, <1>4, <1>5

LEMMA ReplErrorIInv ==
  ASSUME IInv, ReplError, UNCHANGED dev
  PROVE  IInv'
<1>1. At({"repl"}) /\ UNCHANGED <<hparams, toDev>>
  BY DEF ReplError
<1>2. /\ hstat = "running" /\ Here.op = "repl" /\ Lbl.at \in Ons /\ Table(hparams')
  BY <1>1, ReplAt
<1>3. CASE /\ cmd' = NoCmd /\ abandoned' = TRUE
           /\ UNCHANGED <<cfg, hstat, ip, place>>
  BY <1>1, <1>2, <1>3, OnRests
<1>4. CASE Fail("repl")
  BY <1>1, <1>2, <1>4, GivesUp DEF Outside
<1> QED
  BY <1>3, <1>4 DEF ReplError

LEMMA ReplQuitIInv ==
  ASSUME IInv, ReplQuit, UNCHANGED dev
  PROVE  IInv'
<1>1. At({"repl"}) /\ Advance /\ UNCHANGED <<hparams, wire>>
  BY DEF ReplQuit, AtPrompt
<1>2. hstat = "running" /\ SlotsInv /\ HostInv /\ Table(hparams') /\ Then.at = "over"
  BY <1>1, ReplAt
<1>3. cfg' = cfg /\ hstat' = "ok"
  BY <1>1, <1>2, Advances
<1>4. HostInv' /\ TalkInv'
  BY <1>3 DEF HostInv, TalkInv
<1> QED
  BY <1>1, <1>2, <1>3, <1>4, HostSide DEF wire

-----------------------------------------------------------------------------
(* The boot.                                                               *)

LEMMA InitIInv == Init => IInv
<1> SUFFICES ASSUME Init PROVE IInv
  OBVIOUS
<1>1. /\ cfg \in Configs /\ hstat = "running" /\ ip = 1 /\ waiting = FALSE
      /\ place = [bootarg |-> 0, bootimg |-> 0] /\ cmd = NoCmd /\ abandoned = FALSE
      /\ hparams = [memory |-> [start |-> 0, end |-> 0], blacklist |-> <<>>]
      /\ phase = cfg.dev /\ params = [memory |-> Range(0, 0), blacklist |-> <<>>]
      /\ toDev = <<>> /\ toHost = <<>>
  BY DEF Init, HostInit, DeviceInit
<1>2. IsSeq(<<>>) /\ Len(<<>>) = 0
  <2>1. <<>> \in Seq({})
    OBVIOUS
  <2> QED
    BY <2>1 DEF IsSeq
<1>3. Table(params) /\ Table(hparams)
  BY <1>1, <1>2, MaxSlotsAssumption DEF Table
<1>4. SlotsInv
  BY <1>1, <1>3 DEF SlotsInv
<1>5. Label(cfg)[0] = Lab("begin", 0) /\ Len(Script(cfg)) \in Nat /\ Len(Script(cfg)) >= 1
  BY <1>1, LabelFacts
<1>6. Lbl.at = "begin"
  BY <1>1, <1>5 DEF Lbl, Lab
<1>7. ip \in 1..Len(Script(cfg))
  BY <1>1, <1>5
<1>8. HostSlots(cfg) \in Nat
  BY <1>1, ConfigFacts
<1>9. place \in [{"bootarg", "bootimg"} -> Int]
  BY <1>1
<1>10. HostInv
  BY <1>1, <1>2, <1>6, <1>7, <1>8, <1>9 DEF HostInv
<1>11. phase \in {"rom", "preloader"}
  BY <1>1, ConfigsAssumption
<1>12. TalkInv
  BY <1>1, <1>6, <1>11 DEF TalkInv, BootInv, Boots, Sents, Ons
<1>13. HelloInv /\ HaltsOnlyForLack /\ FailInv
  BY <1>1, <1>11 DEF HelloInv, HaltsOnlyForLack, FailInv
<1> QED
  BY <1>4, <1>10, <1>12, <1>13 DEF IInv

LEMMA UnchangedIInv ==
  ASSUME IInv, UNCHANGED vars
  PROVE  IInv'
<1>1. /\ UNCHANGED <<cfg, hstat, why, ip, waiting, req, place, hparams, cmd, abandoned>>
      /\ UNCHANGED <<phase, stage, params, areas, plParams, lkParams, toDev, toHost>>
  BY DEF vars, host, dev, wire
<1>2. /\ Lbl' = Lbl /\ Here' = Here /\ Then' = Then /\ EnoughSlots' = EnoughSlots
      /\ Free(Length(Here.obj))' = Free(Length(Here.obj))
  BY <1>1, SameHost DEF Free, Length, Here
<1>3. SlotsInv' = SlotsInv /\ HostInv' = HostInv
  BY <1>1, <1>2 DEF SlotsInv, HostInv
<1>4. HelloInv' = HelloInv /\ HaltsOnlyForLack' = HaltsOnlyForLack
  BY <1>1 DEF HelloInv, HaltsOnlyForLack
<1>5. FailInv' = FailInv
  BY <1>1, <1>2 DEF FailInv
<1>6. BootInv' = BootInv /\ GoneInv' = GoneInv
  BY <1>1 DEF BootInv, GoneInv, Carries0, Carries1
<1>7. SetUp(Lbl.at)' = SetUp(Lbl.at)
  BY <1>1, <1>2 DEF SetUp
<1>8. SentInv' = SentInv
  BY <1>1, <1>2, <1>7 DEF SentInv
<1>9. Served(Lbl)' = Served(Lbl) /\ Served(Then)' = Served(Then)
  BY <1>1, <1>2 DEF Served, Told
<1>10. Rest' = Rest /\ Lost' = Lost
  BY <1>1, <1>9 DEF Rest, Lost, Carries0
<1>11. Asked' = Asked
  <2>1. \A m : Meant(m)' = Meant(m)
    BY <1>1, <1>2 DEF Meant, Length, Addr, BootimgAddr
  <2>2. Request' = Request
    BY <1>1, <2>1 DEF Request, Carries1, Carries2
  <2> QED
    BY <1>1, <1>9, <2>2 DEF Asked
<1>12. Answered' = Answered
  <2>1. Reading' = Reading
    BY <1>1, <1>2 DEF Reading
  <2>2. \A m : Fitting(m)' = Fitting(m)
    BY <1>1, <1>2, <1>9 DEF Fitting
  <2>3. Answer(toHost)' = Answer(toHost)
    BY <1>1, <2>1, <2>2 DEF Answer
  <2> QED
    BY <1>1, <2>3 DEF Answered
<1>13. OnInv' = OnInv
  BY <1>1, <1>2, <1>7, <1>10, <1>11, <1>12 DEF OnInv
<1>14. TalkInv' = TalkInv
  BY <1>1, <1>2, <1>6, <1>8, <1>13 DEF TalkInv
<1> QED
  BY <1>3, <1>4, <1>5, <1>14 DEF IInv

LEMMA NextIInv == IInv /\ [Next]_vars => IInv'
<1> SUFFICES ASSUME IInv, [Next]_vars PROVE IInv'
  OBVIOUS
<1>1. CASE HostStep
  BY <1>1, MainIInv, ParamsBromIInv, ParamsPlIInv, LocalWorkIInv, AnyInputIInv, RequestsIInv,
     UploadIInv, UploadDoneIInv, StartIInv, ReadAckIInv, ReadWrittenIInv, ReadRangeIInv,
     ReadJumpIInv, TimeoutIInv, PromptIInv, ReplSendIInv, ReplReadIInv, ReplErrorIInv,
     ReplQuitIInv DEF HostStep, HostAlone
<1>2. CASE SendBromPayload
  BY <1>2, SendPayloadIInv DEF SendBromPayload
<1>3. CASE SendPlPayload
  BY <1>3, SendPayloadIInv DEF SendPlPayload
<1>4. CASE OpenPort
  BY <1>4, OpenPortIInv
<1>5. CASE DeviceStep
  BY <1>5, DeviceIInv
<1>6. CASE LkStarts
  BY <1>6, LkStartsIInv
<1>7. CASE UNCHANGED vars
  BY <1>7, UnchangedIInv
<1> QED
  BY <1>1, <1>2, <1>3, <1>4, <1>5, <1>6, <1>7 DEF Next, Terminated

(* Throughout every boot the wire is as the label of the host's step says, *)
(* nothing is said before the payload is there, the payload halts only for *)
(* lack of slots or memory, and each failure of the host has its reason.   *)
(* It is what run_brom, run_preloader and the REPL on one side and the     *)
(* payload's main and handler on the other preserve together.              *)
THEOREM BootInvariant == Spec => []IInv
<1>1. Init => IInv
  BY InitIInv
<1>2. IInv /\ [Next]_vars => IInv'
  BY NextIInv
<1> QED
  BY <1>1, <1>2, PTL DEF Spec

(* The payload halts only because the blacklist is full or the memory is:  *)
(* app and main in payloads/rpc die for nothing else, and handler always   *)
(* takes the host's Message::Ack for the Response::Ack it waits for, also  *)
(* when the host has given up or sent a request behind it.                 *)
THEOREM HaltsOnlyForLackCorrect == Spec => []HaltsOnlyForLack
<1>1. IInv => HaltsOnlyForLack
  BY DEF IInv
<1> QED
  BY <1>1, BootInvariant, PTL

(* Whatever the order of steps and timeouts, an answer that the host reads *)
(* is the answer to the request it sent last, and between two steps        *)
(* nothing is in flight to it, until the REPL goes on after a failed       *)
(* transfer.                                                               *)
THEOREM AnswersMatchCorrect == Spec => []AnswersMatch
<1>1. IInv => AnswersMatch
  <2> SUFFICES ASSUME IInv, hstat = "running", ~ abandoned
               PROVE  /\ waiting => \A i \in 1..Len(toHost) : toHost[i].re = req
                      /\ ~ waiting /\ ~ At({"start", "open_port"}) => toHost = <<>>
    BY DEF AnswersMatch
  <2>1. SlotsInv /\ HostInv /\ TalkInv
    BY DEF IInv
  <2>2. Placed(cfg, Here, Lbl.at, Then.at) /\ Lbl.at \in Places
    BY <2>1, Now
  <2>3. Lbl.at \in Boots \cup Sents \cup Ons \cup {"gone"}
    BY <2>2 DEF Placed, Places, Boots, Sents, Ons
  <2>4. ip \in 1..Len(Script(cfg)) /\ Len(Script(cfg)) \in Nat
    BY <2>1, Where
  <2>5. CASE Lbl.at \in Boots
    BY <2>1, <2>5 DEF TalkInv, BootInv
  <2>6. CASE Lbl.at \in Sents \cup {"gone"}
    <3>1. Here.op \in {"start", "open_port"}
      BY <2>2, <2>6 DEF Placed, Sents
    <3>2. ip <= Len(Script(cfg))
      BY <2>4
    <3>3. At({"start", "open_port"})
      BY <3>1, <3>2 DEF At
    <3>4. ~ waiting
      BY <2>1, <2>6 DEF TalkInv, SentInv, GoneInv
    <3> QED
      BY <3>3, <3>4
  <2>7. CASE Lbl.at \in Ons
    <3>1. OnInv
      BY <2>1, <2>7 DEF TalkInv
    <3>2. CASE Rest
      BY <3>2 DEF Rest
    <3>3. CASE Asked \/ Lost
      <4>1. waiting /\ toHost = <<>>
        BY <3>3 DEF Asked, Lost
      <4>2. 1..Len(toHost) = {}
        BY <4>1
      <4> QED
        BY <4>1, <4>2
    <3>4. CASE Answered
      <4>1. waiting /\ Answer(toHost)
        BY <3>4 DEF Answered
      <4>2. CASE Reading
        <5>1. PICK m, d : toHost = <<m, d>> /\ m.re = req /\ d.re = req
          BY <4>1, <4>2 DEF Answer
        <5>2. Len(toHost) = 2 /\ toHost[1] = m /\ toHost[2] = d
          BY <5>1
        <5>3. \A i \in 1..2 : i = 1 \/ i = 2
          OBVIOUS
        <5> QED
          BY <4>1, <5>1, <5>2, <5>3
      <4>3. CASE ~ Reading
        <5>1. PICK m : toHost = <<m>> /\ m.re = req
          BY <4>1, <4>3 DEF Answer
        <5>2. Len(toHost) = 1 /\ toHost[1] = m
          BY <5>1
        <5>3. \A i \in 1..1 : i = 1
          OBVIOUS
        <5> QED
          BY <4>1, <5>1, <5>2, <5>3
      <4> QED
        BY <4>2, <4>3
    <3> QED
      BY <3>1, <3>2, <3>3, <3>4 DEF OnInv
  <2> QED
    BY <2>3, <2>5, <2>6, <2>7
<1> QED
  BY <1>1, BootInvariant, PTL

(* A boot that needs no more than the slots there are fails only for a     *)
(* reason outside the protocol: no request of the host is refused, and     *)
(* there is no range only when find_unused_range finds none in the         *)
(* parameters as they are when main returns.                               *)
THEOREM FailsOnlyOutsideCorrect == Spec => []FailsOnlyOutside
<1>1. IInv => FailsOnlyOutside
  BY DEF IInv, FailInv, FailsOnlyOutside, EnoughSlots, Outside, Free
<1> QED
  BY <1>1, BootInvariant, PTL

-----------------------------------------------------------------------------
(* Memory.                                                                 *)

NoObj == <<"none", 0>>
LkObj == <<"lk", 0>>
ArgObj == <<"bootarg", 0>>
ImgObj == <<"bootimg", 0>>

(* The objects whose place the user chooses, and those whose place the     *)
(* device does.                                                            *)
Fixed(c) ==
  {<<"up", i>> : i \in 1..Len(c.upload)} \cup (IF c.lk THEN {LkObj} ELSE {})
Chosen == {ArgObj, ImgObj}

Stp(op, o) == [op |-> op, obj |-> o]

(* The steps the host has done.                                            *)
Past(c, n) == {Script(c)[j] : j \in 1..n}
Done == Past(cfg, ip - 1)

(* The steps that leave something on the payload that must last.           *)
Effective(st) ==
  \/ st.op \in {"reserve", "alloc", "set_lk", "hook"}
  \/ st.op = "upload" /\ st.obj # PreloaderObj

(* What the steps P that come before step st include, and what they do not.*)
Fit(c, st, P) ==
  /\ st.op \in {"payload_brom", "payload_pl"} =>
       /\ Stp("main", NoObj) \in P
       /\ Stp("params_brom", NoObj) \in P \/ Stp("params_pl", NoObj) \in P
       /\ \A x \in P : ~ Effective(x)
       /\ st.op = "payload_brom" => \A x \in P : x.op \notin {"upload", "payload_pl"}
       /\ st.obj = NoObj
  /\ st.op = "upload" =>
       /\ \A x \in P : x.op # "hook"
       /\ \/ /\ st.obj = PreloaderObj /\ c.dev = "rom"
             /\ \A x \in P : ~ Effective(x)
          \/ /\ st.obj \in Fixed(c) \cup Chosen
             /\ Stp("upload", PreloaderObj) \in P => Stp("payload_pl", NoObj) \in P
             /\ st.obj \in Fixed(c) => \A x \in P : x.op # "alloc"
             /\ st.obj \in Chosen => Stp("alloc", st.obj) \in P
  /\ st.op = "reserve" =>
       \/ st.obj \in Fixed(c)
       \/ st.obj \in Chosen /\ Stp("alloc", st.obj) \in P
  /\ st.op = "alloc" =>
       /\ st.obj \in Chosen
       /\ \A x \in P : x.obj # st.obj /\ x.op # "set_lk"
       /\ \A o \in Fixed(c) : Stp("reserve", o) \in P
       /\ st.obj = ArgObj => c.lk /\ \A x \in P : x.op # "alloc"
       /\ st.obj = ImgObj /\ c.lk => Stp("reserve", ArgObj) \in P
  /\ st.op \in {"main", "params_brom", "params_pl"} => st.obj = NoObj
  /\ st.op \in {"set_lk", "hook"} =>
       st.obj = NoObj /\ c.mode = "LK" /\ Stp("main", NoObj) \in P
  /\ st.op = "jump" =>
       /\ Stp("main", NoObj) \in P
       /\ st.obj = PreloaderObj =>
            Stp("upload", PreloaderObj) \in P /\ Stp("payload_pl", NoObj) \notin P
       /\ st.obj # PreloaderObj =>
            /\ st.obj[1] # "preloader"
            /\ Stp("payload_pl", NoObj) \in P
            /\ UsageOK(c) => \A o \in Objects(c) : Stp("upload", o) \in P
            /\ c.mode = "LK" =>
                 /\ st.obj = LkObj
                 /\ Stp("set_lk", NoObj) \in P /\ Stp("hook", NoObj) \in P
  /\ st.op = "repl" => c.mode = "REPL" /\ Stp("payload_pl", NoObj) \in P

Sound(c) ==
  /\ \A i \in 1..Len(Script(c)) : Fit(c, Script(c)[i], Past(c, i - 1))
  /\ LET P == Past(c, Len(Script(c)))
     IN  Stp("main", NoObj) \in P /\
         (Stp("payload_pl", NoObj) \notin P /\ UsageOK(c) =>
           \A o \in Objects(c) : Stp("upload", o) \in P)

-----------------------------------------------------------------------------
Loc(o) == Range(Addr(o), Length(o))
Bss == [start |-> LkAddr + LkLen, end |-> LkAddr + LkLen + LkBssLen]

InSpace(o) == Addr(o) + Length(o) <= U32Max + 1

(* The user's part of the bargain, as to the images: inputs end inside the *)
(* address space and keep clear of each other, of LK and of its .bss.      *)
WellPlaced ==
  /\ \A o \in Fixed(cfg) : InSpace(o)
  /\ \A o, x \in Fixed(cfg) : o # x => ~ Overlap(Loc(o), Loc(x))
  /\ cfg.lk => \A o \in Fixed(cfg) : ~ Overlap(Loc(o), Bss)

(* And as to the payload: what goes to a fixed address keeps clear of the  *)
(* places the payload has taken.                                           *)
KeepsClear ==
  \A o \in Fixed(cfg) \cup (IF cfg.dev = "rom" THEN {PreloaderObj} ELSE {}) :
    ~ HitsPayload(Addr(o), Length(o))

BssClear == cfg.lk => \A r \in OwnRanges : ~ Overlap(Bss, r)

(* The prompt has not been reached.                                        *)
Tame == cfg.mode # "REPL" \/ stage = "brom"

Started == {"app", "stack", "main", "hello", "serving"}

(* Where a payload runs, or ran until it jumped.                           *)
Alive == phase \in Started \cup {"booted"} \/ (phase = "lk" /\ cfg.mode = "LK")

IsListed(bl, r) == \E i \in 1..Len(bl) : bl[i].start = r.start /\ bl[i].end = r.end
Listed(r) == IsListed(params.blacklist, r)
Covered(r) ==
  \E i \in 1..Len(params.blacklist) :
    /\ params.blacklist[i].start \in Int /\ params.blacklist[i].end \in Int
    /\ params.blacklist[i].start <= r.start /\ r.end <= params.blacklist[i].end

(* The areas of the payload.                                               *)
AreaInv ==
  phase \notin {"rom", "preloader", "halted"} =>
    /\ base \in U32 /\ base + ImageSize <= U32Max + 1
    /\ DOMAIN areas = {"image", "stack", "heap"}
    /\ phase = "app" => areas.image = NoRange
    /\ phase # "app" => areas.image = Range(base, ImageSize)
    /\ phase \in {"app", "stack"} => areas.stack = NoRange /\ areas.heap = NoRange
    /\ phase \notin {"app", "stack"} =>
         /\ areas.stack.start \in U32 /\ areas.stack = Range(areas.stack.start, StackSize)
         /\ areas.stack.start + StackSize <= U32Max + 1
    /\ areas.heap # NoRange =>
         /\ areas.heap.start \in U32 /\ areas.heap = Range(areas.heap.start, HeapSize)
         /\ areas.heap.start + HeapSize <= U32Max + 1
    /\ stage = "pl" /\ phase \notin {"app", "stack", "main"} => areas.heap # NoRange
    /\ \A r \in OwnRanges : Covered(r)
    /\ params.memory \in {Sram, Dram}
    /\ cfg.lk => Listed(Bss)

(* And what is in them.                                                    *)
HoldInv ==
  /\ Alive
  /\ \/ phase \in {"app", "stack", "main", "hello"}
     \/ Tame /\ KeepsClear /\ (phase = "lk" => BssClear)
  =>
    /\ Holds(mem, base, ImageFile, ImageObj)
    /\ areas.stack # NoRange => Holds(mem, areas.stack.start, StackSize, <<"stack", 0>>)
    /\ areas.heap # NoRange => Holds(mem, areas.heap.start, HeapSize, <<"heap", 0>>)

(* What the host has in its copy of the parameters.                        *)
CopyInv ==
  hstat = "running" =>
    /\ Stp("params_brom", NoObj) \in Done \/ Stp("params_pl", NoObj) \in Done =>
         hparams.memory \in {Sram, Dram}
    /\ Stp("main", NoObj) \in Done /\ cfg.lk => IsListed(hparams.blacklist, Bss)

StageInv ==
  /\ stage \in {"brom", "pl"}
  /\ stage = "pl" <=> Stp("payload_pl", NoObj) \in Done
  /\ Stp("main", NoObj) \in Done => UsageOK(cfg)
  /\ phase \in {"app", "stack", "main"} =>
       /\ \A x \in Done : ~ Effective(x) /\ (stage = "brom" => x.op # "upload")
       /\ toDev = <<>>
  /\ phase \in {"booted", "lk"} => stage = "pl"
  /\ ip \in 1..(Len(Script(cfg)) + 1)
  /\ ip <= Len(Script(cfg)) \/ hstat = "ok"
  /\ hstat = "ok" => ip = Len(Script(cfg)) + 1
  /\ place \in [{"bootarg", "bootimg"} -> Int]

-----------------------------------------------------------------------------
JumpArg(o) ==
  IF cfg.lk /\ o[1] # "preloader"
    THEN [addr |-> Addr(o), r0 |-> place["bootarg"], r1 |-> BootargLen]
    ELSE [addr |-> Addr(o), r0 |-> 0, r1 |-> 0]

LkPtrs == <<LkAddr + HookOff, LkAddr, BootimgAddr>>

ChunkOf(o) == [addr |-> Addr(o) + off, size |-> ChunkLen(Length(o))]

(* m, and the bytes d if it has any, is the request of the step under way. *)
Sent(m, d) ==
  /\ ip <= Len(Script(cfg))
  /\ \/ Here.op = "set_pl" /\ Kind(m) = "SetParams" /\ m.arg.type = "Preloader"
     \/ /\ Here.op = "set_lk" /\ Kind(m) = "SetParams"
        /\ m.arg.type = "LK" /\ m.arg.ptrs = LkPtrs
     \/ Here.op = "hook" /\ Kind(m) = "Hook"
     \/ Here.op = "reserve" /\ Kind(m) = "BlacklistRange" /\ m.arg = Reserved(Here.obj)
     \/ Here.op = "alloc" /\ Kind(m) = "GetFreeRange"
     \/ /\ Here.op = "upload" /\ Kind(m) = "Write"
        /\ off \in Nat /\ off < Length(Here.obj) /\ m.arg = ChunkOf(Here.obj)
        /\ d.arg.obj = Here.obj /\ d.arg.off = off

(* m is the jump, under way or given up on.                                *)
SentJump(m) ==
  \E j \in {ip - 1, ip} \cap (1..Len(Script(cfg))) :
    /\ Script(cfg)[j].op = "jump" /\ Kind(m) = "Jump"
    /\ m.arg = JumpArg(Script(cfg)[j].obj)

(* Whatever has become of the host, nothing else is on its way to the      *)
(* payload.                                                                *)
PendInv ==
  Tame =>
    \/ toDev = <<>> \/ Carries0
    \/ \E m, d : Sent(m, d) /\ IF Kind(m) = "Write" THEN Carries2(m, d) ELSE Carries1(m)
    \/ \E m : SentJump(m) /\ Carries1(m)

-----------------------------------------------------------------------------
(* A range the device has chosen: clear of all that was there before.      *)
ClearOf(o) ==
  /\ Addr(o) \in U32 /\ InSpace(o)
  /\ \A x \in Fixed(cfg) : ~ Overlap(Loc(o), Loc(x))
  /\ cfg.lk => ~ Overlap(Loc(o), Bss)
  /\ \A r \in OwnRanges : ~ Overlap(Loc(o), r)
  /\ o = ImgObj /\ cfg.lk => ~ Overlap(Loc(o), Loc(ArgObj))

Hooked == \A a \in HookRange : mem[a] = <<"hook", 0, a - (LkAddr + HookOff)>>

(* What a step leaves behind.                                              *)
Effect(st) ==
  /\ st.op = "upload" /\ st.obj # PreloaderObj /\ WellPlaced => Intact(st.obj)
  /\ st.op = "upload" /\ st.obj = PreloaderObj /\ stage = "brom" => Intact(st.obj)
  /\ st.op = "reserve" => Listed(Reserved(st.obj))
  /\ st.op = "alloc" => ClearOf(st.obj)
  /\ st.op = "set_lk" => lkParams = LkPtrs
  /\ st.op = "hook" /\ WellPlaced => Hooked

EffectInv == Tame /\ (phase = "lk" => cfg.mode = "LK") => \A st \in Done : Effect(st)

(* The bytes below n of o are in memory.                                   *)
Upto(o, n) == \A k \in 0..(n - 1) : mem[Addr(o) + k] = Byte(o, k)

ProgressInv ==
  (hstat = "running" /\ Tame) =>
    /\ Here.op = "upload" =>
         /\ off \in 0..Length(Here.obj)
         /\ InSpace(Here.obj) => Upto(Here.obj, off)
         /\ InSpace(Here.obj) /\ toHost # <<>> =>
              Upto(Here.obj, off + ChunkLen(Length(Here.obj)))
    /\ Here.op = "reserve" /\ toHost # <<>> /\ AKind(Head(toHost)) = "Ack" =>
         Listed(Reserved(Here.obj))
    /\ Here.op = "hook" /\ WellPlaced /\ toHost # <<>> /\ AKind(Head(toHost)) = "Ack" =>
         Hooked

LkInv ==
  Tame /\ lkParams # <<>> =>
    /\ lkParams = LkPtrs
    /\ Stp("set_lk", NoObj) \in Done \/ (ip <= Len(Script(cfg)) /\ Here.op = "set_lk")

(* Control has left for the user's image.                                  *)
GoneBoot ==
  Tame /\ (phase = "booted" \/ (phase = "lk" /\ cfg.mode = "LK")) =>
    /\ hstat = "running" => Here.op = "jump" \/ Lbl.at = "gone"
    /\ \A o \in Objects(cfg) : Stp("upload", o) \in Done
    /\ cfg.lk => entry.r0 = place["bootarg"] /\ entry.r1 = BootargLen
    /\ cfg.mode = "LK" =>
         /\ entry.addr = LkAddr
         /\ Stp("set_lk", NoObj) \in Done /\ Stp("hook", NoObj) \in Done

GonePreloader == phase = "preloader" /\ cfg.dev = "rom" /\ stage = "brom" => Intact(PreloaderObj)

MemInv ==
  /\ AreaInv /\ HoldInv /\ CopyInv /\ StageInv /\ PendInv
  /\ EffectInv /\ ProgressInv /\ LkInv /\ GoneBoot /\ GonePreloader

(* A part of the line keeps the order: what is done before it is P, and    *)
(* what is done after it is Q.                                             *)
Keeps(c, s, P, Q) ==
  /\ s \in Seq(Steps)
  /\ Q = P \cup {s[j] : j \in 1..Len(s)}
  /\ \A i \in 1..Len(s) : Fit(c, s[i], P \cup {s[j] : j \in 1..(i - 1)})

LEMMA JoinKeeps ==
  ASSUME NEW c, NEW s, NEW t, NEW P, NEW Q, NEW R, Keeps(c, s, P, Q), Keeps(c, t, Q, R)
  PROVE  Keeps(c, s \o t, P, R)
<1>1. s \in Seq(Steps) /\ t \in Seq(Steps) /\ Len(s) \in Nat /\ Len(t) \in Nat
  BY DEF Keeps
<1>2. /\ s \o t \in Seq(Steps) /\ Len(s \o t) = Len(s) + Len(t)
      /\ \A i \in 1..Len(s) : (s \o t)[i] = s[i]
      /\ \A i \in 1..Len(t) : (s \o t)[Len(s) + i] = t[i]
  BY <1>1
<1> DEFINE u == s \o t
           S(n) == {s[j] : j \in 1..n}
           T(n) == {t[j] : j \in 1..n}
           U(n) == {u[j] : j \in 1..n}
<1>3. /\ Len(u) = Len(s) + Len(t) /\ u \in Seq(Steps)
      /\ \A i \in 1..Len(s) : u[i] = s[i]
      /\ \A i \in 1..Len(t) : u[Len(s) + i] = t[i]
  BY <1>2
<1> HIDE DEF u
<1>4. \A j \in 1..(Len(s) + Len(t)) : j > Len(s) =>
         j - Len(s) \in 1..Len(t) /\ u[j] = t[j - Len(s)]
  <2> SUFFICES ASSUME NEW j \in 1..(Len(s) + Len(t)), j > Len(s)
               PROVE  j - Len(s) \in 1..Len(t) /\ u[j] = t[j - Len(s)]
    OBVIOUS
  <2>1. j - Len(s) \in 1..Len(t) /\ j = Len(s) + (j - Len(s))
    BY <1>1
  <2> QED
    BY <1>3, <2>1
<1>5. ASSUME NEW k \in 0..Len(t) PROVE U(Len(s) + k) = S(Len(s)) \cup T(k)
  <2>1. ASSUME NEW x \in U(Len(s) + k) PROVE x \in S(Len(s)) \cup T(k)
    <3>1. PICK j \in 1..(Len(s) + k) : x = u[j]
      OBVIOUS
    <3>2. CASE j <= Len(s)
      BY <1>1, <1>3, <3>1, <3>2
    <3>3. CASE j > Len(s)
      <4>1. j \in 1..(Len(s) + Len(t)) /\ j - Len(s) \in 1..k
        BY <1>1, <3>1, <3>3
      <4> QED
        BY <1>4, <3>1, <3>3, <4>1
    <3> QED
      BY <1>1, <3>2, <3>3
  <2>2. ASSUME NEW x \in S(Len(s)) PROVE x \in U(Len(s) + k)
    <3>1. PICK j \in 1..Len(s) : x = s[j]
      OBVIOUS
    <3>2. j \in 1..(Len(s) + k) /\ x = u[j]
      BY <1>1, <1>3, <3>1
    <3> QED
      BY <3>2
  <2>3. ASSUME NEW x \in T(k) PROVE x \in U(Len(s) + k)
    <3>1. PICK j \in 1..k : x = t[j]
      OBVIOUS
    <3>2. Len(s) + j \in 1..(Len(s) + k) /\ j \in 1..Len(t)
      BY <1>1, <3>1
    <3>3. x = u[Len(s) + j]
      BY <1>3, <3>1, <3>2
    <3> QED
      BY <3>2, <3>3
  <2> HIDE DEF S, T, U
  <2> QED
    BY <2>1, <2>2, <2>3
<1>6. Q = P \cup S(Len(s)) /\ R = Q \cup T(Len(t))
  BY DEF Keeps
<1>7. R = P \cup U(Len(u))
  <2>0. Len(t) \in 0..Len(t) /\ Len(u) = Len(s) + Len(t)
    BY <1>1, <1>3
  <2>1. U(Len(s) + Len(t)) = S(Len(s)) \cup T(Len(t))
    BY <1>5, <2>0
  <2> HIDE DEF S, T, U
  <2> QED
    BY <1>6, <2>0, <2>1
<1>8. ASSUME NEW i \in 1..Len(u) PROVE Fit(c, u[i], P \cup U(i - 1))
  <2>1. CASE i <= Len(s)
    <3>1. i \in 1..Len(s) /\ u[i] = s[i]
      BY <1>1, <1>3, <2>1
    <3>2. U(i - 1) = S(i - 1)
      <4>1. \A j \in 1..(i - 1) : u[j] = s[j]
        BY <1>1, <1>3, <2>1
      <4> QED
        BY <4>1
    <3>3. Fit(c, s[i], P \cup S(i - 1))
      BY <3>1 DEF Keeps
    <3> HIDE DEF S, U
    <3> QED
      BY <3>1, <3>2, <3>3
  <2>2. CASE i > Len(s)
    <3> DEFINE k == i - Len(s)
    <3>1. k \in 1..Len(t) /\ u[i] = t[k]
      BY <1>3, <1>4, <2>2
    <3>2. k - 1 \in 0..Len(t) /\ Len(s) + (k - 1) = i - 1
      BY <1>1, <1>3, <3>1
    <3>3. U(i - 1) = S(Len(s)) \cup T(k - 1)
      BY <1>5, <3>2
    <3>4. Fit(c, t[k], Q \cup T(k - 1))
      BY <3>1 DEF Keeps
    <3> HIDE DEF k, S, T, U
    <3>5. Q \cup T(k - 1) = P \cup U(i - 1)
      BY <1>6, <3>3
    <3> QED
      BY <3>1, <3>4, <3>5
  <2> HIDE DEF U
  <2> QED
    BY <1>1, <1>3, <2>1, <2>2
<1>9. Keeps(c, u, P, R)
  BY <1>3, <1>7, <1>8 DEF Keeps
<1> QED
  BY <1>9 DEF u

LEMMA EmptyKeeps ==
  ASSUME NEW c, NEW P
  PROVE  Keeps(c, <<>>, P, P)
<1>1. Len(<<>>) = 0 /\ <<>> \in Seq(Steps) /\ 1..0 = {}
  OBVIOUS
<1> QED
  BY <1>1 DEF Keeps

LEMMA StepKeeps ==
  ASSUME NEW c, NEW P, NEW op \in Ops, NEW o \in Objs, Fit(c, Stp(op, o), P),
         NEW Q, Q = P \cup {Stp(op, o)}
  PROVE  Keeps(c, Step(op, o), P, Q)
<1> DEFINE x == Stp(op, o)
           s == <<x>>
<1>1. s \in Seq(Steps) /\ Len(s) = 1 /\ s[1] = x
  BY DEF Stp, Steps
<1>2. 1..1 = {1} /\ 1..(1 - 1) = {}
  OBVIOUS
<1>0. Step(op, o) = s
  BY DEF Step, Stp
<1> HIDE DEF s, x
<1>3. P \cup {s[j] : j \in 1..(1 - 1)} = P
  BY <1>2
<1>4. {s[j] : j \in 1..Len(s)} = {x}
  BY <1>1, <1>2
<1>5. Keeps(c, s, P, P \cup {x})
  BY <1>1, <1>2, <1>3, <1>4 DEF Keeps, x
<1> QED
  BY <1>0, <1>5 DEF x

LEMMA ObjFacts ==
  /\ {NoObj, LkObj, ArgObj, ImgObj, PreloaderObj, <<"cli", 0>>} \subseteq Objs
  /\ \A op, o : Stp(op, o).op = op /\ Stp(op, o).obj = o
  /\ \A op1, op2, o1, o2 : Stp(op1, o1) = Stp(op2, o2) <=> op1 = op2 /\ o1 = o2
<1>1. {NoObj, LkObj, ArgObj, ImgObj, PreloaderObj, <<"cli", 0>>} \subseteq Objs
  BY DEF NoObj, LkObj, ArgObj, ImgObj, PreloaderObj, Objs
<1>2. \A op, o : Stp(op, o).op = op /\ Stp(op, o).obj = o
  BY DEF Stp
<1>3. \A op1, op2, o1, o2 : Stp(op1, o1) = Stp(op2, o2) <=> op1 = op2 /\ o1 = o2
  BY <1>2
<1> QED
  BY <1>1, <1>2, <1>3

LEMMA ObjsDiffer ==
  /\ NoObj # LkObj /\ NoObj # ArgObj /\ NoObj # ImgObj /\ NoObj # PreloaderObj
  /\ LkObj # ArgObj /\ LkObj # ImgObj /\ LkObj # PreloaderObj
  /\ ArgObj # ImgObj /\ ArgObj # PreloaderObj /\ ImgObj # PreloaderObj
  /\ <<"cli", 0>> # PreloaderObj
  /\ \A i \in Nat : <<"up", i>> \notin {NoObj, LkObj, ArgObj, ImgObj, PreloaderObj}
BY DEF NoObj, LkObj, ArgObj, ImgObj, PreloaderObj

LEMMA FreeFit ==
  ASSUME NEW c, NEW P, NEW o,
         NEW op \in {"start", "any_input", "open_port", "extract", "set_pl", "mkbootimg"}
  PROVE  Fit(c, Stp(op, o), P)
BY DEF Fit, Stp

(* What has been done when the inputs are next, ...                        *)
Before1(c, P) ==
  /\ Stp("main", NoObj) \in P
  /\ Stp("payload_pl", NoObj) \in P \/ Stp("upload", PreloaderObj) \notin P
  /\ \A x \in P : ~ Effective(x) /\ x.obj \in {NoObj, PreloaderObj}

(* ... when LK is next, ...                                                *)
Before2(c, P) ==
  /\ Stp("main", NoObj) \in P
  /\ \A i \in 1..Len(c.upload) :
       Stp("upload", <<"up", i>>) \in P /\ Stp("reserve", <<"up", i>>) \in P
  /\ \A x \in P : x.op \notin {"alloc", "hook", "set_lk"} /\ x.obj \notin Chosen

(* ... when boot.img is next, and when the end of the line is.             *)
Before3(c, P) ==
  /\ Stp("main", NoObj) \in P /\ Stp("payload_pl", NoObj) \in P
  /\ \A o \in Fixed(c) : Stp("upload", o) \in P /\ Stp("reserve", o) \in P
  /\ c.lk => Stp("reserve", ArgObj) \in P /\ Stp("upload", ArgObj) \in P
  /\ \A x \in P : x.op \notin {"hook", "set_lk"} /\ x.obj # ImgObj

LEMMA UploadsKeep ==
  ASSUME NEW c \in Configs, NEW P, Before1(c, P)
  PROVE  \E Q : Keeps(c, Uploads(c), P, Q) /\ P \subseteq Q /\ Before2(c, Q)
<1> DEFINE n == Len(c.upload)
           s == Uploads(c)
           E == {s[j] : j \in 1..Len(s)}
<1>1. n \in Nat
  BY ConfigFacts
<1>2. s = [i \in 1..(2 * n) |-> Stp(IF i % 2 = 1 THEN "upload" ELSE "reserve",
                                    <<"up", (i + 1) \div 2>>)]
  BY DEF Uploads, Stp
<1> HIDE DEF n, s, E
<1>3. \A i \in 1..(2 * n) : (i + 1) \div 2 \in 1..n
  BY <1>1
<1>4. s \in Seq(Steps) /\ Len(s) = 2 * n
  <2>1. \A i \in 1..(2 * n) :
          Stp(IF i % 2 = 1 THEN "upload" ELSE "reserve", <<"up", (i + 1) \div 2>>) \in Steps
    <3>1. \A k \in Nat : \A op \in {"upload", "reserve"} : Stp(op, <<"up", k>>) \in Steps
      BY DEF Stp, Steps, Ops, Objs
    <3>2. \A i \in 1..(2 * n) : (i + 1) \div 2 \in Nat
      BY <1>1
    <3> QED
      BY <3>1, <3>2
  <2>2. s \in [1..(2 * n) -> Steps]
    BY <1>2, <2>1
  <2>3. 2 * n \in Nat
    BY <1>1
  <2> QED
    BY <2>2, <2>3
<1>5. \A i \in 1..(2 * n) : \E k \in 1..n :
        s[i] = Stp("upload", <<"up", k>>) \/ s[i] = Stp("reserve", <<"up", k>>)
  BY <1>2, <1>3
<1>6. ASSUME NEW k \in 1..n
      PROVE  Stp("upload", <<"up", k>>) \in E /\ Stp("reserve", <<"up", k>>) \in E
  <2>1. /\ 2 * k - 1 \in 1..(2 * n) /\ (2 * k - 1) % 2 = 1 /\ ((2 * k - 1) + 1) \div 2 = k
        /\ 2 * k \in 1..(2 * n) /\ (2 * k) % 2 # 1 /\ (2 * k + 1) \div 2 = k
    BY <1>1
  <2>2. /\ s[2 * k - 1] = Stp("upload", <<"up", k>>)
        /\ s[2 * k] = Stp("reserve", <<"up", k>>)
    BY <1>2, <2>1
  <2> QED
    BY <1>4, <2>1, <2>2 DEF E
<1>7. \A k \in 1..n : <<"up", k>> \in Fixed(c) /\ <<"up", k>> \notin Chosen
                       /\ <<"up", k>> # PreloaderObj
  <2>1. \A k \in 1..n : k \in Nat
    BY <1>1
  <2>2. \A k \in 1..n : <<"up", k>> \in Fixed(c)
    BY DEF Fixed, n
  <2>3. \A k \in 1..n : <<"up", k>> \notin Chosen /\ <<"up", k>> # PreloaderObj
    BY <2>1, ObjsDiffer DEF Chosen
  <2> QED
    BY <2>2, <2>3
<1>8. ASSUME NEW i \in 1..(2 * n)
      PROVE  Fit(c, s[i], P \cup {s[j] : j \in 1..(i - 1)})
  <2> DEFINE Q == P \cup {s[j] : j \in 1..(i - 1)}
  <2>1. PICK k \in 1..n :
          s[i] = Stp("upload", <<"up", k>>) \/ s[i] = Stp("reserve", <<"up", k>>)
    BY <1>5
  <2>2. ASSUME NEW x \in Q
        PROVE  x.op \notin {"hook", "alloc"} /\ (x \in P \/ x.obj # PreloaderObj)
    <3>1. CASE x \in P
      BY <3>1 DEF Before1, Effective
    <3>2. CASE x \notin P
      <4>1. PICK j \in 1..(2 * n) : x = s[j]
        BY <1>1, <3>2
      <4>2. PICK l \in 1..n :
              x = Stp("upload", <<"up", l>>) \/ x = Stp("reserve", <<"up", l>>)
        BY <1>5, <4>1
      <4> QED
        BY <1>7, <4>2, ObjFacts
    <3> QED
      BY <3>1, <3>2
  <2>3. P \subseteq Q
    OBVIOUS
  <2> HIDE DEF Q
  <2>4. Stp("upload", PreloaderObj) \in Q => Stp("payload_pl", NoObj) \in Q
    <3>1. Stp("upload", PreloaderObj) \in Q => Stp("upload", PreloaderObj) \in P
      BY <2>2, ObjFacts
    <3> QED
      BY <2>3, <3>1 DEF Before1
  <2>5. CASE s[i] = Stp("upload", <<"up", k>>)
    <3>1. s[i].op = "upload" /\ s[i].obj = <<"up", k>>
      BY <2>5, ObjFacts
    <3> QED
      BY <1>7, <2>2, <2>4, <3>1 DEF Fit, Q
  <2>6. CASE s[i] = Stp("reserve", <<"up", k>>)
    <3>1. s[i].op = "reserve" /\ s[i].obj = <<"up", k>>
      BY <2>6, ObjFacts
    <3> QED
      BY <1>7, <3>1 DEF Fit
  <2> QED
    BY <2>1, <2>5, <2>6
<1>9. Keeps(c, s, P, P \cup E)
  BY <1>4, <1>8 DEF Keeps, E
<1>10. ASSUME NEW x \in P \cup E
       PROVE  x.op \notin {"alloc", "hook", "set_lk"} /\ x.obj \notin Chosen
  <2>1. CASE x \in P
    BY <2>1, ObjsDiffer DEF Before1, Effective, Chosen
  <2>2. CASE x \in E
    <3>1. PICK i \in 1..(2 * n) : x = s[i]
      BY <1>4, <2>2 DEF E
    <3>2. PICK k \in 1..n :
            x = Stp("upload", <<"up", k>>) \/ x = Stp("reserve", <<"up", k>>)
      BY <1>5, <3>1
    <3> QED
      BY <1>7, <3>2, ObjFacts
  <2> QED
    BY <2>1, <2>2
<1>11. Before2(c, P \cup E)
  BY <1>6, <1>10 DEF Before1, Before2, n
<1> QED
  BY <1>9, <1>11 DEF s

LEMMA LkKeeps ==
  ASSUME NEW c \in Configs, NEW P, Before2(c, P), Stp("payload_pl", NoObj) \in P
  PROVE  \E Q : Keeps(c, LkScript(c), P, Q) /\ Before3(c, Q)
<1>1. CASE ~ c.lk
  <2>1. LkScript(c) = <<>> /\ Fixed(c) = {<<"up", i>> : i \in 1..Len(c.upload)}
    BY <1>1 DEF LkScript, Fixed
  <2>2. Keeps(c, LkScript(c), P, P)
    BY <2>1, EmptyKeeps
  <2>3. Before3(c, P)
    BY <1>1, <2>1 DEF Before2, Before3, Chosen
  <2> QED
    BY <2>2, <2>3
<1>2. CASE c.lk
  <2>1. LkObj \in Fixed(c) /\ Fixed(c) = {<<"up", i>> : i \in 1..Len(c.upload)} \cup {LkObj}
    BY <1>2 DEF Fixed
  <2>2. ArgObj \notin Fixed(c) /\ LkObj \notin Chosen /\ ArgObj \in Chosen
    <3>1. \A i \in 1..Len(c.upload) : i \in Nat
      BY ConfigFacts
    <3> QED
      BY <2>1, <3>1, ObjsDiffer DEF Chosen
  <2> DEFINE x1 == Stp("upload", LkObj)
             x2 == Stp("reserve", LkObj)
             x3 == Stp("alloc", ArgObj)
             x4 == Stp("reserve", ArgObj)
             x5 == Stp("upload", ArgObj)
             P1 == P \cup {x1}
             P2 == P1 \cup {x2}
             P3 == P2 \cup {x3}
             P4 == P3 \cup {x4}
             P5 == P4 \cup {x5}
  <2>5. {"upload", "reserve", "alloc"} \subseteq Ops /\ LkObj \in Objs /\ ArgObj \in Objs
    BY ObjFacts DEF Ops
  <2>6. /\ x1.op = "upload" /\ x2.op = "reserve" /\ x3.op = "alloc" /\ x4.op = "reserve"
        /\ x5.op = "upload" /\ x1.obj = LkObj /\ x2.obj = LkObj /\ x3.obj = ArgObj
        /\ x4.obj = ArgObj /\ x5.obj = ArgObj
    BY ObjFacts
  <2>7. \A x \in P : x.op \notin {"alloc", "hook", "set_lk"} /\ x.obj \notin {ArgObj, ImgObj}
    BY DEF Before2, Chosen
  <2>4. /\ x1 = Stp("upload", LkObj) /\ x2 = Stp("reserve", LkObj) /\ x3 = Stp("alloc", ArgObj)
        /\ x4 = Stp("reserve", ArgObj) /\ x5 = Stp("upload", ArgObj)
    OBVIOUS
  <2> HIDE DEF x1, x2, x3, x4, x5
  <2>8. Keeps(c, Step("upload", LkObj), P, P1)
    <3>1. Fit(c, x1, P)
      BY <2>1, <2>2, <2>6, <2>7 DEF Fit
    <3> QED
      BY <2>4, <2>5, <3>1, StepKeeps
  <2>9. Keeps(c, Step("reserve", LkObj), P1, P2)
    <3>1. Fit(c, x2, P1)
      BY <2>1, <2>6 DEF Fit
    <3> QED
      BY <2>4, <2>5, <3>1, StepKeeps
  <2>10. Keeps(c, Step("alloc", ArgObj), P2, P3)
    <3>1. \A x \in P2 : x.op \notin {"set_lk", "alloc"} /\ x.obj # ArgObj
      BY <2>6, <2>7, ObjsDiffer
    <3>2. \A o \in Fixed(c) : Stp("reserve", o) \in P2
      BY <2>1, <2>4 DEF Before2
    <3> HIDE DEF P1, P2
    <3>3. Fit(c, x3, P2)
      BY <1>2, <2>2, <2>6, <3>1, <3>2, ObjsDiffer DEF Fit
    <3> QED
      BY <2>4, <2>5, <3>3, StepKeeps
  <2>11. Keeps(c, Step("reserve", ArgObj), P3, P4)
    <3>1. Fit(c, x4, P3)
      BY <2>2, <2>4, <2>6 DEF Fit
    <3> QED
      BY <2>4, <2>5, <3>1, StepKeeps
  <2>12. Keeps(c, Step("upload", ArgObj), P4, P5)
    <3>1. \A x \in P4 : x.op # "hook"
      BY <2>6, <2>7
    <3>2. Stp("alloc", ArgObj) \in P4 /\ Stp("payload_pl", NoObj) \in P4
      BY <2>4
    <3> HIDE DEF P1, P2, P3, P4
    <3>3. Fit(c, x5, P4)
      BY <2>2, <2>6, <3>1, <3>2 DEF Fit
    <3> QED
      BY <2>4, <2>5, <3>3, StepKeeps
  <2>13. Before3(c, P5)
    <3>1. \A o \in Fixed(c) : Stp("upload", o) \in P5 /\ Stp("reserve", o) \in P5
      BY <2>1, <2>4 DEF Before2
    <3>2. Stp("reserve", ArgObj) \in P5 /\ Stp("upload", ArgObj) \in P5
      BY <2>4
    <3>3. \A x \in P5 : x.op \notin {"hook", "set_lk"} /\ x.obj # ImgObj
      BY <2>6, <2>7, ObjsDiffer
    <3>4. Stp("main", NoObj) \in P5 /\ Stp("payload_pl", NoObj) \in P5
      BY DEF Before2
    <3> HIDE DEF P1, P2, P3, P4, P5
    <3> QED
      BY <3>1, <3>2, <3>3, <3>4 DEF Before3
  <2> HIDE DEF P1, P2, P3, P4, P5
  <2>14. Keeps(c, LkScript(c), P, P5)
    BY <1>2, <2>8, <2>9, <2>10, <2>11, <2>12, JoinKeeps DEF LkScript, LkObj, ArgObj
  <2> QED
    BY <2>13, <2>14
<1> QED
  BY <1>1, <1>2

LEMMA FreeKeeps ==
  ASSUME NEW c, NEW P,
         NEW op \in {"start", "any_input", "open_port", "extract", "set_pl", "mkbootimg"}
  PROVE  Keeps(c, Local(op), P, P \cup {Stp(op, NoObj)})
<1>1. op \in Ops /\ NoObj \in Objs
  BY ObjFacts DEF Ops
<1>2. Fit(c, Stp(op, NoObj), P)
  BY FreeFit
<1>3. Keeps(c, Step(op, NoObj), P, P \cup {Stp(op, NoObj)})
  BY <1>1, <1>2, StepKeeps
<1> QED
  BY <1>3 DEF Local, NoObj

LEMMA BootimgKeeps ==
  ASSUME NEW c \in Configs, NEW P, Before3(c, P)
  PROVE  \E Q : /\ Keeps(c, BootimgScript(c), P, Q) /\ P \subseteq Q
                /\ c.kernel > 0 => Stp("upload", ImgObj) \in Q
<1>1. CASE ~ c.kernel > 0
  <2>1. Keeps(c, BootimgScript(c), P, P)
    BY <1>1, EmptyKeeps DEF BootimgScript
  <2> QED
    BY <1>1, <2>1
<1>2. CASE c.kernel > 0
  <2> DEFINE x1 == Stp("mkbootimg", NoObj)
             x2 == Stp("alloc", ImgObj)
             x3 == Stp("upload", ImgObj)
             x4 == Stp("reserve", ImgObj)
             P1 == P \cup {x1}
             P2 == P1 \cup {x2}
             P3 == P2 \cup {x3}
             P4 == P3 \cup {x4}
  <2>1. {"upload", "reserve", "alloc"} \subseteq Ops /\ ImgObj \in Objs
    BY ObjFacts DEF Ops
  <2>2. /\ x1.op = "mkbootimg" /\ x2.op = "alloc" /\ x3.op = "upload" /\ x4.op = "reserve"
        /\ x1.obj = NoObj /\ x2.obj = ImgObj /\ x3.obj = ImgObj /\ x4.obj = ImgObj
    BY ObjFacts
  <2>3. /\ x1 = Stp("mkbootimg", NoObj) /\ x2 = Stp("alloc", ImgObj)
        /\ x3 = Stp("upload", ImgObj) /\ x4 = Stp("reserve", ImgObj)
    OBVIOUS
  <2>4. ImgObj \notin Fixed(c) /\ ImgObj \in Chosen /\ ImgObj # ArgObj
    <3>1. \A i \in 1..Len(c.upload) : i \in Nat
      BY ConfigFacts
    <3> QED
      BY <3>1, ObjsDiffer DEF Chosen, Fixed
  <2>5. \A x \in P : x.op \notin {"hook", "set_lk"} /\ x.obj # ImgObj
    BY DEF Before3
  <2> HIDE DEF x1, x2, x3, x4
  <2>6. Keeps(c, Local("mkbootimg"), P, P1)
    BY <2>3, FreeKeeps
  <2>7. Keeps(c, Step("alloc", ImgObj), P1, P2)
    <3>1. \A x \in P1 : x.op # "set_lk" /\ x.obj # ImgObj
      BY <2>2, <2>5, ObjsDiffer
    <3>2. /\ \A o \in Fixed(c) : Stp("reserve", o) \in P1
          /\ c.lk => Stp("reserve", ArgObj) \in P1
      BY DEF Before3
    <3> HIDE DEF P1
    <3>3. Fit(c, x2, P1)
      BY <2>2, <2>4, <3>1, <3>2 DEF Fit
    <3> QED
      BY <2>1, <2>3, <3>3, StepKeeps
  <2>8. Keeps(c, Step("upload", ImgObj), P2, P3)
    <3>1. \A x \in P2 : x.op # "hook"
      BY <2>2, <2>5
    <3>2. Stp("alloc", ImgObj) \in P2 /\ Stp("payload_pl", NoObj) \in P2
      BY <2>3 DEF Before3
    <3> HIDE DEF P1, P2
    <3>3. Fit(c, x3, P2)
      BY <2>2, <2>4, <3>1, <3>2 DEF Fit
    <3> QED
      BY <2>1, <2>3, <3>3, StepKeeps
  <2>9. Keeps(c, Step("reserve", ImgObj), P3, P4)
    <3>1. Fit(c, x4, P3)
      BY <2>2, <2>3, <2>4 DEF Fit
    <3> QED
      BY <2>1, <2>3, <3>1, StepKeeps
  <2>10. P \subseteq P4 /\ Stp("upload", ImgObj) \in P4
    BY <2>3
  <2> HIDE DEF P1, P2, P3, P4
  <2>11. Keeps(c, BootimgScript(c), P, P4)
    BY <1>2, <2>6, <2>7, <2>8, <2>9, JoinKeeps DEF BootimgScript, ImgObj
  <2> QED
    BY <2>10, <2>11
<1> QED
  BY <1>1, <1>2

(* Everything is there when the host jumps.                                *)
LEMMA AllUploaded ==
  ASSUME NEW c \in Configs, NEW P, Before3(c, P), NEW Q, P \subseteq Q,
         c.mode = "LK" /\ c.kernel > 0 => Stp("upload", ImgObj) \in Q
  PROVE  UsageOK(c) => \A o \in Objects(c) : Stp("upload", o) \in Q
<1> SUFFICES ASSUME UsageOK(c), NEW o \in Objects(c) PROVE Stp("upload", o) \in Q
  OBVIOUS
<1>1. CASE o \in Fixed(c)
  BY <1>1 DEF Before3
<1>2. CASE o = ArgObj /\ c.lk
  BY <1>2 DEF Before3
<1>3. CASE o = ImgObj /\ c.kernel > 0
  <2>1. c.mode = "LK"
    BY <1>3 DEF UsageOK
  <2> QED
    BY <1>3, <2>1
<1>4. o \in Fixed(c) \/ (o = ArgObj /\ c.lk) \/ (o = ImgObj /\ c.kernel > 0)
  BY DEF Objects, Fixed, LkObj, ArgObj, ImgObj
<1> QED
  BY <1>1, <1>2, <1>3, <1>4

LEMMA ModeKeeps ==
  ASSUME NEW c \in Configs, NEW P, Before3(c, P)
  PROVE  \E Q : Keeps(c, ModeScript(c), P, Q) /\ P \subseteq Q
<1>0. /\ {"jump", "set_lk", "hook", "repl"} \subseteq Ops
      /\ {NoObj, LkObj, <<"cli", 0>>} \subseteq Objs
      /\ \A o \in {LkObj, <<"cli", 0>>} : o[1] # "preloader" /\ o # PreloaderObj
      /\ Stp("main", NoObj) \in P /\ Stp("payload_pl", NoObj) \in P
  BY ObjFacts DEF Ops, Before3, LkObj, PreloaderObj
<1>1. ASSUME c.mode = "LK" PROVE \E Q : Keeps(c, ModeScript(c), P, Q) /\ P \subseteq Q
  <2>1. PICK P1 : /\ Keeps(c, BootimgScript(c), P, P1) /\ P \subseteq P1
                  /\ c.kernel > 0 => Stp("upload", ImgObj) \in P1
    BY BootimgKeeps
  <2> DEFINE x2 == Stp("extract", NoObj)
             x3 == Stp("set_lk", NoObj)
             x4 == Stp("hook", NoObj)
             x5 == Stp("jump", LkObj)
             P2 == P1 \cup {x2}
             P3 == P2 \cup {x3}
             P4 == P3 \cup {x4}
             P5 == P4 \cup {x5}
  <2>2. /\ x3.op = "set_lk" /\ x4.op = "hook" /\ x5.op = "jump"
        /\ x3.obj = NoObj /\ x4.obj = NoObj /\ x5.obj = LkObj
    BY ObjFacts
  <2>3. /\ x2 = Stp("extract", NoObj) /\ x3 = Stp("set_lk", NoObj)
        /\ x4 = Stp("hook", NoObj) /\ x5 = Stp("jump", LkObj)
    OBVIOUS
  <2> HIDE DEF x2, x3, x4, x5
  <2>4. Keeps(c, Local("extract"), P1, P2)
    BY <2>3, FreeKeeps
  <2>5. Keeps(c, Step("set_lk", NoObj), P2, P3)
    <3>1. Fit(c, x3, P2)
      BY <1>0, <1>1, <2>1, <2>2 DEF Fit
    <3> QED
      BY <1>0, <2>3, <3>1, StepKeeps
  <2>6. Keeps(c, Step("hook", NoObj), P3, P4)
    <3>1. Fit(c, x4, P3)
      BY <1>0, <1>1, <2>1, <2>2 DEF Fit
    <3> QED
      BY <1>0, <2>3, <3>1, StepKeeps
  <2>7. Keeps(c, Step("jump", LkObj), P4, P5)
    <3>1. /\ P \subseteq P4 /\ Stp("set_lk", NoObj) \in P4 /\ Stp("hook", NoObj) \in P4
          /\ c.kernel > 0 => Stp("upload", ImgObj) \in P4
      BY <2>1, <2>3
    <3> HIDE DEF P2, P3, P4
    <3>2. UsageOK(c) => \A o \in Objects(c) : Stp("upload", o) \in P4
      BY <3>1, AllUploaded
    <3>3. Fit(c, x5, P4)
      BY <1>0, <2>2, <3>1, <3>2 DEF Fit
    <3> QED
      BY <1>0, <2>3, <3>3, StepKeeps
  <2>8. P \subseteq P5
    BY <2>1
  <2> HIDE DEF P2, P3, P4, P5
  <2>9. Keeps(c, ModeScript(c), P, P5)
    BY <1>1, <2>1, <2>4, <2>5, <2>6, <2>7, JoinKeeps DEF ModeScript, Local, NoObj, LkObj
  <2> QED
    BY <2>8, <2>9
<1>2. ASSUME c.mode = "REPL" PROVE \E Q : Keeps(c, ModeScript(c), P, Q) /\ P \subseteq Q
  <2>1. Fit(c, Stp("repl", NoObj), P)
    <3>1. Stp("repl", NoObj).op = "repl"
      BY ObjFacts
    <3> QED
      BY <1>0, <1>2, <3>1 DEF Fit
  <2>2. Keeps(c, Step("repl", NoObj), P, P \cup {Stp("repl", NoObj)})
    BY <1>0, <2>1, StepKeeps
  <2> QED
    BY <1>2, <2>2 DEF ModeScript, Local, NoObj
<1>3. ASSUME c.mode \notin {"LK", "REPL"}, NEW o \in {LkObj, <<"cli", 0>>},
             ModeScript(c) = Step("jump", o)
      PROVE  \E Q : Keeps(c, ModeScript(c), P, Q) /\ P \subseteq Q
  <2>1. UsageOK(c) => \A x \in Objects(c) : Stp("upload", x) \in P
    BY <1>3, AllUploaded
  <2>2. Fit(c, Stp("jump", o), P)
    <3>1. Stp("jump", o).op = "jump" /\ Stp("jump", o).obj = o
      BY ObjFacts
    <3> QED
      BY <1>0, <1>3, <2>1, <3>1 DEF Fit
  <2>3. Keeps(c, Step("jump", o), P, P \cup {Stp("jump", o)})
    BY <1>0, <2>2, StepKeeps
  <2> QED
    BY <1>3, <2>3
<1>4. c.mode \in {"LK", "REPL"} \/ ModeScript(c) = Step("jump", LkObj)
      \/ ModeScript(c) = Step("jump", <<"cli", 0>>)
  BY DEF ModeScript, LkObj
<1> QED
  BY <1>1, <1>2, <1>3, <1>4

(* What has been done when a payload is next.                              *)
Early(P) ==
  /\ Stp("main", NoObj) \in P
  /\ \A x \in P : ~ Effective(x) /\ x.obj \in {NoObj, PreloaderObj}

LEMMA EarlyStep ==
  ASSUME NEW P, NEW op, op \notin {"upload", "reserve", "alloc", "set_lk", "hook"},
         NEW o \in {NoObj, PreloaderObj}, Early(P)
  PROVE  Early(P \cup {Stp(op, o)})
<1>1. ~ Effective(Stp(op, o)) /\ Stp(op, o).obj \in {NoObj, PreloaderObj}
  BY ObjFacts DEF Effective
<1> QED
  BY <1>1 DEF Early

LEMMA PreloaderKeeps ==
  ASSUME NEW c \in Configs, NEW P, Early(P)
  PROVE  \E Q : /\ Keeps(c, PreloaderScript(c), P, Q)
                /\ Stp("main", NoObj) \in Q /\ Stp("payload_pl", NoObj) \in Q
<1> DEFINE x1 == Stp("params_pl", NoObj)
           x2 == Stp("extract", NoObj)
           x3 == Stp("payload_pl", NoObj)
           x4 == Stp("start", NoObj)
           x5 == Stp("set_pl", NoObj)
           P1 == P \cup {x1}
           P2 == P1 \cup {x2}
           P3 == P2 \cup {x3}
           P4 == P3 \cup {x4}
           P5 == P4 \cup {x5}
<1>1. {"params_pl", "payload_pl"} \subseteq Ops /\ NoObj \in Objs
  BY ObjFacts DEF Ops
<1>2. x1.op = "params_pl" /\ x3.op = "payload_pl" /\ x1.obj = NoObj /\ x3.obj = NoObj
  BY ObjFacts
<1>3. Early(P1) /\ Early(P2) /\ Early(P3) /\ Early(P4) /\ Early(P5)
  <2>1. Early(P1)
    BY EarlyStep
  <2>2. Early(P2)
    BY <2>1, EarlyStep
  <2>3. Early(P3)
    BY <2>2, EarlyStep
  <2>4. Early(P4)
    BY <2>3, EarlyStep
  <2>5. Early(P5)
    BY <2>4, EarlyStep
  <2> QED
    BY <2>1, <2>2, <2>3, <2>4, <2>5
<1>4. /\ x1 = Stp("params_pl", NoObj) /\ x2 = Stp("extract", NoObj)
      /\ x3 = Stp("payload_pl", NoObj) /\ x4 = Stp("start", NoObj)
      /\ x5 = Stp("set_pl", NoObj)
  OBVIOUS
<1> HIDE DEF x1, x2, x3, x4, x5
<1>5. Keeps(c, Local("params_pl"), P, P1)
  <2>1. Fit(c, x1, P)
    BY <1>2 DEF Fit
  <2> QED
    BY <1>1, <1>4, <2>1, StepKeeps DEF Local, NoObj
<1>6. Keeps(c, Local("extract"), P1, P2)
  BY <1>4, FreeKeeps
<1>7. Keeps(c, Local("payload_pl"), P2, P3)
  <2>1. x1 \in P2 /\ Early(P2)
    BY <1>3
  <2> HIDE DEF P1, P2
  <2>2. Fit(c, x3, P2)
    BY <1>2, <1>4, <2>1 DEF Fit, Early
  <2> QED
    BY <1>1, <1>4, <2>2, StepKeeps DEF Local, NoObj
<1>8. Keeps(c, Local("start"), P3, P4)
  BY <1>4, FreeKeeps
<1>9. Keeps(c, Local("set_pl"), P4, P5)
  BY <1>4, FreeKeeps
<1>10. Before1(c, P5)
  <2>1. x3 \in P5 /\ Early(P5)
    BY <1>3
  <2> HIDE DEF P1, P2, P3, P4, P5
  <2> QED
    BY <1>4, <2>1 DEF Before1, Early
<1>11. Stp("payload_pl", NoObj) \in P5
  BY <1>4
<1> HIDE DEF P1, P2, P3, P4, P5
<1>12. PICK P6 : Keeps(c, Uploads(c), P5, P6) /\ P5 \subseteq P6 /\ Before2(c, P6)
  BY <1>10, UploadsKeep
<1>13. PICK P7 : Keeps(c, LkScript(c), P6, P7) /\ Before3(c, P7)
  BY <1>11, <1>12, LkKeeps
<1>14. PICK P8 : Keeps(c, ModeScript(c), P7, P8) /\ P7 \subseteq P8
  BY <1>13, ModeKeeps
<1>15. Keeps(c, PreloaderScript(c), P, P8)
  BY <1>5, <1>6, <1>7, <1>8, <1>9, <1>12, <1>13, <1>14, JoinKeeps DEF PreloaderScript
<1> QED
  BY <1>13, <1>14, <1>15 DEF Before3

LEMMA BromKeeps ==
  ASSUME NEW c \in Configs, NEW P, P = {Stp("main", NoObj)}, c.dev = "rom"
  PROVE  /\ c.mode = "BootROM" =>
              \E Q : /\ Keeps(c, BromScript(c), P, Q) /\ Stp("main", NoObj) \in Q
                     /\ UsageOK(c) => \A o \in Objects(c) : Stp("upload", o) \in Q
         /\ c.mode # "BootROM" => \E Q : Keeps(c, BromScript(c), P, Q) /\ Early(Q)
<1> DEFINE x1 == Stp("params_brom", NoObj)
           x2 == Stp("payload_brom", NoObj)
           x3 == Stp("start", NoObj)
           P1 == P \cup {x1}
           P2 == P1 \cup {x2}
           P3 == P2 \cup {x3}
           first == Local("params_brom") \o Local("payload_brom") \o Local("start")
<1>1. {"params_brom", "payload_brom", "upload", "jump"} \subseteq Ops /\ NoObj \in Objs
      /\ PreloaderObj \in Objs
  BY ObjFacts DEF Ops
<1>2. /\ x1.op = "params_brom" /\ x2.op = "payload_brom" /\ x3.op = "start"
      /\ x1.obj = NoObj /\ x2.obj = NoObj /\ x3.obj = NoObj
  BY ObjFacts
<1>3. Early(P) /\ Early(P1) /\ Early(P2) /\ Early(P3)
  <2>0. Early(P)
    BY ObjFacts DEF Early, Effective
  <2>1. Early(P1)
    BY <2>0, EarlyStep
  <2>2. Early(P2)
    BY <2>1, EarlyStep
  <2>3. Early(P3)
    BY <2>2, EarlyStep
  <2> QED
    BY <2>0, <2>1, <2>2, <2>3
<1>4. /\ x1 = Stp("params_brom", NoObj) /\ x2 = Stp("payload_brom", NoObj)
      /\ x3 = Stp("start", NoObj)
  OBVIOUS
<1>5. \A x \in P3 : x.op \in {"main", "params_brom", "payload_brom", "start"}
  BY <1>2, ObjFacts
<1> HIDE DEF x1, x2, x3
<1>6. Keeps(c, Local("params_brom"), P, P1)
  <2>1. Fit(c, x1, P)
    BY <1>2 DEF Fit
  <2> QED
    BY <1>1, <1>4, <2>1, StepKeeps DEF Local, NoObj
<1>7. Keeps(c, Local("payload_brom"), P1, P2)
  <2>1. x1 \in P1 /\ Early(P1) /\ \A x \in P1 : x.op \notin {"upload", "payload_pl"}
    BY <1>3, <1>5
  <2> HIDE DEF P1
  <2>2. Fit(c, x2, P1)
    BY <1>2, <1>4, <2>1 DEF Fit, Early
  <2> QED
    BY <1>1, <1>4, <2>2, StepKeeps DEF Local, NoObj
<1>8. Keeps(c, Local("start"), P2, P3)
  BY <1>4, FreeKeeps
<1> HIDE DEF P1, P2, P3
<1>9. Keeps(c, first, P, P3)
  BY <1>6, <1>7, <1>8, JoinKeeps
<1>10. ASSUME c.mode = "BootROM"
       PROVE  \E Q : /\ Keeps(c, BromScript(c), P, Q) /\ Stp("main", NoObj) \in Q
                     /\ UsageOK(c) => \A o \in Objects(c) : Stp("upload", o) \in Q
  <2> DEFINE P4 == P3 \cup {Stp("any_input", NoObj)}
  <2>1. Keeps(c, Local("any_input"), P3, P4)
    BY FreeKeeps
  <2>2. Early(P4)
    BY <1>3, EarlyStep
  <2>3. Stp("upload", PreloaderObj) \notin P4
    <3>1. Stp("upload", PreloaderObj).op = "upload" /\ Stp("any_input", NoObj).op = "any_input"
      BY ObjFacts
    <3> QED
      BY <1>5, <3>1
  <2> HIDE DEF P4
  <2>4. Before1(c, P4)
    BY <2>2, <2>3 DEF Before1, Early
  <2>5. PICK P5 : Keeps(c, Uploads(c), P4, P5) /\ Before2(c, P5)
    BY <2>4, UploadsKeep
  <2>6. Keeps(c, Local("any_input") \o Uploads(c), P3, P5)
    BY <2>1, <2>5, JoinKeeps
  <2>7. BromScript(c) = first \o (Local("any_input") \o Uploads(c))
    BY <1>10 DEF BromScript
  <2> HIDE DEF first
  <2>8. Keeps(c, BromScript(c), P, P5)
    BY <1>9, <2>6, <2>7, JoinKeeps
  <2>9. UsageOK(c) => Objects(c) = {<<"up", i>> : i \in 1..Len(c.upload)}
    <3>1. UsageOK(c) => ~ c.kernel > 0
      BY <1>10 DEF UsageOK
    <3> QED
      BY <1>10, <3>1 DEF Objects
  <2>10. UsageOK(c) => \A o \in Objects(c) : Stp("upload", o) \in P5
    BY <2>5, <2>9 DEF Before2
  <2> QED
    BY <2>5, <2>8, <2>10 DEF Before2
<1>11. ASSUME c.mode # "BootROM" PROVE \E Q : Keeps(c, BromScript(c), P, Q) /\ Early(Q)
  <2> DEFINE y1 == Stp("upload", PreloaderObj)
             y2 == Stp("jump", PreloaderObj)
             P4 == P3 \cup {y1}
             P5 == P4 \cup {y2}
  <2>1. y1.op = "upload" /\ y2.op = "jump" /\ y1.obj = PreloaderObj /\ y2.obj = PreloaderObj
    BY ObjFacts
  <2>2. y1 = Stp("upload", PreloaderObj) /\ y2 = Stp("jump", PreloaderObj)
    OBVIOUS
  <2> HIDE DEF y1, y2
  <2>3. Keeps(c, Step("upload", PreloaderObj), P3, P4)
    <3>1. Fit(c, y1, P3)
      BY <1>3, <1>5, <2>1 DEF Fit, Early
    <3> QED
      BY <1>1, <2>2, <3>1, StepKeeps
  <2>4. Keeps(c, Step("jump", PreloaderObj), P4, P5)
    <3>1. Stp("payload_pl", NoObj) \notin P4
      <4>1. Stp("payload_pl", NoObj).op = "payload_pl"
        BY ObjFacts
      <4> QED
        BY <1>5, <2>1, <4>1
    <3>2. Fit(c, y2, P4)
      BY <1>3, <2>1, <2>2, <3>1 DEF Fit, Early
    <3> QED
      BY <1>1, <2>2, <3>2, StepKeeps
  <2>5. Early(P5)
    BY <1>3, <2>1 DEF Early, Effective
  <2> HIDE DEF P4, P5
  <2>6. Keeps(c, Step("upload", PreloaderObj) \o Step("jump", PreloaderObj), P3, P5)
    BY <2>3, <2>4, JoinKeeps
  <2>7. BromScript(c) = first \o (Step("upload", PreloaderObj) \o Step("jump", PreloaderObj))
    BY <1>11 DEF BromScript, PreloaderObj
  <2> HIDE DEF first
  <2>8. Keeps(c, BromScript(c), P, P5)
    BY <1>9, <2>6, <2>7, JoinKeeps
  <2> QED
    BY <2>5, <2>8
<1> QED
  BY <1>10, <1>11

LEMMA ScriptKeeps ==
  ASSUME NEW c \in Configs
  PROVE  \E Q : /\ Keeps(c, Script(c), {}, Q) /\ Stp("main", NoObj) \in Q
                /\ Stp("payload_pl", NoObj) \notin Q /\ UsageOK(c) =>
                     \A o \in Objects(c) : Stp("upload", o) \in Q
<1> DEFINE P == {Stp("main", NoObj)}
<1>1. Keeps(c, Local("main"), {}, P)
  <2>1. "main" \in Ops /\ NoObj \in Objs
    BY ObjFacts DEF Ops
  <2>2. Fit(c, Stp("main", NoObj), {})
    BY ObjFacts DEF Fit
  <2> QED
    BY <2>1, <2>2, StepKeeps DEF Local, NoObj
<1>2. Early(P)
  BY ObjFacts DEF Early, Effective
<1>3. P = {Stp("main", NoObj)}
  OBVIOUS
<1> HIDE DEF P
<1>4. CASE c.dev # "rom"
  <2>1. PICK Q : /\ Keeps(c, PreloaderScript(c), P, Q)
                 /\ Stp("main", NoObj) \in Q /\ Stp("payload_pl", NoObj) \in Q
    BY <1>2, PreloaderKeeps
  <2>2. Script(c) = Local("main") \o PreloaderScript(c)
    BY <1>4 DEF Script
  <2> QED
    BY <1>1, <2>1, <2>2, JoinKeeps
<1>5. CASE c.dev = "rom" /\ c.mode = "BootROM"
  <2>1. PICK Q : /\ Keeps(c, BromScript(c), P, Q) /\ Stp("main", NoObj) \in Q
                 /\ UsageOK(c) => \A o \in Objects(c) : Stp("upload", o) \in Q
    BY <1>3, <1>5, BromKeeps
  <2>2. Keeps(c, BromScript(c) \o <<>>, P, Q)
    BY <2>1, EmptyKeeps, JoinKeeps
  <2>3. Script(c) = Local("main") \o (BromScript(c) \o <<>>)
    BY <1>5 DEF Script
  <2>4. Keeps(c, Script(c), {}, Q)
    BY <1>1, <2>2, <2>3, JoinKeeps
  <2> QED
    BY <2>1, <2>4
<1>6. CASE c.dev = "rom" /\ c.mode # "BootROM"
  <2>1. PICK Q : Keeps(c, BromScript(c), P, Q) /\ Early(Q)
    BY <1>3, <1>6, BromKeeps
  <2> DEFINE R == Q \cup {Stp("open_port", NoObj)}
  <2>2. Keeps(c, Local("open_port"), Q, R)
    BY FreeKeeps
  <2>3. Early(R)
    BY <2>1, EarlyStep
  <2> HIDE DEF R
  <2>4. PICK T : /\ Keeps(c, PreloaderScript(c), R, T)
                 /\ Stp("main", NoObj) \in T /\ Stp("payload_pl", NoObj) \in T
    BY <2>3, PreloaderKeeps
  <2>5. Keeps(c, Local("open_port") \o PreloaderScript(c), Q, T)
    BY <2>2, <2>4, JoinKeeps
  <2>6. Keeps(c, BromScript(c) \o (Local("open_port") \o PreloaderScript(c)), P, T)
    BY <2>1, <2>5, JoinKeeps
  <2>7. Script(c) = Local("main") \o (BromScript(c) \o (Local("open_port") \o PreloaderScript(c)))
    BY <1>6 DEF Script
  <2>8. Keeps(c, Script(c), {}, T)
    BY <1>1, <2>6, <2>7, JoinKeeps
  <2> QED
    BY <2>4, <2>8
<1> QED
  BY <1>4, <1>5, <1>6

LEMMA ScriptSound ==
  ASSUME NEW c \in Configs
  PROVE  Sound(c)
<1>1. PICK Q : /\ Keeps(c, Script(c), {}, Q) /\ Stp("main", NoObj) \in Q
               /\ Stp("payload_pl", NoObj) \notin Q /\ UsageOK(c) =>
                    \A o \in Objects(c) : Stp("upload", o) \in Q
  BY ScriptKeeps
<1> DEFINE s == Script(c)
<1>2. \A n : Past(c, n) = {} \cup {s[j] : j \in 1..n}
  BY DEF Past
<1>3. Q = Past(c, Len(s))
  BY <1>1, <1>2 DEF Keeps
<1>4. ASSUME NEW i \in 1..Len(s) PROVE Fit(c, s[i], Past(c, i - 1))
  <2>1. Fit(c, s[i], {} \cup {s[j] : j \in 1..(i - 1)})
    BY <1>1 DEF Keeps
  <2> QED
    BY <1>2, <2>1
<1> QED
  BY <1>1, <1>3, <1>4 DEF Sound

(* What has been done.                                                     *)

LEMMA PastGrows ==
  ASSUME NEW c \in Configs, NEW n \in Nat
  PROVE  /\ Past(c, n + 1) = Past(c, n) \cup {Script(c)[n + 1]}
         /\ \A k \in Nat : k <= n => Past(c, k) \subseteq Past(c, n)
<1>1. 1..(n + 1) = 1..n \cup {n + 1}
  OBVIOUS
<1>2. \A k \in Nat : k <= n => 1..k \subseteq 1..n
  OBVIOUS
<1> QED
  BY <1>1, <1>2 DEF Past

LEMMA HereFits ==
  ASSUME SlotsInv, ip \in 1..Len(Script(cfg))
  PROVE  Fit(cfg, Here, Done) /\ Here \in Steps
<1>1. cfg \in Configs
  BY DEF SlotsInv
<1>2. Sound(cfg) /\ Here \in Steps
  BY <1>1, ScriptSound, PlaceOfStep DEF Here
<1> QED
  BY <1>2 DEF Sound, Here, Done

(* A step that is done had its place, too.                                 *)
LEMMA DoneFits ==
  ASSUME SlotsInv, StageInv, NEW st \in Done
  PROVE  st \in Steps /\ \E P \in SUBSET Done : Fit(cfg, st, P)
<1>1. cfg \in Configs
  BY DEF SlotsInv
<1>2. Len(Script(cfg)) \in Nat /\ ip \in 1..(Len(Script(cfg)) + 1)
  BY <1>1, LabelFacts DEF StageInv
<1>3. PICK j \in 1..(ip - 1) : st = Script(cfg)[j]
  BY DEF Done, Past
<1>4. j \in 1..Len(Script(cfg)) /\ j - 1 \in Nat /\ ip - 1 \in Nat /\ j - 1 <= ip - 1
  BY <1>2, <1>3
<1>5. Fit(cfg, st, Past(cfg, j - 1)) /\ st \in Steps
  BY <1>1, <1>3, <1>4, ScriptSound, PlaceOfStep DEF Sound
<1>6. Past(cfg, j - 1) \subseteq Done
  BY <1>1, <1>4, PastGrows DEF Done
<1> QED
  BY <1>5, <1>6

LEMMA DoneGoesOn ==
  ASSUME SlotsInv, ip \in Nat \ {0}, cfg' = cfg, ip' = ip + 1
  PROVE  Done' = Done \cup {Here}
<1>1. cfg \in Configs /\ ip - 1 \in Nat /\ (ip - 1) + 1 = ip /\ ip' - 1 = ip
  BY DEF SlotsInv
<1>2. Past(cfg, (ip - 1) + 1) = Past(cfg, ip - 1) \cup {Script(cfg)[(ip - 1) + 1]}
  BY <1>1, PastGrows
<1>3. Past(cfg, ip) = Past(cfg, ip - 1) \cup {Script(cfg)[ip]}
  BY <1>1, <1>2
<1> QED
  BY <1>1, <1>3 DEF Done, Here

-----------------------------------------------------------------------------
(* The objects.                                                            *)

LEMMA SeqElement ==
  ASSUME NEW S, NEW s \in Seq(S), NEW i \in 1..Len(s)
  PROVE  s[i] \in S
OBVIOUS

LEMMA FixedFacts ==
  ASSUME SlotsInv, NEW o \in Fixed(cfg) \cup {PreloaderObj}
  PROVE  Addr(o) \in U32 /\ Addr(o) \in Int /\ Length(o) \in Nat
<1>1. /\ cfg \in Configs /\ cfg.upload \in Seq([addr : U32 \ {0}, len : Nat])
  BY ConfigsAssumption DEF SlotsInv
<1>2. U32 \subseteq Int
  BY U32MaxAssumption DEF U32
<1>3. CASE o = LkObj
  BY <1>2, <1>3, LayoutAssumption DEF LkObj, Addr, Length
<1>4. CASE o = PreloaderObj
  BY <1>2, <1>4, LayoutAssumption DEF PreloaderObj, Addr, Length
<1>5. ASSUME NEW i \in 1..Len(cfg.upload), o = <<"up", i>>
      PROVE  Addr(o) \in U32 /\ Addr(o) \in Int /\ Length(o) \in Nat
  <2>1. cfg.upload[i] \in [addr : U32 \ {0}, len : Nat]
    BY <1>1, SeqElement
  <2>2. Addr(o) = cfg.upload[i].addr /\ Length(o) = cfg.upload[i].len
    BY <1>5 DEF Addr, Length
  <2> QED
    BY <1>2, <2>1, <2>2
<1> QED
  BY <1>3, <1>4, <1>5 DEF Fixed

LEMMA ChosenFacts ==
  ASSUME SlotsInv, StageInv, NEW o \in Chosen
  PROVE  Addr(o) = place[o[1]] /\ Addr(o) \in Int /\ Length(o) \in Nat
         /\ o[1] \in {"bootarg", "bootimg"}
<1>1. cfg \in Configs /\ place \in [{"bootarg", "bootimg"} -> Int]
  BY DEF SlotsInv, StageInv
<1> QED
  BY <1>1, ConfigsAssumption, LayoutAssumption DEF Chosen, ArgObj, ImgObj, Addr, Length

LEMMA ObjectsApart ==
  ASSUME SlotsInv
  PROVE  /\ Fixed(cfg) \cap Chosen = {} /\ PreloaderObj \notin Fixed(cfg) \cup Chosen
         /\ \A o \in Fixed(cfg) \cup {PreloaderObj} : o[1] \in {"up", "lk", "preloader"}
         /\ Objects(cfg) \subseteq Fixed(cfg) \cup Chosen
<1>1. \A i \in 1..Len(cfg.upload) : i \in Nat
  BY ConfigFacts DEF SlotsInv
<1>2. Fixed(cfg) \cap Chosen = {} /\ PreloaderObj \notin Fixed(cfg) \cup Chosen
  BY <1>1, ObjsDiffer DEF Fixed, Chosen
<1>3. \A o \in Fixed(cfg) \cup {PreloaderObj} : o[1] \in {"up", "lk", "preloader"}
  BY DEF Fixed, LkObj, PreloaderObj
<1>4. Objects(cfg) \subseteq Fixed(cfg) \cup Chosen
  BY DEF Objects, Fixed, Chosen, LkObj, ArgObj, ImgObj
<1> QED
  BY <1>2, <1>3, <1>4

(* What has a fixed place keeps it.                                        *)
LEMMA FixedStay ==
  ASSUME cfg' = cfg, SlotsInv
  PROVE  /\ \A o : Length(o)' = Length(o)
         /\ \A o \in Fixed(cfg) \cup {PreloaderObj} : Addr(o)' = Addr(o)
         /\ Fixed(cfg)' = Fixed(cfg) /\ WellPlaced' = WellPlaced
<1>1. \A o : Length(o)' = Length(o)
  BY DEF Length
<1>2. \A o \in Fixed(cfg) \cup {PreloaderObj} : Addr(o)' = Addr(o)
  <2>1. \A o : o[1] \in {"up", "lk", "preloader"} => Addr(o)' = Addr(o)
    BY DEF Addr
  <2> QED
    BY <2>1, ObjectsApart
<1>3. Fixed(cfg)' = Fixed(cfg)
  BY DEF Fixed
<1>4. \A o \in Fixed(cfg) : InSpace(o)' = InSpace(o) /\ Loc(o)' = Loc(o)
  BY <1>1, <1>2 DEF InSpace, Loc, Range
<1>5. WellPlaced' = WellPlaced
  BY <1>3, <1>4 DEF WellPlaced, Bss, Overlap
<1> QED
  BY <1>1, <1>2, <1>3, <1>5

LEMMA AreasStay ==
  ASSUME cfg' = cfg, SlotsInv, areas' = areas
  PROVE  OwnRanges' = OwnRanges /\ KeepsClear' = KeepsClear /\ BssClear' = BssClear
<1>1. OwnRanges' = OwnRanges
  BY DEF OwnRanges
<1>2. \A o \in Fixed(cfg) \cup {PreloaderObj} :
        HitsPayload(Addr(o), Length(o))' = HitsPayload(Addr(o), Length(o))
  BY <1>1, FixedStay DEF HitsPayload, Overlap, Range
<1>3. KeepsClear' = KeepsClear
  BY <1>2, FixedStay DEF KeepsClear
<1>4. BssClear' = BssClear
  BY <1>1 DEF BssClear, Bss, Overlap
<1> QED
  BY <1>1, <1>3, <1>4

(* And so does everything, when the device names no place.                 *)
LEMMA PlacesStay ==
  ASSUME cfg' = cfg, place' = place
  PROVE  /\ \A o : Addr(o)' = Addr(o) /\ Length(o)' = Length(o)
         /\ \A o : Loc(o)' = Loc(o) /\ InSpace(o)' = InSpace(o) /\ Reserved(o)' = Reserved(o)
         /\ \A o : JumpArg(o)' = JumpArg(o)
         /\ LkPtrs' = LkPtrs
<1>1. \A o : Addr(o)' = Addr(o) /\ Length(o)' = Length(o)
  BY DEF Addr, Length
<1>2. \A o : Loc(o)' = Loc(o) /\ InSpace(o)' = InSpace(o) /\ Reserved(o)' = Reserved(o)
  BY <1>1 DEF Loc, InSpace, Reserved, Range
<1>3. \A o : JumpArg(o)' = JumpArg(o)
  BY <1>1 DEF JumpArg
<1>4. LkPtrs' = LkPtrs
  BY DEF LkPtrs, BootimgAddr
<1> QED
  BY <1>1, <1>2, <1>3, <1>4

(* What a step has left behind is still there when nothing changes.        *)
LEMMA EffectsStay ==
  ASSUME SlotsInv, cfg' = cfg, place' = place, UNCHANGED <<stage, mem, params, areas, lkParams>>
  PROVE  /\ \A st : Effect(st)' = Effect(st)
         /\ \A o, n : Upto(o, n)' = Upto(o, n)
         /\ \A o : Intact(o)' = Intact(o)
         /\ \A o : Listed(Reserved(o))' = Listed(Reserved(o))
         /\ Hooked' = Hooked /\ WellPlaced' = WellPlaced
<1>1. /\ \A o : Addr(o)' = Addr(o) /\ Length(o)' = Length(o)
      /\ \A o : Loc(o)' = Loc(o) /\ InSpace(o)' = InSpace(o) /\ Reserved(o)' = Reserved(o)
      /\ LkPtrs' = LkPtrs
  BY PlacesStay
<1>2. Fixed(cfg)' = Fixed(cfg) /\ WellPlaced' = WellPlaced /\ OwnRanges' = OwnRanges
  BY FixedStay, AreasStay
<1>3. \A o, n : Upto(o, n)' = Upto(o, n)
  BY <1>1 DEF Upto, Byte
<1>4. \A o : Intact(o)' = Intact(o)
  BY <1>1 DEF Intact, Byte, HookRange
<1>5. \A o : Listed(Reserved(o))' = Listed(Reserved(o))
  BY <1>1 DEF Listed, IsListed
<1>6. Hooked' = Hooked
  BY DEF Hooked, HookRange
<1>7. \A o : ClearOf(o)' = ClearOf(o)
  BY <1>1, <1>2 DEF ClearOf, Overlap, Bss
<1>8. \A st : Effect(st)' = Effect(st)
  BY <1>1, <1>2, <1>4, <1>5, <1>6, <1>7 DEF Effect
<1> QED
  BY <1>2, <1>3, <1>4, <1>5, <1>6, <1>8

LEMMA DeviceStays ==
  ASSUME SlotsInv, MemInv, cfg' = cfg, UNCHANGED dev
  PROVE  AreaInv' /\ HoldInv' /\ GonePreloader' /\ Tame' = Tame
<1>1. /\ UNCHANGED <<phase, stage, mem, params, base, areas, lkParams, entry>>
  BY DEF dev
<1>2. OwnRanges' = OwnRanges /\ KeepsClear' = KeepsClear /\ BssClear' = BssClear
  BY <1>1, AreasStay
<1>3. Tame' = Tame
  BY <1>1 DEF Tame
<1>4. AreaInv'
  <2>1. AreaInv
    BY DEF MemInv
  <2> QED
    BY <1>1, <1>2, <2>1 DEF AreaInv, Covered, Listed, IsListed, Bss
<1>5. HoldInv'
  <2>1. HoldInv
    BY DEF MemInv
  <2> QED
    BY <1>1, <1>2, <1>3, <2>1 DEF HoldInv, Alive, Started, Holds
<1>6. GonePreloader'
  <2>1. GonePreloader
    BY DEF MemInv
  <2>2. Addr(PreloaderObj)' = Addr(PreloaderObj) /\ Length(PreloaderObj)' = Length(PreloaderObj)
    BY FixedStay
  <2> QED
    BY <1>1, <2>1, <2>2 DEF GonePreloader, Intact, HookRange
<1> QED
  BY <1>3, <1>4, <1>5, <1>6

(* The host stays where it is, or gives up.                                *)
LEMMA HostStands ==
  ASSUME SlotsInv, MemInv, hstat = "running", UNCHANGED <<cfg, ip, place, dev>>,
         hstat' \in {"running", "failed"}, hparams' = hparams \/ hstat' = "failed",
         PendInv', ProgressInv' \/ hstat' = "failed",
         phase \notin {"app", "stack", "main"} \/ toDev' = toDev
  PROVE  MemInv'
<1>0. /\ UNCHANGED <<phase, stage, mem, params, base, areas, lkParams, entry>>
  BY DEF dev
<1>1. AreaInv' /\ HoldInv' /\ GonePreloader' /\ Tame' = Tame
  BY DeviceStays
<1>2. Done' = Done /\ Here' = Here /\ Lbl' = Lbl
  BY SameHost DEF Done
<1>3. CopyInv'
  <2>1. CopyInv
    BY DEF MemInv
  <2> QED
    BY <1>2, <2>1 DEF CopyInv, IsListed, Bss
<1>4. StageInv'
  <2>1. StageInv
    BY DEF MemInv
  <2> QED
    BY <1>0, <1>2, <2>1 DEF StageInv
<1>5. EffectInv'
  <2>1. EffectInv /\ \A st : Effect(st)' = Effect(st)
    BY <1>0, EffectsStay DEF MemInv
  <2> QED
    BY <1>0, <1>1, <1>2, <2>1 DEF EffectInv
<1>6. LkInv'
  <2>1. LkInv /\ LkPtrs' = LkPtrs
    BY PlacesStay DEF MemInv
  <2> QED
    BY <1>0, <1>1, <1>2, <2>1 DEF LkInv
<1>7. GoneBoot'
  <2>1. GoneBoot
    BY DEF MemInv
  <2> QED
    BY <1>0, <1>1, <1>2, <2>1 DEF GoneBoot, Objects
<1>8. ProgressInv'
  BY DEF ProgressInv
<1> QED
  BY <1>1, <1>3, <1>4, <1>5, <1>6, <1>7, <1>8 DEF MemInv

(* The wire to the device does not change.                                 *)
LEMMA WireStays ==
  ASSUME MemInv, UNCHANGED <<cfg, ip, off, place, stage, phase, toDev>>
  PROVE  PendInv'
<1>1. PendInv
  BY DEF MemInv
<1>2. Tame' = Tame /\ Here' = Here /\ Carries0' = Carries0
  BY SameHost DEF Tame, Carries0
<1>3. /\ \A o : Addr(o)' = Addr(o) /\ Length(o)' = Length(o)
      /\ \A o : Reserved(o)' = Reserved(o) /\ JumpArg(o)' = JumpArg(o)
      /\ LkPtrs' = LkPtrs
  BY PlacesStay
<1>4. \A o : ChunkOf(o)' = ChunkOf(o)
  BY <1>3 DEF ChunkOf, ChunkLen
<1>5. \A m, d : Sent(m, d)' = Sent(m, d)
  BY <1>2, <1>3, <1>4 DEF Sent
<1>6. \A m : SentJump(m)' = SentJump(m)
  BY <1>3 DEF SentJump
<1>7. \A m, d : Carries1(m)' = Carries1(m) /\ Carries2(m, d)' = Carries2(m, d)
  BY DEF Carries1, Carries2
<1> QED
  BY <1>1, <1>2, <1>5, <1>6, <1>7 DEF PendInv

LEMMA GivesUpMem ==
  ASSUME SlotsInv, MemInv, hstat = "running", NEW e, Fail(e), UNCHANGED <<dev, toDev>>
  PROVE  MemInv'
<1>1. UNCHANGED <<cfg, ip, off, place>> /\ hstat' = "failed"
  BY DEF Fail
<1>2. UNCHANGED <<stage, phase>>
  BY DEF dev
<1>3. PendInv'
  BY <1>1, <1>2, WireStays
<1> QED
  BY <1>1, <1>3, HostStands

-----------------------------------------------------------------------------
(* The host goes on.                                                       *)

LEMMA Uploaded ==
  ASSUME SlotsInv, StageInv, ip \in 1..Len(Script(cfg)), Here.op = "upload"
  PROVE  /\ Here.obj \in Fixed(cfg) \cup Chosen \cup {PreloaderObj}
         /\ Addr(Here.obj) \in Int /\ Length(Here.obj) \in Nat
<1>1. Here.obj \in Fixed(cfg) \cup Chosen \cup {PreloaderObj}
  BY HereFits DEF Fit
<1> QED
  BY <1>1, FixedFacts, ChosenFacts

(* A step that starts at rest has done nothing yet.                        *)
LEMMA ProgressAtRest == IInv /\ StageInv /\ off = 0 /\ waiting = FALSE => ProgressInv
<1> SUFFICES ASSUME IInv, StageInv, off = 0, waiting = FALSE, hstat = "running"
             PROVE  ProgressInv
  BY DEF ProgressInv
<1>1. SlotsInv /\ HostInv /\ ip \in 1..Len(Script(cfg))
  BY DEF IInv, HostInv
<1>2. Here.op \in {"upload", "reserve", "hook"} => toHost = <<>>
  BY OnAt DEF Talks, Asked, Answered, Lost, Rest
<1>3. Here.op = "upload" => off \in 0..Length(Here.obj) /\ Upto(Here.obj, off)
  <2>1. Here.op = "upload" => Length(Here.obj) \in Nat
    BY <1>1, Uploaded
  <2>2. 0..(0 - 1) = {}
    OBVIOUS
  <2> QED
    BY <2>1, <2>2 DEF Upto
<1> QED
  BY <1>2, <1>3 DEF ProgressInv

LEMMA ProgressAtRestNext ==
  (IInv /\ StageInv /\ off = 0 /\ waiting = FALSE => ProgressInv)'
BY ProgressAtRest, PTL

(* The step that is done, and what is known of the device.                 *)
LEMMA StageGoesOn ==
  ASSUME SlotsInv, HostInv, StageInv, hstat = "running", Advance, UNCHANGED <<phase, stage>>,
         Here.op \notin {"payload_brom", "payload_pl"}, phase \notin {"app", "stack", "main"},
         Here.op = "main" => UsageOK(cfg), place' \in [{"bootarg", "bootimg"} -> Int]
  PROVE  /\ StageInv' /\ Done' = Done \cup {Here} /\ off' = 0 /\ waiting' = FALSE
         /\ Here \in Steps /\ Fit(cfg, Here, Done)
<1> DEFINE n == Len(Script(cfg))
<1>1. /\ cfg' = cfg /\ ip' = ip + 1 /\ off' = 0 /\ waiting' = FALSE
      /\ hstat' = IF ip = n THEN "ok" ELSE "running"
  BY DEF Advance
<1>2. ip \in 1..n /\ n \in Nat
  BY Where
<1>3. Here \in Steps /\ Fit(cfg, Here, Done)
  BY <1>2, HereFits
<1> HIDE DEF n
<1>4. Done' = Done \cup {Here}
  BY <1>1, <1>2, DoneGoesOn
<1>5. /\ ip' \in 1..(n + 1) /\ (ip' <= n \/ hstat' = "ok")
      /\ hstat' = "ok" => ip' = n + 1
  BY <1>1, <1>2
<1>6. /\ Here.op # "payload_pl" => Here # Stp("payload_pl", NoObj)
      /\ Here.op # "main" => Here # Stp("main", NoObj)
  BY ObjFacts
<1>7. /\ stage' \in {"brom", "pl"}
      /\ stage' = "pl" <=> Stp("payload_pl", NoObj) \in Done'
      /\ Stp("main", NoObj) \in Done' => UsageOK(cfg)
      /\ phase' \in {"booted", "lk"} => stage' = "pl"
  BY <1>4, <1>6 DEF StageInv
<1>8. UsageOK(cfg)' = UsageOK(cfg) /\ Len(Script(cfg))' = n
  BY <1>1 DEF n
<1>9. StageInv'
  BY <1>1, <1>5, <1>7, <1>8 DEF StageInv
<1> QED
  BY <1>1, <1>3, <1>4, <1>9

LEMMA HostAdvances ==
  ASSUME IInv, IInv', MemInv, hstat = "running", Advance, UNCHANGED <<dev, place>>,
         Here.op \notin {"payload_brom", "payload_pl"}, phase \notin {"app", "stack", "main"},
         Here.op = "main" => UsageOK(cfg),
         Here.op = "open_port" => phase \notin {"booted", "lk"},
         Tame /\ (phase = "lk" => cfg.mode = "LK") => Effect(Here),
         CopyInv', PendInv'
  PROVE  MemInv'
<1>0. /\ UNCHANGED <<phase, stage, mem, params, base, areas, lkParams, entry>>
      /\ SlotsInv /\ HostInv /\ cfg' = cfg
  BY DEF dev, IInv, Advance
<1>1. AreaInv' /\ HoldInv' /\ GonePreloader' /\ Tame' = Tame
  BY <1>0, DeviceStays
<1>2. /\ StageInv' /\ Done' = Done \cup {Here} /\ off' = 0 /\ waiting' = FALSE
      /\ Here \in Steps /\ Fit(cfg, Here, Done)
  BY <1>0, StageGoesOn DEF MemInv, StageInv
<1>3. ProgressInv'
  BY <1>2, ProgressAtRestNext
<1>4. EffectInv'
  <2>1. EffectInv /\ \A st : Effect(st)' = Effect(st)
    BY <1>0, EffectsStay DEF MemInv
  <2> QED
    BY <1>0, <1>1, <1>2, <2>1 DEF EffectInv
<1>5. LkInv'
  <2>1. LkInv /\ LkPtrs' = LkPtrs
    BY <1>0, PlacesStay DEF MemInv
  <2>2. Here.op = "set_lk" => Here = Stp("set_lk", NoObj)
    BY <1>2 DEF Fit, Steps, Stp
  <2> QED
    BY <1>0, <1>1, <1>2, <2>1, <2>2 DEF LkInv
<1>6. GoneBoot'
  <2>1. GoneBoot
    BY DEF MemInv
  <2> SUFFICES ASSUME Tame, phase = "booted" \/ (phase = "lk" /\ cfg.mode = "LK")
               PROVE  GoneBoot'
    BY <1>0, <1>1 DEF GoneBoot
  <2>2. Placed(cfg, Here, Lbl.at, Then.at)
    BY <1>0, Now
  <2>3. Here.op = "jump"
    BY <2>1, <2>2 DEF GoneBoot, Placed
  <2>4. hstat' = "running" => Lbl'.at = "gone"
    BY <1>0, <2>2, <2>3, Advances DEF Placed
  <2> QED
    BY <1>0, <1>2, <2>1, <2>4 DEF GoneBoot, Objects
<1> QED
  BY <1>1, <1>2, <1>3, <1>4, <1>5, <1>6 DEF MemInv

(* The host's copy of the parameters.                                      *)
LEMMA CopyStays ==
  ASSUME SlotsInv, HostInv, MemInv, hstat = "running", Advance, hparams' = hparams,
         Here.op \notin {"main", "params_brom", "params_pl"}
  PROVE  CopyInv'
<1>1. CopyInv /\ ip \in 1..Len(Script(cfg)) /\ cfg' = cfg /\ ip' = ip + 1
  BY DEF MemInv, HostInv, Advance
<1>2. Done' = Done \cup {Here}
  BY <1>1, DoneGoesOn
<1>3. \A op \in {"main", "params_brom", "params_pl"} : Here # Stp(op, NoObj)
  BY ObjFacts
<1> QED
  BY <1>1, <1>2, <1>3 DEF CopyInv, IsListed, Bss

(* The wire is as it is between two steps.                                 *)
LEMMA PendAtRest ==
  ASSUME phase' = phase, toDev' = toDev, Carries0 \/ toDev = <<>>
  PROVE  PendInv'
BY DEF PendInv, Carries0

(* While the host does anything but wait for a payload to start, none is   *)
(* starting; and at the prompt the boot is no longer what is uploaded.     *)
LEMMA NotStarting ==
  ASSUME IInv, hstat = "running", Here.op # "start"
  PROVE  phase \notin {"app", "stack", "main"}
<1>1. SlotsInv /\ HostInv /\ TalkInv
  BY DEF IInv
<1>2. Lbl.at \in Places \ {"over", "bad", "sentB", "sentP"}
  BY <1>1, Now DEF Placed
<1>3. Lbl.at \in Boots \cup Ons \cup {"gone"}
  BY <1>2 DEF Places, Boots, Ons
<1> QED
  BY <1>1, <1>3 DEF TalkInv, BootInv, OnInv, GoneInv, Up

LEMMA NotTame ==
  ASSUME IInv, StageInv, hstat = "running", Here.op = "repl"
  PROVE  ~ Tame
<1>1. SlotsInv /\ ip \in 1..Len(Script(cfg))
  BY DEF IInv, HostInv
<1>2. cfg.mode = "REPL" /\ Stp("payload_pl", NoObj) \in Done
  BY <1>1, HereFits DEF Fit
<1> QED
  BY <1>2 DEF StageInv, Tame

(* Steps that leave nothing behind on the device.                          *)
Passing == {"extract", "mkbootimg", "any_input", "start", "open_port", "set_pl", "jump", "repl"}

LEMMA PassesMem ==
  ASSUME IInv, IInv', MemInv, hstat = "running", Advance, UNCHANGED <<dev, place, hparams>>,
         Here.op \in Passing, phase \notin {"app", "stack", "main"},
         Here.op = "open_port" => phase \notin {"booted", "lk"}, PendInv'
  PROVE  MemInv'
<1>1. Effect(Here)
  BY DEF Effect, Passing
<1>2. /\ Here.op \notin {"payload_brom", "payload_pl"} /\ Here.op # "main"
      /\ Here.op \notin {"main", "params_brom", "params_pl"}
  BY DEF Passing
<1>3. CopyInv'
  BY <1>2, CopyStays DEF IInv
<1> QED
  BY <1>1, <1>2, <1>3, HostAdvances

LEMMA LocalWorkMem ==
  ASSUME IInv, IInv', MemInv, LocalWork \/ AnyInput, UNCHANGED dev
  PROVE  MemInv'
<1>1. /\ hstat = "running" /\ Here.op \in {"mkbootimg", "extract", "any_input"}
      /\ UNCHANGED <<place, hparams, toDev>> /\ SlotsInv /\ HostInv /\ TalkInv
      /\ Advance \/ Fail("local") \/ Fail("no binary")
  BY DEF LocalWork, AnyInput, At, wire, IInv
<1>2. CASE Fail("local") \/ Fail("no binary")
  BY <1>1, <1>2, GivesUpMem
<1>3. CASE Advance
  <2>1. Lbl.at \in Ons \cup {"pl"}
    BY <1>1, Now DEF Placed, Ons
  <2>2. Carries0 \/ toDev = <<>>
    <3>1. CASE Lbl.at = "pl"
      BY <1>1, <3>1 DEF TalkInv, Boots, BootInv
    <3>2. CASE Lbl.at \in Ons
      BY <1>1, <3>2 DEF TalkInv, OnInv, Silent, Rest, Asked, Answered, Lost
    <3> QED
      BY <2>1, <3>1, <3>2
  <2>3. PendInv'
    BY <1>1, <2>2, PendAtRest DEF dev
  <2>4. phase \notin {"app", "stack", "main"}
    BY <1>1, NotStarting
  <2> QED
    BY <1>1, <1>3, <2>3, <2>4, PassesMem DEF Passing
<1> QED
  BY <1>1, <1>2, <1>3

LEMMA OpenPortMem ==
  ASSUME IInv, IInv', MemInv, OpenPort
  PROVE  MemInv'
<1>1. /\ hstat = "running" /\ Here.op = "open_port" /\ UNCHANGED <<place, hparams, toDev, dev>>
      /\ (phase = "preloader" /\ Advance) \/ Fail("stale port")
      /\ SlotsInv /\ HostInv /\ TalkInv
  BY DEF OpenPort, At, wire, IInv
<1>2. CASE Fail("stale port")
  BY <1>1, <1>2, GivesUpMem
<1>3. CASE phase = "preloader" /\ Advance
  <2>1. Lbl.at = "gone"
    BY <1>1, Now DEF Placed
  <2>2. Carries0
    BY <1>1, <1>3, <2>1 DEF TalkInv, GoneInv
  <2>3. PendInv'
    BY <1>1, <2>2, PendAtRest DEF dev
  <2> QED
    BY <1>1, <1>3, <2>3, PassesMem DEF Passing
<1> QED
  BY <1>1, <1>2, <1>3

LEMMA StartMem ==
  ASSUME IInv, IInv', MemInv, Start, UNCHANGED dev
  PROVE  MemInv'
<1>1. /\ hstat = "running" /\ Here.op = "start" /\ SlotsInv /\ HostInv /\ TalkInv
      /\ UNCHANGED <<hparams, place>> /\ toHost # <<>>
      /\ \/ toDev' = Append(toDev, Hi) /\ Advance
         \/ Fail("no ack") /\ UNCHANGED toDev
  BY DEF Start, At, IInv, Hi
<1>2. CASE Fail("no ack") /\ UNCHANGED toDev
  BY <1>1, <1>2, GivesUpMem
<1>3. CASE toDev' = Append(toDev, Hi) /\ Advance
  <2>1. Lbl.at \in Sents
    BY <1>1, Now DEF Placed, Sents
  <2>2. phase = "hello" /\ toDev = <<>>
    BY <1>1, <2>1 DEF TalkInv, SentInv
  <2>3. toDev' = <<Hi>> /\ phase' = "hello"
    BY <1>3, <2>2, Tuples DEF dev
  <2>4. PendInv'
    BY <2>3 DEF PendInv, Carries0
  <2> QED
    BY <1>1, <1>3, <2>2, <2>4, PassesMem DEF Passing
<1> QED
  BY <1>1, <1>2, <1>3

(* main adds LK's .bss to the parameters ...                               *)
LEMMA MainMem ==
  ASSUME IInv, IInv', MemInv, Main, UNCHANGED dev
  PROVE  MemInv'
<1>1. /\ hstat = "running" /\ Here.op = "main" /\ SlotsInv /\ HostInv /\ TalkInv
      /\ toDev' = toDev /\ ip \in 1..Len(Script(cfg))
      /\ \/ UsageOK(cfg) /\ Advance /\ UNCHANGED place
         \/ Fail("usage") \/ Fail("local")
  BY DEF Main, At, IInv, wire, HostInv
<1>2. CASE Fail("usage") \/ Fail("local")
  BY <1>1, <1>2, GivesUpMem
<1>3. CASE UsageOK(cfg) /\ Advance /\ UNCHANGED place
  <2> DEFINE e == [start |-> LkAddr + LkLen, end |-> LkAddr + LkLen + LkBssLen,
                   mode |-> "ForbiddenReloc"]
             bl == hparams.blacklist
  <2>1. hparams' = IF cfg.lk THEN [hparams EXCEPT !.blacklist = Append(@, e)] ELSE hparams
    BY DEF Main, blacklist_reloc
  <2>2. hparams = [memory |-> hparams.memory, blacklist |-> bl] /\ IsSeq(bl)
    BY <1>1 DEF SlotsInv, Table
  <2>3. e.start = Bss.start /\ e.end = Bss.end
    BY DEF Bss
  <2> HIDE DEF e
  <2>4. hparams'.memory = hparams.memory
    BY <2>1, <2>2
  <2>5. cfg.lk => IsListed(hparams'.blacklist, Bss)
    <3> SUFFICES ASSUME cfg.lk PROVE IsListed(hparams'.blacklist, Bss)
      OBVIOUS
    <3>1. hparams'.blacklist = Append(bl, e)
      BY <2>1, <2>2
    <3>2. Len(Append(bl, e)) = Len(bl) + 1 /\ Len(bl) \in Nat /\ Append(bl, e)[Len(bl) + 1] = e
      BY <2>2, AppendKeeps
    <3>3. Len(bl) + 1 \in 1..Len(Append(bl, e))
      <4> HIDE DEF bl
      <4> QED
        BY <3>2
    <3> QED
      BY <2>3, <3>1, <3>2, <3>3 DEF IsListed
  <2>6. /\ cfg' = cfg /\ ip' = ip + 1
    BY <1>3 DEF Advance
  <2>7. Done' = Done \cup {Here}
    BY <1>1, <2>6, DoneGoesOn
  <2>8. \A op \in {"params_brom", "params_pl"} : Here # Stp(op, NoObj)
    BY <1>1, ObjFacts
  <2>9. CopyInv'
    <3>1. CopyInv /\ IsListed(hparams.blacklist, Bss)' = IsListed(hparams'.blacklist, Bss)
      BY DEF MemInv, IsListed, Bss
    <3> QED
      BY <1>1, <2>4, <2>5, <2>6, <2>7, <2>8, <3>1 DEF CopyInv
  <2>10. Lbl.at = "begin"
    BY <1>1, Now DEF Placed
  <2>11. toDev = <<>> /\ phase \in {"rom", "preloader"}
    BY <1>1, <2>10 DEF TalkInv, Boots, BootInv
  <2>12. PendInv'
    BY <1>1, <2>11 DEF PendInv
  <2>13. Effect(Here)
    BY <1>1 DEF Effect
  <2> QED
    BY <1>1, <1>3, <2>9, <2>11, <2>12, <2>13, HostAdvances
<1> QED
  BY <1>1, <1>2, <1>3

(* ... and run_brom and run_preloader name the memory.                     *)
LEMMA ParamsMem ==
  ASSUME IInv, IInv', MemInv, ParamsBrom \/ ParamsPl, UNCHANGED dev
  PROVE  MemInv'
<1>1. /\ hstat = "running" /\ SlotsInv /\ HostInv /\ TalkInv
      /\ toDev' = toDev /\ ip \in 1..Len(Script(cfg))
      /\ Here.op \in {"params_brom", "params_pl"}
      /\ \/ Advance /\ UNCHANGED place
         \/ Fail("exhausted")
  BY DEF ParamsBrom, ParamsPl, At, IInv, wire, HostInv
<1>2. CASE Fail("exhausted")
  BY <1>1, <1>2, GivesUpMem
<1>3. CASE Advance /\ UNCHANGED place
  <2>0. ~ Fail("exhausted")
    BY <1>1, <1>3 DEF Advance, Fail
  <2>1. hparams'.memory \in {Sram, Dram}
    <3>1. hparams = [memory |-> hparams.memory, blacklist |-> hparams.blacklist]
      BY <1>1 DEF SlotsInv, Table
    <3> QED
      BY <2>0, <3>1 DEF ParamsBrom, ParamsPl
  <2>2. IsListed(hparams.blacklist, Bss) => IsListed(hparams'.blacklist, Bss)
    <3>1. CASE ParamsBrom
      <4>1. hparams'.blacklist = BromBlacklist /\ Here.op = "params_brom"
        BY <2>0, <3>1 DEF ParamsBrom, At
      <4>2. \A i \in 1..Len(hparams.blacklist) :
              i \in 1..Len(BromBlacklist) /\ BromBlacklist[i] = hparams.blacklist[i]
        BY <1>1, <4>1, BromTable
      <4> QED
        BY <4>1, <4>2 DEF IsListed
    <3>2. CASE ParamsPl
      <4>1. hparams = [memory |-> hparams.memory, blacklist |-> hparams.blacklist]
        BY <1>1 DEF SlotsInv, Table
      <4>2. hparams'.blacklist = hparams.blacklist
        BY <3>2, <4>1 DEF ParamsPl
      <4> QED
        BY <4>2
    <3> QED
      BY <3>1, <3>2
  <2>6. /\ cfg' = cfg /\ ip' = ip + 1
    BY <1>3 DEF Advance
  <2>7. Done' = Done \cup {Here}
    BY <1>1, <2>6, DoneGoesOn
  <2>8. Here # Stp("main", NoObj)
    BY <1>1, ObjFacts
  <2>9. CopyInv'
    <3>1. CopyInv /\ IsListed(hparams.blacklist, Bss)' = IsListed(hparams'.blacklist, Bss)
      BY DEF MemInv, IsListed, Bss
    <3> QED
      BY <1>1, <2>1, <2>2, <2>6, <2>7, <2>8, <3>1 DEF CopyInv
  <2>10. Lbl.at \in Boots
    BY <1>1, Now DEF Placed, Boots
  <2>11. toDev = <<>> /\ phase \in {"rom", "preloader"}
    BY <1>1, <2>10 DEF TalkInv, BootInv
  <2>12. PendInv'
    BY <1>1, <2>11 DEF PendInv
  <2>13. Effect(Here)
    BY <1>1 DEF Effect
  <2>14. Here.op \notin {"payload_brom", "payload_pl", "main", "open_port"}
    BY <1>1
  <2> QED
    BY <1>1, <1>3, <2>9, <2>11, <2>12, <2>13, <2>14, HostAdvances
<1> QED
  BY <1>1, <1>2, <1>3

-----------------------------------------------------------------------------
(* Requests and answers.                                                   *)

(* A request goes out: all that changes is the wire.                       *)
LEMMA SendsMem ==
  ASSUME IInv, MemInv, hstat = "running", UNCHANGED dev, NEW items, Send(items),
         Here.op # "start", Tame => PendInv'
  PROVE  MemInv'
<1>1. /\ UNCHANGED <<cfg, hstat, ip, off, place, hparams, toHost>>
  BY DEF Send
<1>2. UNCHANGED <<phase, stage, mem, params, areas, lkParams>> /\ SlotsInv /\ StageInv
  BY DEF dev, IInv, MemInv
<1>3. Tame' = Tame /\ Here' = Here
  BY <1>1, <1>2, SameHost DEF Tame
<1>4. PendInv'
  BY <1>3 DEF PendInv
<1>5. ProgressInv'
  <2>1. ProgressInv
    BY DEF MemInv
  <2>2. /\ \A o, n : Upto(o, n)' = Upto(o, n)
        /\ \A o : Listed(Reserved(o))' = Listed(Reserved(o))
        /\ Hooked' = Hooked /\ WellPlaced' = WellPlaced
    BY <1>1, <1>2, EffectsStay
  <2>3. \A o : Length(o)' = Length(o) /\ InSpace(o)' = InSpace(o)
    BY <1>1, PlacesStay
  <2> QED
    BY <1>1, <1>3, <2>1, <2>2, <2>3 DEF ProgressInv, ChunkLen
<1>6. phase \notin {"app", "stack", "main"}
  BY NotStarting
<1> QED
  BY <1>1, <1>2, <1>4, <1>5, <1>6, HostStands

LEMMA SentStays ==
  ASSUME UNCHANGED <<cfg, ip, off, place>>
  PROVE  /\ \A m, d : Sent(m, d)' = Sent(m, d)
         /\ \A m : SentJump(m)' = SentJump(m)
<1>2. Here' = Here
  BY SameHost
<1>3. /\ \A o : Addr(o)' = Addr(o) /\ Length(o)' = Length(o)
      /\ \A o : Reserved(o)' = Reserved(o) /\ JumpArg(o)' = JumpArg(o)
      /\ LkPtrs' = LkPtrs
  BY PlacesStay
<1>4. \A o : ChunkOf(o)' = ChunkOf(o)
  BY <1>3 DEF ChunkOf, ChunkLen
<1>5. \A m, d : Sent(m, d)' = Sent(m, d)
  BY <1>2, <1>3, <1>4 DEF Sent
<1>6. \A m : SentJump(m)' = SentJump(m)
  BY <1>3 DEF SentJump
<1> QED
  BY <1>5, <1>6

LEMMA RequestMem ==
  ASSUME IInv, MemInv, hstat = "running", Here.op \in Talks, UNCHANGED dev,
         NEW m, NEW d,
         \/ Kind(m) = "Write" /\ Send(<<m, d>>)
         \/ Kind(m) # "Write" /\ Send(<<m>>),
         Tame => Sent(m, d) \/ (SentJump(m) /\ Kind(m) # "Write")
  PROVE  MemInv'
<1>1. Here.op # "start"
  BY DEF Talks
<1>2. ASSUME Tame PROVE PendInv'
  <2>1. /\ ~ waiting /\ UNCHANGED <<cfg, ip, off, place>> /\ phase' = phase
        /\ \/ Kind(m) = "Write" /\ toDev' = toDev \o <<m, d>>
           \/ Kind(m) # "Write" /\ toDev' = toDev \o <<m>>
    BY DEF Send, dev
  <2>2. Here.op # "repl"
    BY <1>2, NotTame DEF MemInv
  <2>3. Rest
    BY <2>1, <2>2, OnAt DEF Asked, Answered, Lost
  <2>4. toDev = IF phase = "hello" THEN <<Hi>> ELSE <<>>
    BY <2>3 DEF Rest, Carries0
  <2>5. /\ <<Hi>> \o <<m>> = <<Hi, m>> /\ <<>> \o <<m>> = <<m>>
        /\ <<Hi>> \o <<m, d>> = <<Hi, m, d>> /\ <<>> \o <<m, d>> = <<m, d>>
    BY Tuples
  <2>6. Kind(m) = "Write" => Carries2(m, d)'
    BY <2>1, <2>4, <2>5 DEF Carries2
  <2>7. Kind(m) # "Write" => Carries1(m)'
    BY <2>1, <2>4, <2>5 DEF Carries1
  <2>8. Sent(m, d)' = Sent(m, d) /\ SentJump(m)' = SentJump(m)
    BY <2>1, SentStays
  <2>9. CASE Sent(m, d)
    <3>1. Sent(m, d)'
      BY <2>8, <2>9
    <3> QED
      BY <2>6, <2>7, <3>1 DEF PendInv
  <2>10. CASE SentJump(m) /\ Kind(m) # "Write"
    <3>1. SentJump(m)'
      BY <2>8, <2>10
    <3> QED
      BY <2>7, <2>10, <3>1 DEF PendInv
  <2> QED
    BY <1>2, <2>9, <2>10
<1>3. (\E items : Send(items)) /\ (Tame => PendInv')
  BY <1>2
<1> QED
  BY <1>1, <1>3, SendsMem

LEMMA AskMem ==
  ASSUME IInv, MemInv, hstat = "running", Here.op \in Talks, UNCHANGED dev,
         NEW k \in AllKinds \ {"Write"}, NEW arg, Ask(k, arg),
         \A m, d : Kind(m) = k /\ m.arg = arg => Sent(m, d) \/ SentJump(m)
  PROVE  MemInv'
<1> DEFINE m == Message(k, arg, req + 1)
<1>1. Kind(m) = k /\ m.arg = arg
  BY MessageFields
<1>2. Send(<<m>>)
  BY DEF Ask
<1> HIDE DEF m
<1>3. Kind(m) # "Write"
  BY <1>1
<1>4. Sent(m, m) \/ SentJump(m)
  BY <1>1
<1> QED
  BY <1>2, <1>3, <1>4, RequestMem

LEMMA RequestsMem ==
  ASSUME IInv, MemInv, UNCHANGED dev,
         SetPreloaderParams \/ SetLkParams \/ Hook \/ Reserve \/ Alloc \/ Jump
  PROVE  MemInv'
<1>0. ip \in Nat /\ Len(Script(cfg)) \in Nat
  BY LabelFacts DEF MemInv, StageInv, IInv, SlotsInv
<1>1. CASE SetPreloaderParams
  <2> DEFINE a == [type |-> "Preloader", ptrs |-> <<PlAddr>>]
  <2>1. /\ hstat = "running" /\ Here.op = "set_pl" /\ Ask("SetParams", a)
        /\ ip <= Len(Script(cfg))
    BY <1>1 DEF SetPreloaderParams, At
  <2>2. a.type = "Preloader"
    OBVIOUS
  <2> HIDE DEF a
  <2>3. \A m, d : Kind(m) = "SetParams" /\ m.arg = a => Sent(m, d) \/ SentJump(m)
    BY <2>1, <2>2 DEF Sent
  <2> QED
    BY <2>1, <2>3, AskMem DEF Talks, AllKinds
<1>2. CASE SetLkParams
  <2> DEFINE a == [type |-> "LK", ptrs |-> <<LkAddr + HookOff, LkAddr, BootimgAddr>>]
  <2>1. /\ hstat = "running" /\ Here.op = "set_lk" /\ Ask("SetParams", a)
        /\ ip <= Len(Script(cfg))
    BY <1>2 DEF SetLkParams, At
  <2>2. a.type = "LK" /\ a.ptrs = LkPtrs
    BY DEF LkPtrs
  <2> HIDE DEF a
  <2>3. \A m, d : Kind(m) = "SetParams" /\ m.arg = a => Sent(m, d) \/ SentJump(m)
    BY <2>1, <2>2 DEF Sent
  <2> QED
    BY <2>1, <2>3, AskMem DEF Talks, AllKinds
<1>3. CASE Hook
  <2> DEFINE a == [id |-> "MtPartGenericRead"]
  <2>1. /\ hstat = "running" /\ Here.op = "hook" /\ Ask("Hook", a)
        /\ ip <= Len(Script(cfg))
    BY <1>3 DEF Hook, At
  <2> HIDE DEF a
  <2>3. \A m, d : Kind(m) = "Hook" /\ m.arg = a => Sent(m, d) \/ SentJump(m)
    BY <2>1 DEF Sent
  <2> QED
    BY <2>1, <2>3, AskMem DEF Talks, AllKinds
<1>4. CASE Reserve
  <2> DEFINE a == Reserved(Here.obj)
  <2>1. /\ hstat = "running" /\ Here.op = "reserve" /\ Ask("BlacklistRange", a)
        /\ ip <= Len(Script(cfg))
    BY <1>4 DEF Reserve, At
  <2>3. \A m, d : Kind(m) = "BlacklistRange" /\ m.arg = a => Sent(m, d) \/ SentJump(m)
    BY <2>1 DEF Sent
  <2> HIDE DEF a
  <2> QED
    BY <2>1, <2>3, AskMem DEF Talks, AllKinds
<1>5. CASE Alloc
  <2> DEFINE a == [size |-> Length(Here.obj)]
  <2>1. /\ hstat = "running" /\ Here.op = "alloc" /\ Ask("GetFreeRange", a)
        /\ ip <= Len(Script(cfg))
    BY <1>5 DEF Alloc, At
  <2> HIDE DEF a
  <2>3. \A m, d : Kind(m) = "GetFreeRange" /\ m.arg = a => Sent(m, d) \/ SentJump(m)
    BY <2>1 DEF Sent
  <2> QED
    BY <2>1, <2>3, AskMem DEF Talks, AllKinds
<1>6. CASE Jump
  <2> DEFINE a == JumpArg(Here.obj)
  <2>1. /\ hstat = "running" /\ Here.op = "jump" /\ Ask("Jump", a)
        /\ ip <= Len(Script(cfg))
    BY <1>6 DEF Jump, At, JumpArg
  <2>2. ip \in 1..Len(Script(cfg))
    BY <1>0, <2>1 DEF MemInv, StageInv
  <2>3. \A m, d : Kind(m) = "Jump" /\ m.arg = a => Sent(m, d) \/ SentJump(m)
    BY <2>1, <2>2 DEF SentJump, Here
  <2> HIDE DEF a
  <2> QED
    BY <2>1, <2>3, AskMem DEF Talks, AllKinds
<1> QED
  BY <1>1, <1>2, <1>3, <1>4, <1>5, <1>6

LEMMA UploadMem ==
  ASSUME IInv, MemInv, Upload, UNCHANGED dev
  PROVE  MemInv'
<1>1. /\ hstat = "running" /\ Here.op = "upload" /\ ip <= Len(Script(cfg))
      /\ off < Length(Here.obj)
  BY DEF Upload, At
<1> DEFINE m == Message("Write", ChunkOf(Here.obj), req + 1)
           d == Data(Here.obj, off, ChunkLen(Length(Here.obj)), req + 1)
<1>2. Kind(m) = "Write" /\ m.arg = ChunkOf(Here.obj)
  BY MessageFields DEF AllKinds
<1>3. Send(<<m, d>>)
  BY DEF Upload, WriteChunk, ChunkOf
<1>4. d.arg.obj = Here.obj /\ d.arg.off = off
  BY DEF Data
<1> HIDE DEF m, d
<1>5. ASSUME Tame PROVE Sent(m, d)
  <2>1. SlotsInv /\ StageInv /\ ip \in 1..Len(Script(cfg))
    BY <1>1 DEF IInv, HostInv, MemInv
  <2>2. off \in 0..Length(Here.obj)
    BY <1>1, <1>5 DEF MemInv, ProgressInv
  <2>3. off \in Nat
    BY <1>1, <2>1, <2>2, Uploaded
  <2> QED
    BY <1>1, <1>2, <1>4, <2>3 DEF Sent
<1> QED
  BY <1>1, <1>2, <1>3, <1>5, RequestMem DEF Talks

LEMMA ReplSendMem ==
  ASSUME IInv, MemInv, ReplSend, UNCHANGED dev
  PROVE  MemInv'
<1>1. hstat = "running" /\ Here.op = "repl" /\ Here.op # "start"
  BY DEF ReplSend, At
<1>2. ~ Tame
  BY <1>1, NotTame DEF MemInv
<1>3. \E items : Send(items)
  BY DEF ReplSend, WriteChunk
<1> QED
  BY <1>1, <1>2, <1>3, SendsMem

(* All chunks have been written.                                           *)
LEMMA UploadDoneMem ==
  ASSUME IInv, IInv', MemInv, UploadDone, UNCHANGED dev
  PROVE  MemInv'
<1>1. /\ hstat = "running" /\ Here.op = "upload" /\ off = Length(Here.obj) /\ ~ waiting
      /\ Advance /\ UNCHANGED <<place, hparams, toDev>>
      /\ SlotsInv /\ HostInv /\ StageInv /\ ip \in 1..Len(Script(cfg))
  BY DEF UploadDone, At, wire, IInv, HostInv, MemInv
<1>2. Here.op # "repl" /\ Here.op \in Talks
  BY <1>1 DEF Talks
<1>3. Rest
  BY <1>1, <1>2, OnAt DEF Asked, Answered, Lost
<1>4. PendInv'
  BY <1>1, <1>3, PendAtRest DEF Rest, dev
<1>5. CopyInv'
  BY <1>1, CopyStays
<1>6. phase \notin {"app", "stack", "main"}
  BY <1>1, NotStarting
<1>7. ASSUME Tame, phase = "lk" => cfg.mode = "LK" PROVE Effect(Here)
  <2>1. Fit(cfg, Here, Done)
    BY <1>1, HereFits
  <2>2. InSpace(Here.obj) => Intact(Here.obj)
    <3>1. InSpace(Here.obj) => Upto(Here.obj, Length(Here.obj))
      BY <1>1, <1>7 DEF MemInv, ProgressInv
    <3> QED
      BY <3>1 DEF Upto, Intact
  <2>3. InSpace(PreloaderObj)
    BY FitAssumption DEF InSpace, PreloaderObj, Addr, Length
  <2>4. Here.obj \in Fixed(cfg) /\ WellPlaced => InSpace(Here.obj)
    BY DEF WellPlaced
  <2>5. ASSUME Here.obj \in Chosen PROVE InSpace(Here.obj)
    <3>1. Stp("alloc", Here.obj) \in Done
      <4>1. Here.obj # PreloaderObj /\ Here.obj \notin Fixed(cfg)
        BY <1>1, <2>5, ObjectsApart
      <4> QED
        BY <1>1, <2>1, <2>5, <4>1 DEF Fit
    <3>2. Effect(Stp("alloc", Here.obj))
      BY <1>7, <3>1 DEF MemInv, EffectInv
    <3> QED
      BY <3>2 DEF Effect, ClearOf, Stp
  <2>6. Here.obj \in Fixed(cfg) \cup Chosen \cup {PreloaderObj}
    BY <1>1, Uploaded
  <2> QED
    BY <1>1, <2>2, <2>3, <2>4, <2>5, <2>6 DEF Effect
<1> QED
  BY <1>1, <1>4, <1>5, <1>6, <1>7, HostAdvances

LEMMA ReadAckMem ==
  ASSUME IInv, IInv', MemInv, ReadAck, UNCHANGED dev
  PROVE  MemInv'
<1>1. /\ hstat = "running" /\ Here.op \in AckSteps /\ UNCHANGED hparams
      /\ Here.op \in Talks \ {"repl"}
      /\ SlotsInv /\ HostInv /\ StageInv /\ ip \in 1..Len(Script(cfg))
  BY DEF ReadAck, At, AckSteps, Talks, IInv, HostInv, MemInv
<1>2. CASE (\E kind \in Kinds \ {"Ack"} : Read(kind)) /\ Fail("nack")
  <2>1. toDev' = toDev
    BY <1>2 DEF Read
  <2> QED
    BY <1>1, <1>2, <2>1, GivesUpMem
<1>3. CASE Read("Ack") /\ Advance /\ UNCHANGED place
  <2>1. /\ toDev = <<>> /\ toDev' = toDev /\ Fitting(Head(toHost))
        /\ AKind(Head(toHost)) = "Ack" /\ toHost # <<>>
    BY <1>1, <1>3, ReadAnswer DEF Read
  <2>2. PendInv'
    BY <2>1, PendAtRest DEF dev
  <2>3. CopyInv'
    BY <1>1, <1>3, CopyStays DEF AckSteps
  <2>4. phase \notin {"app", "stack", "main"}
    BY <1>1, NotStarting DEF AckSteps
  <2>5. ASSUME Tame PROVE Effect(Here)
    <3>1. CASE Here.op = "set_pl"
      BY <3>1 DEF Effect
    <3>2. CASE Here.op = "set_lk"
      <4>1. Then.at = "armed"
        BY <1>1, <3>2, Now DEF Placed
      <4>2. lkParams # <<>>
        BY <1>1, <2>1, <3>2, <4>1 DEF Fitting, Served, Told
      <4>3. lkParams = LkPtrs
        BY <2>5, <4>2 DEF MemInv, LkInv
      <4> QED
        BY <3>2, <4>3 DEF Effect
    <3>3. CASE Here.op \in {"reserve", "hook"}
      BY <1>1, <2>1, <2>5, <3>3 DEF MemInv, ProgressInv, Effect
    <3> QED
      BY <1>1, <3>1, <3>2, <3>3 DEF AckSteps
  <2>6. Here.op \notin {"payload_brom", "payload_pl", "main", "open_port"}
    BY <1>1 DEF AckSteps
  <2> QED
    BY <1>1, <1>3, <2>2, <2>3, <2>4, <2>5, <2>6, HostAdvances
<1> QED
  BY <1>2, <1>3 DEF ReadAck

LEMMA ReadWrittenMem ==
  ASSUME IInv, MemInv, ReadWritten, UNCHANGED dev
  PROVE  MemInv'
<1>1. /\ hstat = "running" /\ Here.op = "upload" /\ Here.op \in Talks \ {"repl"}
      /\ UNCHANGED <<cfg, hstat, ip, place, hparams>>
      /\ off' = off + ChunkLen(Length(Here.obj))
      /\ SlotsInv /\ HostInv /\ StageInv /\ ip \in 1..Len(Script(cfg))
  BY DEF ReadWritten, At, Talks, IInv, HostInv, MemInv
<1>2. PICK kind : Read(kind)
  BY DEF ReadWritten
<1>3. toDev = <<>> /\ toDev' = toDev /\ toHost' = <<>> /\ toHost # <<>>
  BY <1>1, <1>2, ReadAnswer DEF Read
<1>4. PendInv'
  BY <1>3, PendAtRest DEF dev
<1>5. phase \notin {"app", "stack", "main"}
  BY <1>1, NotStarting
<1>6. ProgressInv'
  <2> SUFFICES ASSUME Tame' PROVE ProgressInv'
    BY DEF ProgressInv
  <2>1. Tame
    BY <1>1 DEF Tame, dev
  <2>2. Here' = Here /\ \A o : Length(o)' = Length(o) /\ InSpace(o)' = InSpace(o)
    BY <1>1, SameHost, PlacesStay
  <2>3. UNCHANGED <<stage, mem, params, areas, lkParams>>
    BY DEF dev
  <2>4. \A o, n : Upto(o, n)' = Upto(o, n)
    BY <1>1, <2>3, EffectsStay
  <2> DEFINE n == Length(Here.obj)
             c == ChunkLen(n)
  <2>5. off \in 0..n /\ (InSpace(Here.obj) => Upto(Here.obj, off + c))
    BY <1>1, <1>3, <2>1 DEF MemInv, ProgressInv
  <2>6. n \in Nat
    BY <1>1, Uploaded
  <2>7. c = IF n - off < ChunkSize THEN n - off ELSE ChunkSize
    BY DEF ChunkLen
  <2>8. off' = off + c /\ Length(Here.obj)' = n /\ InSpace(Here.obj)' = InSpace(Here.obj)
        /\ Here'.obj = Here.obj
    BY <1>1, <2>2
  <2>9. Addr(Here.obj)' = Addr(Here.obj)
    BY <1>1, <2>2 DEF Addr
  <2>12. Upto(Here.obj, off)' = Upto(Here.obj, off + c)
    BY <2>2, <2>3, <2>8, <2>9 DEF Upto, Byte
  <2> HIDE DEF n, c
  <2>10. off + c \in 0..n
    BY <2>5, <2>6, <2>7, ChunkAssumption
  <2>11. Here'.op = "upload" => /\ off' \in 0..Length(Here.obj)'
                                /\ (InSpace(Here.obj) => Upto(Here.obj, off))'
    BY <2>5, <2>8, <2>10, <2>12
  <2> QED
    BY <1>1, <1>3, <2>2, <2>11 DEF ProgressInv
<1> QED
  BY <1>1, <1>4, <1>5, <1>6, HostStands

LEMMA ReadJumpMem ==
  ASSUME IInv, IInv', MemInv, ReadJump, UNCHANGED dev
  PROVE  MemInv'
<1>1. /\ hstat = "running" /\ Here.op = "jump" /\ Here.op \in Talks \ {"repl"}
      /\ UNCHANGED hparams /\ SlotsInv
  BY DEF ReadJump, At, Talks, IInv
<1>2. PICK kind \in Kinds :
        /\ Read(kind)
        /\ IF kind = "Nack" THEN Fail("jump") ELSE Advance /\ UNCHANGED place
  BY DEF ReadJump
<1>3. toDev = <<>> /\ toDev' = toDev
  BY <1>1, <1>2, ReadAnswer
<1>4. CASE Fail("jump")
  BY <1>1, <1>3, <1>4, GivesUpMem
<1>5. CASE Advance /\ UNCHANGED place
  <2>1. PendInv'
    BY <1>3, PendAtRest DEF dev
  <2>2. phase \notin {"app", "stack", "main"}
    BY <1>1, NotStarting
  <2> QED
    BY <1>1, <1>5, <2>1, <2>2, PassesMem DEF Passing
<1> QED
  BY <1>2, <1>4, <1>5

LEMMA OneJump ==
  ASSUME SlotsInv, HostInv, hstat = "running", Here.op = "jump",
         ip - 1 \in 1..Len(Script(cfg))
  PROVE  Script(cfg)[ip - 1].op # "jump"
<1> DEFINE i == ip - 1
           st == Script(cfg)[i]
<1>1. /\ cfg \in Configs /\ i \in 1..Len(Script(cfg))
  BY DEF SlotsInv
<1> HIDE DEF i
<1>2. /\ st \in Steps /\ Label(cfg)[i - 1] \in Labels
      /\ Label(cfg)[i] = After(cfg, st, Label(cfg)[i - 1]) /\ Label(cfg)[i].at # "bad"
  BY <1>1, PlaceOfStep
<1>3. /\ Label(cfg)[i].at = Follows(cfg, st, Label(cfg)[i - 1].at)
      /\ Label(cfg)[i - 1].at \in Places
  BY <1>2 DEF After, Lab, Labels
<1>4. Placed(cfg, st, Label(cfg)[i - 1].at, Label(cfg)[i].at)
  BY <1>2, <1>3, StepsByPlace
<1>5. Placed(cfg, Here, Lbl.at, Then.at) /\ Lbl.at = Label(cfg)[i].at
  BY Now DEF Lbl, i
<1>6. st.op = "jump" => FALSE
  BY <1>4, <1>5 DEF Placed
<1> QED
  BY <1>6 DEF i

(* The timeout of a jump: the jump may still be on its way.                *)
LEMMA TimeoutMem ==
  ASSUME IInv, IInv', MemInv, Timeout, UNCHANGED dev
  PROVE  MemInv'
<1>1. /\ hstat = "running" /\ UNCHANGED <<hparams, toDev, toHost>>
      /\ SlotsInv /\ HostInv /\ StageInv /\ ip \in 1..Len(Script(cfg))
  BY DEF Timeout, At, wire, IInv, HostInv, MemInv
<1>2. CASE Fail("timeout")
  BY <1>1, <1>2, GivesUpMem
<1>3. CASE Here.op = "jump" /\ waiting /\ Advance /\ UNCHANGED place
  <2>1. phase \notin {"app", "stack", "main"}
    BY <1>1, <1>3, NotStarting
  <2>2. PendInv'
    <3> SUFFICES ASSUME Tame PROVE PendInv'
      BY <1>3 DEF PendInv, Tame, dev, Advance
    <3>1. cfg' = cfg /\ ip' = ip + 1 /\ phase' = phase
      BY <1>3 DEF Advance, dev
    <3>2. CASE Carries0 \/ toDev = <<>>
      BY <1>1, <3>1, <3>2, PendAtRest
    <3>3. ASSUME NEW m, SentJump(m), Carries1(m) PROVE PendInv'
      <4>1. PICK j \in {ip - 1, ip} \cap (1..Len(Script(cfg))) :
              /\ Script(cfg)[j].op = "jump" /\ Kind(m) = "Jump"
              /\ m.arg = JumpArg(Script(cfg)[j].obj)
        BY <3>3 DEF SentJump
      <4>2. j = ip
        BY <1>1, <1>3, <4>1, OneJump
      <4>3. JumpArg(Script(cfg)[j].obj)' = JumpArg(Script(cfg)[j].obj)
            /\ Script(cfg)' = Script(cfg)
        BY <1>3, <3>1, <4>2 DEF JumpArg, Addr
      <4>4. ip \in {ip' - 1, ip'} \cap (1..Len(Script(cfg)))
        BY <1>1, <3>1
      <4>5. SentJump(m)'
        BY <3>1, <4>1, <4>2, <4>3, <4>4 DEF SentJump
      <4>6. Carries1(m)'
        BY <1>1, <3>1, <3>3 DEF Carries1
      <4> QED
        BY <4>5, <4>6 DEF PendInv
    <3>4. \A m, d : ~ Sent(m, d)
      BY <1>3 DEF Sent
    <3> QED
      BY <3>2, <3>3, <3>4 DEF MemInv, PendInv
  <2> QED
    BY <1>1, <1>3, <2>1, <2>2, PassesMem DEF Passing
<1> QED
  BY <1>2, <1>3 DEF Timeout, At

(* The prompt.                                                             *)
LEMMA ReplMem ==
  ASSUME IInv, IInv', MemInv, ReplType \/ ReplDone \/ ReplRead \/ ReplError \/ ReplQuit,
         UNCHANGED dev
  PROVE  MemInv'
<1>1. /\ hstat = "running" /\ Here.op = "repl" /\ SlotsInv /\ toDev' = toDev
      /\ hparams' = hparams
  BY DEF ReplType, ReplDone, ReplRead, ReplError, ReplQuit, AtPrompt, At, IInv, wire
<1>2. ~ Tame /\ phase \notin {"app", "stack", "main"}
  BY <1>1, NotTame, NotStarting DEF MemInv
<1>3. CASE ReplQuit
  <2>1. Advance /\ UNCHANGED place
    BY <1>3 DEF ReplQuit
  <2>2. PendInv'
    BY <1>2, <2>1 DEF PendInv, Tame, Advance, dev
  <2> QED
    BY <1>1, <1>2, <2>1, <2>2, PassesMem DEF Passing
<1>4. CASE Fail("repl")
  BY <1>1, <1>4, GivesUpMem
<1>5. CASE UNCHANGED <<cfg, hstat, ip, place>>
  <2>1. ~ Tame'
    BY <1>2, <1>5 DEF Tame, dev
  <2>2. PendInv' /\ ProgressInv'
    BY <2>1 DEF PendInv, ProgressInv
  <2> QED
    BY <1>1, <1>2, <1>5, <2>2, HostStands
<1> QED
  BY <1>3, <1>4, <1>5 DEF ReplType, ReplDone, ReplRead, ReplError

(* A range the device finds is in the address space and clear of all that  *)
(* is on the blacklist.                                                    *)
LEMMA FreeIsClear ==
  ASSUME params.memory \in {Sram, Dram}, NEW s \in Nat, NEW r, r = Free(s), r # NoRange
  PROVE  /\ r.start \in U32 /\ r.start \in Int /\ r.end \in Int
         /\ r.start + s <= U32Max + 1 /\ r.start + s <= r.end
         /\ \A q : q.start \in Int /\ q.end \in Int /\ Covered(q) =>
              ~ Overlap(Range(r.start, s), q)
<1> DEFINE bl == params.blacklist
           n == AlignUp8(s)
<1>1. params.memory \in MemoryRange /\ params.memory.end < U32Max
  BY LayoutAssumption, NonZeroAssumption
<1>2. r = FindUnusedRange(params.memory, bl, s)
  BY DEF Free
<1>3. /\ r \in MemoryRange /\ r.end - r.start = n /\ n >= s
      /\ \A i \in 1..Len(bl) : ~ Overlap(r, bl[i])
  BY <1>1, <1>2, FoundRangeUsable
<1>4. r.start \in U32 /\ r.end \in U32 /\ n \in Int
  BY <1>3, U32MaxAssumption DEF MemoryRange, AlignUp8, U32
<1> HIDE DEF n
<1>5. r.start \in Int /\ r.end \in Int /\ r.end <= U32Max /\ U32Max \in Nat
  BY <1>4, U32MaxAssumption DEF U32
<1>6. r.start + s <= r.end /\ r.start + s <= U32Max + 1
  BY <1>3, <1>4, <1>5
<1>7. ASSUME NEW q, q.start \in Int, q.end \in Int, Covered(q)
      PROVE  ~ Overlap(Range(r.start, s), q)
  <2>1. PICK i \in 1..Len(bl) :
          /\ bl[i].start \in Int /\ bl[i].end \in Int
          /\ bl[i].start <= q.start /\ q.end <= bl[i].end
    BY <1>7 DEF Covered
  <2>2. ~ (r.start < bl[i].end /\ bl[i].start < r.end)
    BY <1>3 DEF Overlap
  <2>3. ~ (r.start < q.end /\ q.start < r.start + s)
    BY <1>5, <1>6, <1>7, <2>1, <2>2
  <2> QED
    BY <2>3 DEF Overlap, Range
<1> QED
  BY <1>4, <1>5, <1>6, <1>7

LEMMA OwnInts ==
  ASSUME AreaInv, phase \notin {"rom", "preloader", "halted"}
  PROVE  \A r \in OwnRanges : r.start \in Int /\ r.end \in Int
<1>0. U32 \subseteq Int /\ ImageSize \in Int /\ StackSize \in Int /\ HeapSize \in Int
  BY U32MaxAssumption, ImageAssumption, AreaAssumption DEF U32
<1>1. areas.image # NoRange => areas.image.start \in Int /\ areas.image.end \in Int
  <2>1. areas.image # NoRange => areas.image = Range(base, ImageSize) /\ base \in Int
    BY <1>0 DEF AreaInv
  <2> QED
    BY <1>0, <2>1 DEF Range
<1>2. areas.stack # NoRange => areas.stack.start \in Int /\ areas.stack.end \in Int
  <2>1. areas.stack # NoRange =>
          areas.stack = Range(areas.stack.start, StackSize) /\ areas.stack.start \in Int
    BY <1>0 DEF AreaInv
  <2>2. areas.stack # NoRange => areas.stack.end = areas.stack.start + StackSize
    BY <2>1 DEF Range
  <2> QED
    BY <1>0, <2>1, <2>2
<1>3. areas.heap # NoRange => areas.heap.start \in Int /\ areas.heap.end \in Int
  <2>1. areas.heap # NoRange =>
          areas.heap = Range(areas.heap.start, HeapSize) /\ areas.heap.start \in Int
    BY <1>0 DEF AreaInv
  <2>2. areas.heap # NoRange => areas.heap.end = areas.heap.start + HeapSize
    BY <2>1 DEF Range
  <2> QED
    BY <1>0, <2>1, <2>2
<1> QED
  BY <1>1, <1>2, <1>3 DEF OwnRanges

(* What is reserved covers the object.                                     *)
LEMMA ReservedCovers ==
  ASSUME NEW o, Addr(o) \in Int, Length(o) \in Nat, Listed(Reserved(o))
  PROVE  Covered(Loc(o)) /\ Loc(o).start \in Int /\ Loc(o).end \in Int
<1>1. Reserved(o).start = Addr(o) /\ Reserved(o).end = Addr(o) + Length(o) + 1
  BY DEF Reserved
<1>2. Loc(o).start = Addr(o) /\ Loc(o).end = Addr(o) + Length(o)
  BY DEF Loc, Range
<1>3. PICK i \in 1..Len(params.blacklist) :
        /\ params.blacklist[i].start = Addr(o)
        /\ params.blacklist[i].end = Addr(o) + Length(o) + 1
  BY <1>1 DEF Listed, IsListed
<1>4. /\ params.blacklist[i].start \in Int /\ params.blacklist[i].end \in Int
      /\ params.blacklist[i].start <= Loc(o).start /\ Loc(o).end <= params.blacklist[i].end
      /\ Loc(o).start \in Int /\ Loc(o).end \in Int
  BY <1>2, <1>3
<1> QED
  BY <1>4 DEF Covered

LEMMA ListedCovers ==
  ASSUME NEW q, q.start \in Int, q.end \in Int, Listed(q)
  PROVE  Covered(q)
<1>1. PICK i \in 1..Len(params.blacklist) :
        params.blacklist[i].start = q.start /\ params.blacklist[i].end = q.end
  BY DEF Listed, IsListed
<1> QED
  BY <1>1 DEF Covered

LEMMA BssInts == Bss.start \in Int /\ Bss.end \in Int
<1>1. LkAddr \in Int
  BY LayoutAssumption, U32MaxAssumption DEF U32
<1> QED
  BY <1>1, LayoutAssumption DEF Bss

(* The range named for the step's object is clear of all that matters.     *)
LEMMA NamedIsClear ==
  ASSUME SlotsInv, StageInv, AreaInv, hstat = "running", ip \in 1..Len(Script(cfg)),
         Here.op = "alloc", phase \notin {"rom", "preloader", "halted"},
         \A st \in Done : Effect(st),
         NEW r, r = Free(Length(Here.obj)), r # NoRange
  PROVE  LET q == Range(r.start, Length(Here.obj))
         IN  /\ r.start \in U32 /\ r.start + Length(Here.obj) <= U32Max + 1
             /\ \A x \in Fixed(cfg) : ~ Overlap(q, Loc(x))
             /\ cfg.lk => ~ Overlap(q, Bss)
             /\ \A x \in OwnRanges : ~ Overlap(q, x)
             /\ Here.obj = ImgObj /\ cfg.lk => ~ Overlap(q, Loc(ArgObj))
<1> DEFINE q == Range(r.start, Length(Here.obj))
<1>1. Fit(cfg, Here, Done)
  BY HereFits
<1>2. /\ Here.obj \in Chosen /\ \A o \in Fixed(cfg) : Stp("reserve", o) \in Done
      /\ Here.obj = ImgObj /\ cfg.lk => Stp("reserve", ArgObj) \in Done
  BY <1>1 DEF Fit
<1>3. Length(Here.obj) \in Nat /\ params.memory \in {Sram, Dram}
  BY <1>2, ChosenFacts DEF AreaInv
<1>4. /\ r.start \in U32 /\ r.start + Length(Here.obj) <= U32Max + 1
      /\ \A x : x.start \in Int /\ x.end \in Int /\ Covered(x) => ~ Overlap(q, x)
  BY <1>3, FreeIsClear
<1> HIDE DEF q
<1>5. \A o : Stp("reserve", o) \in Done => Listed(Reserved(o))
  <2>1. \A o : Stp("reserve", o).op = "reserve" /\ Stp("reserve", o).obj = o
    BY DEF Stp
  <2> QED
    BY <2>1 DEF Effect
<1>6. ASSUME NEW x \in Fixed(cfg) PROVE ~ Overlap(q, Loc(x))
  <2>1. Addr(x) \in Int /\ Length(x) \in Nat /\ Listed(Reserved(x))
    BY <1>2, <1>5, FixedFacts
  <2> QED
    BY <1>4, <2>1, ReservedCovers
<1>7. ASSUME cfg.lk PROVE ~ Overlap(q, Bss)
  <2>1. Covered(Bss) /\ Bss.start \in Int /\ Bss.end \in Int
    BY <1>7, BssInts, ListedCovers DEF AreaInv
  <2> QED
    BY <1>4, <2>1
<1>8. ASSUME NEW x \in OwnRanges PROVE ~ Overlap(q, x)
  <2>1. Covered(x) /\ x.start \in Int /\ x.end \in Int
    BY OwnInts DEF AreaInv
  <2> QED
    BY <1>4, <2>1
<1>9. ASSUME Here.obj = ImgObj, cfg.lk PROVE ~ Overlap(q, Loc(ArgObj))
  <2>1. Addr(ArgObj) \in Int /\ Length(ArgObj) \in Nat /\ Listed(Reserved(ArgObj))
    BY <1>2, <1>5, <1>9, ChosenFacts DEF Chosen
  <2> QED
    BY <1>4, <2>1, ReservedCovers
<1> QED
  BY <1>4, <1>6, <1>7, <1>8, <1>9 DEF q

(* The host takes the range: no other object moves.                        *)
LEMMA TakesRange ==
  ASSUME SlotsInv, StageInv, cfg' = cfg, UNCHANGED <<stage, mem, params, areas, lkParams>>,
         NEW o \in Chosen, NEW a, place' = [place EXCEPT ![o[1]] = a]
  PROVE  /\ Addr(o)' = a
         /\ \A x \in Fixed(cfg) \cup Chosen \cup {PreloaderObj} : x # o => Addr(x)' = Addr(x)
         /\ \A x : Length(x)' = Length(x)
<1>1. place \in [{"bootarg", "bootimg"} -> Int]
  BY DEF StageInv
<1>2. o = ArgObj \/ o = ImgObj
  BY DEF Chosen
<1>3. ArgObj[1] = "bootarg" /\ ImgObj[1] = "bootimg"
  BY DEF ArgObj, ImgObj
<1>4. place'[o[1]] = a /\ \A x \in {"bootarg", "bootimg"} : x # o[1] => place'[x] = place[x]
  BY <1>1, <1>2, <1>3
<1>5. \A x \in Chosen : Addr(x)' = place'[x[1]] /\ Addr(x) = place[x[1]]
  BY DEF Chosen, ArgObj, ImgObj, Addr
<1>6. \A x \in Chosen : x # o => x[1] # o[1] /\ x[1] \in {"bootarg", "bootimg"}
  BY <1>2, <1>3 DEF Chosen
<1>7. (\A x : Length(x)' = Length(x)) /\ \A x \in Fixed(cfg) \cup {PreloaderObj} : Addr(x)' = Addr(x)
  BY FixedStay
<1> QED
  BY <1>4, <1>5, <1>6, <1>7

LEMMA ReadRangeMem ==
  ASSUME IInv, IInv', MemInv, ReadRange, UNCHANGED dev
  PROVE  MemInv'
<1>1. /\ hstat = "running" /\ Here.op = "alloc" /\ Here.op \in Talks \ {"repl"}
      /\ UNCHANGED hparams
      /\ SlotsInv /\ HostInv /\ StageInv /\ AreaInv /\ ip \in 1..Len(Script(cfg))
  BY DEF ReadRange, At, Talks, IInv, HostInv, MemInv
<1>2. PICK kind \in Kinds :
        /\ Read(kind)
        /\ \/ /\ kind = "Range" /\ Head(toHost).arg.start # NoAddr
              /\ place' = [place EXCEPT ![Here.obj[1]] = Head(toHost).arg.start]
              /\ Advance
           \/ Fail("no range")
  BY DEF ReadRange
<1>3. /\ toDev = <<>> /\ toDev' = toDev /\ toHost' = <<>>
      /\ phase \notin {"preloader", "hello"} /\ phase \in Up /\ Fitting(Head(toHost))
  BY <1>1, <1>2, ReadAnswer
<1>4. CASE Fail("no range")
  BY <1>1, <1>3, <1>4, GivesUpMem
<1> DEFINE a == Head(toHost).arg.start
<1>5. CASE /\ a # NoAddr /\ Advance
           /\ place' = [place EXCEPT ![Here.obj[1]] = a]
  <2>0. PICK o : o = Here.obj
    OBVIOUS
  <2> DEFINE r == Free(Length(o))
  <2>1. Fit(cfg, Here, Done)
    BY <1>1, HereFits
  <2>2. /\ o \in Chosen /\ \A x \in Done : x.obj # o /\ x.op # "set_lk"
        /\ o = ArgObj => \A x \in Done : x.op # "alloc"
    BY <1>1, <2>0, <2>1 DEF Fit
  <2>3. a = r.start /\ r # NoRange /\ r.start \in Int
    BY <1>1, <1>3, <1>5, <2>0, RangeNamed DEF Fitting
  <2>4. /\ cfg' = cfg /\ UNCHANGED <<phase, stage, mem, params, base, areas, lkParams, entry>>
    BY <1>5 DEF Advance, dev
  <2>5. AreaInv' /\ HoldInv' /\ GonePreloader' /\ Tame' = Tame
    BY <1>1, <2>4, DeviceStays
  <2>6. place' \in [{"bootarg", "bootimg"} -> Int]
    <3>1. place \in [{"bootarg", "bootimg"} -> Int] /\ o[1] \in {"bootarg", "bootimg"} /\ a \in Int
      BY <1>1, <2>2, <2>3, ChosenFacts DEF StageInv
    <3> HIDE DEF a
    <3> QED
      BY <1>5, <2>0, <3>1
  <2>7. phase \notin {"app", "stack", "main", "rom", "preloader", "halted"}
    BY <1>3 DEF Up
  <2>8. /\ StageInv' /\ Done' = Done \cup {Here} /\ off' = 0 /\ waiting' = FALSE
    BY <1>1, <1>5, <2>4, <2>6, <2>7, StageGoesOn
  <2>9. ProgressInv'
    BY <2>8, ProgressAtRestNext
  <2>10. CopyInv'
    BY <1>1, <1>5, CopyStays
  <2>11. PendInv'
    BY <1>3, <2>4, PendAtRest
  <2>12. LkInv'
    <3>1. ~ (Tame /\ lkParams # <<>>)
      <4>1. Stp("set_lk", NoObj) \notin Done
        <5>1. Stp("set_lk", NoObj).op = "set_lk"
          BY DEF Stp
        <5> QED
          BY <2>2, <5>1
      <4> QED
        BY <1>1, <4>1 DEF MemInv, LkInv
    <3> QED
      BY <2>4, <2>5, <3>1 DEF LkInv
  <2>13. GoneBoot'
    <3>1. Lbl.at # "gone"
      BY <1>1, Now DEF Placed
    <3>2. ~ (Tame /\ (phase = "booted" \/ (phase = "lk" /\ cfg.mode = "LK")))
      BY <1>1, <3>1 DEF MemInv, GoneBoot
    <3> QED
      BY <2>4, <2>5, <3>2 DEF GoneBoot
  <2>14. ASSUME Tame, phase = "lk" => cfg.mode = "LK"
         PROVE  \A st \in Done' : Effect(st)'
    <3>1. \A st \in Done : Effect(st)
      BY <2>14 DEF MemInv, EffectInv
    <3> DEFINE n == Length(o)
               q == Range(a, n)
    <3>2. /\ a \in U32 /\ a + n <= U32Max + 1
          /\ \A x \in Fixed(cfg) : ~ Overlap(q, Loc(x))
          /\ cfg.lk => ~ Overlap(q, Bss)
          /\ \A x \in OwnRanges : ~ Overlap(q, x)
          /\ o = ImgObj /\ cfg.lk => ~ Overlap(q, Loc(ArgObj))
      BY <1>1, <2>0, <2>3, <2>7, <3>1, NamedIsClear
    <3> HIDE DEF a, r
    <3>3. /\ Addr(o)' = a
          /\ \A x \in Fixed(cfg) \cup Chosen \cup {PreloaderObj} : x # o => Addr(x)' = Addr(x)
          /\ \A x : Length(x)' = Length(x)
      BY <1>1, <1>5, <2>0, <2>2, <2>4, TakesRange
    <3>4. /\ OwnRanges' = OwnRanges /\ Fixed(cfg)' = Fixed(cfg) /\ WellPlaced' = WellPlaced
      BY <1>1, <2>4, AreasStay, FixedStay
    <3>5. PreloaderObj \notin Chosen /\ Fixed(cfg) \cap Chosen = {} /\ ArgObj # ImgObj
      BY <1>1, ObjectsApart DEF ArgObj, ImgObj
    <3>6. \A x \in Fixed(cfg) \cup Chosen \cup {PreloaderObj} : x # o =>
            Loc(x)' = Loc(x) /\ Intact(x)' = Intact(x) /\ InSpace(x)' = InSpace(x)
            /\ Listed(Reserved(x))' = Listed(Reserved(x))
      BY <2>4, <3>3 DEF Loc, Intact, InSpace, Listed, IsListed, Reserved, Range, HookRange
    <3>7. ASSUME NEW st, st = Here PROVE Effect(st)'
      <4>1. st.obj = o /\ st.op = "alloc"
        BY <1>1, <2>0, <3>7
      <4>2. ClearOf(o)'
        <5>1. Loc(o)' = q /\ InSpace(o)'
          BY <3>2, <3>3 DEF Loc, Range, InSpace, n
        <5>2. \A x \in Fixed(cfg) : ~ Overlap(Loc(o), Loc(x))'
          <6>1. \A x \in Fixed(cfg) : Loc(x)' = Loc(x)
            BY <2>2, <3>5, <3>6
          <6> QED
            BY <3>2, <5>1, <6>1 DEF Overlap
        <5>3. /\ cfg.lk => ~ Overlap(Loc(o), Bss)'
              /\ \A x \in OwnRanges : ~ Overlap(Loc(o), x)'
          BY <3>2, <5>1 DEF Overlap, Bss
        <5>4. o = ImgObj /\ cfg.lk => ~ Overlap(Loc(o), Loc(ArgObj))'
          <6>1. o = ImgObj => Loc(ArgObj)' = Loc(ArgObj)
            BY <3>5, <3>6 DEF Chosen
          <6> QED
            BY <3>2, <5>1, <6>1 DEF Overlap
        <5> HIDE DEF q
        <5> QED
          BY <2>4, <3>2, <3>3, <3>4, <5>1, <5>2, <5>3, <5>4 DEF ClearOf
      <4>3. ClearOf(st.obj)'
        BY <4>1, <4>2
      <4> QED
        BY <4>1, <4>3 DEF Effect
    <3>8. ASSUME NEW st \in Done PROVE Effect(st)'
      <4>0. Effect(st) /\ st.obj # o /\ st.op # "set_lk"
        BY <2>2, <3>1
      <4>1. PICK P \in SUBSET Done : Fit(cfg, st, P)
        BY <1>1, DoneFits
      <4>2. st.op \in {"upload", "reserve", "alloc"} =>
              st.obj \in Fixed(cfg) \cup Chosen \cup {PreloaderObj}
        BY <4>1 DEF Fit
      <4>3. st.op = "alloc" => ClearOf(st.obj)'
        <5> SUFFICES ASSUME st.op = "alloc" PROVE ClearOf(st.obj)'
          OBVIOUS
        <5>1. st.obj \in Chosen /\ o # ArgObj /\ st.obj # ImgObj
          BY <2>2, <4>0, <4>1 DEF Fit, Chosen
        <5>2. ClearOf(st.obj)
          BY <4>0 DEF Effect
        <5>3. Loc(st.obj)' = Loc(st.obj) /\ InSpace(st.obj)' = InSpace(st.obj)
              /\ Addr(st.obj)' = Addr(st.obj) /\ \A x \in Fixed(cfg) : Loc(x)' = Loc(x)
          BY <2>2, <3>3, <3>5, <3>6, <4>0, <5>1
        <5> QED
          BY <2>4, <3>4, <5>1, <5>2, <5>3 DEF ClearOf, Overlap, Bss
      <4>4. st.op = "hook" /\ WellPlaced => Hooked'
        BY <2>4, <4>0 DEF Effect, Hooked, HookRange
      <4> QED
        BY <2>4, <3>4, <3>6, <4>0, <4>2, <4>3, <4>4 DEF Effect
    <3> QED
      BY <2>8, <3>7, <3>8
  <2>15. EffectInv'
    BY <2>4, <2>5, <2>14 DEF EffectInv
  <2> QED
    BY <2>5, <2>8, <2>9, <2>10, <2>11, <2>12, <2>13, <2>15 DEF MemInv
<1> QED
  BY <1>2, <1>4, <1>5

-----------------------------------------------------------------------------
(* A payload is sent: nothing that must last is there yet.                 *)

(* What is stored is there, and the rest is as it was.                     *)
LEMMA Stored ==
  ASSUME NEW m, NEW a \in Int, NEW n \in Int, NEW o, NEW k \in Int
  PROVE  /\ \A x \in U32 : a <= x /\ x < a + n => Store(m, a, n, o, k)[x] = Byte(o, k + x - a)
         /\ \A x \in U32 : ~ (a <= x /\ x < a + n) => Store(m, a, n, o, k)[x] = m[x]
BY DEF Store

LEMMA StoredHolds ==
  ASSUME NEW m, NEW a \in U32, NEW n \in Nat, a + n <= U32Max + 1, NEW o
  PROVE  Holds(Store(m, a, n, o, 0), a, n, o)
<1> SUFFICES ASSUME NEW k \in 0..(n - 1) PROVE Store(m, a, n, o, 0)[a + k] = Byte(o, k)
  BY DEF Holds
<1>1. a \in Int /\ a + k \in U32 /\ a <= a + k /\ a + k < a + n /\ 0 + (a + k) - a = k
  BY U32MaxAssumption DEF U32
<1>2. Store(m, a, n, o, 0)[a + k] = Byte(o, 0 + (a + k) - a)
  BY <1>1, Stored
<1> QED
  BY <1>1, <1>2

LEMMA SendPayloadMem ==
  ASSUME IInv, IInv', MemInv, NEW op, NEW which, NEW addr, SendPayload(op, which, addr),
         \/ op = "payload_brom" /\ which = "brom" /\ addr = BromBase
         \/ op = "payload_pl" /\ which = "pl" /\ addr = DaAddr
  PROVE  MemInv'
<1>1. /\ hstat = "running" /\ Here.op = op /\ SlotsInv /\ HostInv /\ TalkInv /\ StageInv
      /\ UNCHANGED <<toDev, toHost, hparams>> /\ ip \in 1..Len(Script(cfg))
  BY DEF SendPayload, At, IInv, wire, MemInv, HostInv
<1>2. CASE Fail("payload") /\ UNCHANGED dev
  BY <1>1, <1>2, GivesUpMem
<1>3. CASE LoadPayload(which, addr, hparams) /\ Advance /\ UNCHANGED place
  <2>1. /\ mem' = Store(mem, addr, ImageFile, ImageObj, 0)
        /\ phase' = "app" /\ stage' = which /\ params' = hparams /\ base' = addr
        /\ areas' = [image |-> NoRange, stack |-> NoRange, heap |-> NoRange]
        /\ lkParams' = <<>>
    BY <1>3 DEF LoadPayload
  <2>2. toDev' = <<>>
    <3>1. Lbl.at \in Boots
      BY <1>1, Now DEF Placed, Boots
    <3> QED
      BY <1>1, <3>1 DEF TalkInv, BootInv
  <2> DEFINE n == Len(Script(cfg))
  <2>3. /\ cfg' = cfg /\ ip' = ip + 1 /\ off' = 0 /\ waiting' = FALSE
        /\ hstat' = IF ip = n THEN "ok" ELSE "running"
    BY <1>3 DEF Advance
  <2>4. n \in Nat
    BY <1>1, Where
  <2> HIDE DEF n
  <2>5. Done' = Done \cup {Here}
    BY <1>1, <2>3, DoneGoesOn
  <2>6. Fit(cfg, Here, Done) /\ Here \in Steps
    BY <1>1, HereFits
  <2>7. /\ Stp("main", NoObj) \in Done
        /\ Stp("params_brom", NoObj) \in Done \/ Stp("params_pl", NoObj) \in Done
        /\ \A x \in Done : ~ Effective(x)
        /\ op = "payload_brom" => \A x \in Done : x.op \notin {"upload", "payload_pl"}
        /\ Here.obj = NoObj
    BY <1>1, <2>6 DEF Fit
  <2>8. Here = Stp(op, NoObj)
    BY <1>1, <2>6, <2>7 DEF Steps, Stp
  <2>9. hparams.memory \in {Sram, Dram} /\ (cfg.lk => IsListed(hparams.blacklist, Bss))
    BY <1>1, <2>7 DEF MemInv, CopyInv
  <2>10. addr \in U32 /\ addr + ImageSize <= U32Max + 1
    BY LayoutAssumption, FitAssumption
  <2>11. AreaInv'
    <3>1. OwnRanges' = {}
      BY <2>1 DEF OwnRanges
    <3>2. DOMAIN areas' = {"image", "stack", "heap"} /\ areas'.image = NoRange
          /\ areas'.stack = NoRange /\ areas'.heap = NoRange
      BY <2>1
    <3>3. cfg.lk => Listed(Bss)'
      BY <2>1, <2>9 DEF Listed, IsListed, Bss
    <3> QED
      BY <2>1, <2>3, <2>9, <2>10, <3>1, <3>2, <3>3 DEF AreaInv
  <2>12. HoldInv'
    <3>1. ImageFile \in Nat /\ addr + ImageFile <= U32Max + 1
      BY <2>10, ImageAssumption, U32MaxAssumption DEF U32
    <3>2. Holds(mem', base', ImageFile, ImageObj)
      BY <2>1, <2>10, <3>1, StoredHolds
    <3>3. areas'.stack = NoRange /\ areas'.heap = NoRange
      BY <2>1
    <3> QED
      BY <3>2, <3>3 DEF HoldInv
  <2>13. CopyInv'
    BY <1>1, <1>3, CopyStays
  <2>14. /\ stage' = "pl" <=> Stp("payload_pl", NoObj) \in Done'
         /\ \A x \in Done' : ~ Effective(x) /\ (stage' = "brom" => x.op # "upload")
    <3>1. \A p, o : Stp(p, o).op = p
      BY DEF Stp
    <3>2. ~ Effective(Here) /\ Here.op # "upload"
      BY <1>1 DEF Effective
    <3> QED
      BY <1>1, <2>1, <2>5, <2>7, <2>8, <3>1, <3>2
  <2>15. StageInv'
    <3>1. /\ ip' \in 1..(n + 1) /\ (ip' <= n \/ hstat' = "ok")
          /\ hstat' = "ok" => ip' = n + 1
      BY <1>1, <2>3, <2>4 DEF n
    <3>2. UsageOK(cfg) /\ place' \in [{"bootarg", "bootimg"} -> Int]
      BY <1>1, <1>3, <2>7 DEF StageInv
    <3>3. UsageOK(cfg)' /\ Len(Script(cfg))' = n
      BY <2>3, <3>2 DEF n
    <3> QED
      BY <2>1, <2>2, <2>14, <3>1, <3>2, <3>3 DEF StageInv
  <2>16. PendInv'
    BY <2>2 DEF PendInv
  <2>17. EffectInv'
    BY <2>1, <2>14 DEF EffectInv, Effect, Effective
  <2>18. ProgressInv'
    BY <2>3, <2>15, ProgressAtRestNext
  <2>19. LkInv' /\ GoneBoot' /\ GonePreloader'
    BY <2>1 DEF LkInv, GoneBoot, GonePreloader
  <2> QED
    BY <2>11, <2>12, <2>13, <2>15, <2>16, <2>17, <2>18, <2>19 DEF MemInv
<1> QED
  BY <1>2, <1>3 DEF SendPayload

LEMMA HostMem ==
  ASSUME IInv, IInv', MemInv, HostStep \/ SendBromPayload \/ SendPlPayload \/ OpenPort
  PROVE  MemInv'
<1>1. CASE SendBromPayload
  BY <1>1, SendPayloadMem DEF SendBromPayload
<1>2. CASE SendPlPayload
  BY <1>2, SendPayloadMem DEF SendPlPayload
<1>3. CASE HostStep
  <2>1. HostAlone /\ UNCHANGED dev
    BY <1>3 DEF HostStep
  <2> QED
    BY <2>1, MainMem, ParamsMem, LocalWorkMem, RequestsMem, UploadMem, UploadDoneMem, StartMem,
       ReadAckMem, ReadWrittenMem, ReadRangeMem, ReadJumpMem, TimeoutMem, ReplMem, ReplSendMem
       DEF HostAlone
<1> QED
  BY <1>1, <1>2, <1>3, OpenPortMem

-----------------------------------------------------------------------------
(* The payload starts.                                                     *)

LEMMA HostSame ==
  ASSUME UNCHANGED host
  PROVE  /\ UNCHANGED <<cfg, hstat, ip, off, waiting, place, hparams>>
         /\ Done' = Done /\ Here' = Here /\ Lbl' = Lbl /\ (CopyInv => CopyInv')
<1>1. UNCHANGED <<cfg, hstat, ip, off, waiting, place, hparams>>
  BY DEF host
<1>2. Done' = Done /\ Here' = Here /\ Lbl' = Lbl
  BY <1>1, SameHost DEF Done
<1>3. CopyInv => CopyInv'
  BY <1>1, <1>2 DEF CopyInv, IsListed, Bss
<1> QED
  BY <1>1, <1>2, <1>3

(* Bytes that a store does not reach.                                      *)
LEMMA StoreMisses ==
  ASSUME NEW m, NEW s \in Int, NEW z \in Int, NEW o, NEW k \in Int,
         NEW a \in Int, NEW n \in Int, ~ Overlap(Range(s, z), Range(a, n)),
         NEW x \in U32, a <= x, x < a + n
  PROVE  Store(m, s, z, o, k)[x] = m[x]
<1>1. ~ (s < a + n /\ a < s + z)
  BY DEF Overlap, Range
<1>2. x \in Int
  BY U32MaxAssumption DEF U32
<1>3. ~ (s <= x /\ x < s + z)
  BY <1>1, <1>2
<1> QED
  BY <1>3, Stored

LEMMA HoldsOn ==
  ASSUME NEW m, NEW a \in U32, NEW n \in Nat, NEW w \in Nat, w <= n, a + n <= U32Max + 1,
         NEW b, Holds(m, a, w, b),
         NEW s \in Int, NEW z \in Int, NEW o, NEW k \in Int,
         ~ Overlap(Range(s, z), Range(a, n))
  PROVE  Holds(Store(m, s, z, o, k), a, w, b)
<1> SUFFICES ASSUME NEW j \in 0..(w - 1) PROVE Store(m, s, z, o, k)[a + j] = Byte(b, j)
  BY DEF Holds
<1>1. a \in Int /\ n \in Int /\ a + j \in U32 /\ a <= a + j /\ a + j < a + n
  BY U32MaxAssumption DEF U32
<1>2. Store(m, s, z, o, k)[a + j] = m[a + j]
  BY <1>1, StoreMisses
<1> QED
  BY <1>2 DEF Holds

LEMMA StartUpMem ==
  ASSUME IInv, MemInv, phase \in {"app", "stack", "main"}, UNCHANGED host,
         UNCHANGED <<stage, lkParams, toDev>>,
         phase' \in {"app", "stack", "main", "hello", "halted"}, AreaInv', HoldInv'
  PROVE  MemInv'
<1>1. /\ UNCHANGED <<cfg, hstat, ip, off, place>> /\ Done' = Done /\ Here' = Here
      /\ CopyInv'
  BY HostSame DEF MemInv
<1>2. /\ \A x \in Done : ~ Effective(x) /\ (stage = "brom" => x.op # "upload")
      /\ toDev = <<>>
  BY DEF MemInv, StageInv
<1>3. StageInv'
  BY <1>1, <1>2 DEF MemInv, StageInv
<1>4. PendInv'
  BY <1>2 DEF PendInv
<1>5. EffectInv'
  BY <1>1, <1>2 DEF EffectInv, Effect, Effective
<1>6. ProgressInv'
  <2>1. hstat = "running" => Here.op = "start"
    BY NotStarting
  <2> QED
    BY <1>1, <2>1 DEF ProgressInv
<1>7. LkInv'
  <2>1. LkPtrs' = LkPtrs /\ LkInv
    BY <1>1, PlacesStay DEF MemInv
  <2> QED
    BY <1>1, <2>1 DEF LkInv, Tame
<1>8. GoneBoot' /\ GonePreloader'
  BY DEF GoneBoot, GonePreloader
<1> QED
  BY <1>1, <1>3, <1>4, <1>5, <1>6, <1>7, <1>8 DEF MemInv

(* The payload dies.                                                       *)
LEMMA DiesMem ==
  ASSUME IInv, MemInv, phase \in {"app", "stack", "main"}, UNCHANGED host, Die, toDev' = toDev
  PROVE  MemInv'
<1>1. phase' = "halted" /\ UNCHANGED <<stage, lkParams>>
  BY DEF Die
<1>2. AreaInv' /\ HoldInv'
  BY <1>1 DEF AreaInv, HoldInv, Alive, Started
<1> QED
  BY <1>1, <1>2, StartUpMem

(* The blacklist only grows.                                               *)
Grows == params' = params \/ \E e : params' = [params EXCEPT !.blacklist = Append(@, e)]

LEMMA GrowsKeeps ==
  ASSUME SlotsInv, Grows
  PROVE  /\ params'.memory = params.memory
         /\ \A q : IsListed(params.blacklist, q) => IsListed(params'.blacklist, q)
         /\ \A i \in 1..Len(params.blacklist) :
              i \in 1..Len(params'.blacklist) /\ params'.blacklist[i] = params.blacklist[i]
<1> DEFINE bl == params.blacklist
<1>1. params = [memory |-> params.memory, blacklist |-> bl] /\ IsSeq(bl)
  BY DEF SlotsInv, Table
<1>2. ASSUME NEW e, params' = [params EXCEPT !.blacklist = Append(@, e)]
      PROVE  /\ params'.memory = params.memory
             /\ \A i \in 1..Len(bl) :
                  i \in 1..Len(params'.blacklist) /\ params'.blacklist[i] = bl[i]
  <2>1. params'.memory = params.memory /\ params'.blacklist = Append(bl, e)
    BY <1>1, <1>2
  <2>2. PICK S : bl \in Seq(S)
    BY <1>1 DEF IsSeq
  <2>3. bl \in Seq(S \cup {e}) /\ e \in S \cup {e}
    BY <2>2
  <2> HIDE DEF bl
  <2>4. \A i \in 1..Len(bl) : i \in 1..Len(Append(bl, e)) /\ Append(bl, e)[i] = bl[i]
    BY <2>3
  <2> QED
    BY <2>1, <2>4
<1>3. /\ params'.memory = params.memory
      /\ \A i \in 1..Len(bl) :
           i \in 1..Len(params'.blacklist) /\ params'.blacklist[i] = bl[i]
  BY <1>2 DEF Grows
<1>4. \A q : IsListed(bl, q) => IsListed(params'.blacklist, q)
  BY <1>3 DEF IsListed
<1> QED
  BY <1>3, <1>4

LEMMA GrowsCovers ==
  ASSUME SlotsInv, Grows
  PROVE  /\ \A q : Covered(q) => Covered(q)'
         /\ \A q : Listed(q) => Listed(q)'
<1>1. /\ \A q : IsListed(params.blacklist, q) => IsListed(params'.blacklist, q)
      /\ \A i \in 1..Len(params.blacklist) :
           i \in 1..Len(params'.blacklist) /\ params'.blacklist[i] = params.blacklist[i]
  BY GrowsKeeps
<1>2. \A q : Listed(q) => Listed(q)'
  BY <1>1 DEF Listed, IsListed
<1>3. ASSUME NEW q, Covered(q) PROVE Covered(q)'
  BY <1>1, <1>3 DEF Covered
<1> QED
  BY <1>2, <1>3

(* The new entry.                                                          *)
LEMMA EntryListed ==
  ASSUME SlotsInv, NEW e, params' = [params EXCEPT !.blacklist = Append(@, e)]
  PROVE  IsListed(params'.blacklist, e)
<1> DEFINE bl == params.blacklist
<1>1. params = [memory |-> params.memory, blacklist |-> bl] /\ IsSeq(bl)
  BY DEF SlotsInv, Table
<1>2. params'.blacklist = Append(bl, e)
  BY <1>1
<1>3. Len(Append(bl, e)) = Len(bl) + 1 /\ Len(bl) \in Nat /\ Append(bl, e)[Len(bl) + 1] = e
  BY <1>1, AppendKeeps
<1> HIDE DEF bl
<1>4. Len(bl) + 1 \in 1..Len(Append(bl, e))
  BY <1>3
<1> QED
  BY <1>2, <1>3, <1>4 DEF IsListed

LEMMA RelocateMem ==
  ASSUME IInv, MemInv, Relocate, UNCHANGED host
  PROVE  MemInv'
<1>1. /\ phase = "app" /\ SlotsInv /\ AreaInv /\ HoldInv
      /\ UNCHANGED <<phase, stage, params, areas, lkParams, toDev>>
  BY DEF Relocate, IInv, MemInv, wire
<1>2. PICK r : /\ r = Free(ImageSize) /\ r # NoRange
               /\ mem' = Copy(mem, r.start, base, ImageSize) /\ base' = r.start
  BY DEF Relocate, RelocRange, Free
<1>3. params.memory \in {Sram, Dram} /\ base \in U32 /\ base + ImageSize <= U32Max + 1
      /\ areas.stack = NoRange /\ areas.heap = NoRange
  BY <1>1 DEF AreaInv
<1>4. r.start \in U32 /\ r.start + ImageSize <= U32Max + 1
  BY <1>2, <1>3, FreeIsClear, ImageAssumption
<1>5. cfg' = cfg
  BY DEF host
<1>6. AreaInv'
  <2>1. OwnRanges' = OwnRanges
    BY <1>1 DEF OwnRanges
  <2> QED
    BY <1>1, <1>2, <1>4, <1>5, <2>1 DEF AreaInv, Covered, Listed, IsListed, Bss
<1>7. Holds(mem, base, ImageFile, ImageObj)
  BY <1>1 DEF HoldInv, Alive, Started
<1>8. Holds(mem', base', ImageFile, ImageObj)
  <2> SUFFICES ASSUME NEW k \in 0..(ImageFile - 1)
               PROVE  mem'[base' + k] = Byte(ImageObj, k)
    BY DEF Holds
  <2>1. mem[base + k] = Byte(ImageObj, k)
    BY <1>7 DEF Holds
  <2>2. /\ r.start + k \in U32 /\ r.start <= r.start + k /\ r.start + k < r.start + ImageSize
        /\ base + (r.start + k) - r.start = base + k
    BY <1>3, <1>4, ImageAssumption, U32MaxAssumption DEF U32
  <2>3. mem'[r.start + k] = mem[base + (r.start + k) - r.start]
    BY <1>2, <2>2 DEF Copy
  <2> QED
    BY <1>2, <2>1, <2>2, <2>3
<1>9. HoldInv'
  BY <1>1, <1>3, <1>8 DEF HoldInv
<1> QED
  BY <1>1, <1>6, <1>9, StartUpMem

LEMMA SettleMem ==
  ASSUME IInv, MemInv, Settle, UNCHANGED host
  PROVE  MemInv'
<1>1. /\ phase = "app" /\ SlotsInv /\ AreaInv /\ HoldInv /\ toDev' = toDev
      /\ mem' = Store(mem, base + ImageFile, ImageSize - ImageFile, <<"bss", 0>>, 0)
  BY DEF Settle, IInv, MemInv, wire
<1>2. PICK r : /\ r.start = base \/ Overlaps(r.start)
               /\ \/ /\ params' = [params EXCEPT !.blacklist =
                          blacklist_dl(@, Range(IF Overlaps(r.start) THEN base ELSE r.start,
                                                ImageSize))]
                     /\ areas' = [areas EXCEPT !.image = Range(base, ImageSize)]
                     /\ phase' = "stack"
                     /\ UNCHANGED <<stage, base, lkParams>>
                  \/ Die
  BY DEF Settle
<1>3. CASE Die
  BY <1>1, <1>3, DiesMem
<1>4. CASE /\ params' = [params EXCEPT !.blacklist =
                blacklist_dl(@, Range(IF Overlaps(r.start) THEN base ELSE r.start, ImageSize))]
           /\ areas' = [areas EXCEPT !.image = Range(base, ImageSize)]
           /\ phase' = "stack"
           /\ UNCHANGED <<stage, base, lkParams>>
  <2> DEFINE e == [start |-> base, end |-> base + ImageSize, mode |-> "ForbiddenDL"]
  <2>1. params' = [params EXCEPT !.blacklist = Append(@, e)]
    <3>1. (IF Overlaps(r.start) THEN base ELSE r.start) = base
      BY <1>2
    <3>2. params' = [params EXCEPT !.blacklist = blacklist_dl(@, Range(base, ImageSize))]
      BY <1>4, <3>1
    <3> QED
      BY <3>2 DEF blacklist_dl, Range
  <2>2. e.start = base /\ e.end = base + ImageSize
    OBVIOUS
  <2> HIDE DEF e
  <2>3. Grows /\ IsListed(params'.blacklist, e)
    BY <1>1, <2>1, EntryListed DEF Grows
  <2>4. /\ DOMAIN areas = {"image", "stack", "heap"} /\ base \in U32
        /\ base + ImageSize <= U32Max + 1 /\ params.memory \in {Sram, Dram}
        /\ areas.stack = NoRange /\ areas.heap = NoRange /\ (cfg.lk => Listed(Bss))
    BY <1>1 DEF AreaInv
  <2>5. /\ DOMAIN areas' = {"image", "stack", "heap"} /\ areas'.image = Range(base, ImageSize)
        /\ areas'.stack = NoRange /\ areas'.heap = NoRange
    BY <1>4, <2>4
  <2>6. base \in Int /\ ImageSize \in Nat /\ ImageFile \in Nat /\ ImageFile <= ImageSize
    BY <2>4, ImageAssumption, U32MaxAssumption DEF U32
  <2>7. Covered(Range(base, ImageSize))'
    <3>1. PICK i \in 1..Len(params'.blacklist) :
            params'.blacklist[i].start = base /\ params'.blacklist[i].end = base + ImageSize
      BY <2>2, <2>3 DEF IsListed
    <3>2. base' = base /\ base + ImageSize \in Int /\ base <= base
          /\ base + ImageSize <= base + ImageSize
      BY <1>4, <2>6
    <3> QED
      BY <2>6, <3>1, <3>2 DEF Covered, Range
  <2>8. OwnRanges' \subseteq {Range(base, ImageSize)}
    BY <2>5 DEF OwnRanges
  <2>9. \A q \in OwnRanges' : Covered(q)'
    BY <1>4, <2>7, <2>8 DEF Range
  <2>10. params'.memory = params.memory /\ cfg' = cfg /\ (cfg.lk => Listed(Bss)')
    <3>1. cfg' = cfg /\ Bss' = Bss
      BY DEF host, Bss
    <3> QED
      BY <1>1, <2>3, <2>4, <3>1, GrowsKeeps, GrowsCovers DEF Bss
  <2>11. AreaInv'
    BY <1>4, <2>4, <2>5, <2>9, <2>10 DEF AreaInv, Range
  <2>12. HoldInv'
    <3>1. Holds(mem, base, ImageFile, ImageObj)
      BY <1>1 DEF HoldInv, Alive, Started
    <3>2. ~ Overlap(Range(base + ImageFile, ImageSize - ImageFile), Range(base, ImageFile))
      BY <2>6 DEF Overlap, Range
    <3>3. base + ImageFile \in Int /\ ImageSize - ImageFile \in Int
          /\ base + ImageFile <= U32Max + 1 /\ ImageFile <= ImageFile
      BY <2>4, <2>6, U32MaxAssumption
    <3>4. Holds(mem', base, ImageFile, ImageObj)
      BY <1>1, <2>4, <2>6, <3>1, <3>2, <3>3, HoldsOn
    <3> QED
      BY <1>4, <2>5, <3>4 DEF HoldInv
  <2>13. phase \in {"app", "stack", "main"} /\ phase' \in {"app", "stack", "main", "hello", "halted"}
    BY <1>1, <1>4
  <2> QED
    BY <1>1, <1>4, <2>11, <2>12, <2>13, StartUpMem
<1> QED
  BY <1>2, <1>3, <1>4

LEMMA NoRelocationMem ==
  ASSUME IInv, MemInv, NoRelocation, UNCHANGED host
  PROVE  MemInv'
BY DiesMem DEF NoRelocation, wire

(* A stack or a heap: it is clear of what the payload has already.         *)
LEMMA AreaTaken ==
  ASSUME IInv, MemInv, UNCHANGED host, toDev' = toDev,
         NEW name, NEW size,
         \/ name = "stack" /\ size = StackSize /\ phase = "stack"
         \/ name = "heap" /\ size = HeapSize /\ phase = "main",
         NEW r, r = Free(size), r # NoRange,
         mem' = Store(mem, r.start, size, <<name, 0>>, 0),
         params' = [params EXCEPT !.blacklist = blacklist_dl(@, r)],
         areas' = [areas EXCEPT ![name] = Range(r.start, size)],
         phase' = "main", UNCHANGED <<stage, base, lkParams>>
  PROVE  MemInv'
<1>1. SlotsInv /\ AreaInv /\ HoldInv
  BY DEF IInv, MemInv
<1>2. /\ DOMAIN areas = {"image", "stack", "heap"} /\ base \in U32
      /\ base + ImageSize <= U32Max + 1 /\ params.memory \in {Sram, Dram}
      /\ areas.image = Range(base, ImageSize)
      /\ name = "stack" => areas.stack = NoRange /\ areas.heap = NoRange
      /\ name = "heap" => /\ areas.stack.start \in U32
                          /\ areas.stack = Range(areas.stack.start, StackSize)
                          /\ areas.stack.start + StackSize <= U32Max + 1
      /\ \A q \in OwnRanges : Covered(q)
      /\ cfg.lk => Listed(Bss)
  BY <1>1 DEF AreaInv
<1>3. size \in Nat /\ StackSize \in Nat /\ HeapSize \in Nat
  BY AreaAssumption
<1>4. /\ r.start \in U32 /\ r.start \in Int /\ r.end \in Int
      /\ r.start + size <= U32Max + 1 /\ r.start + size <= r.end
      /\ \A q : q.start \in Int /\ q.end \in Int /\ Covered(q) =>
           ~ Overlap(Range(r.start, size), q)
  BY <1>2, <1>3, FreeIsClear
<1>5. /\ DOMAIN areas' = {"image", "stack", "heap"} /\ areas'.image = Range(base, ImageSize)
      /\ name = "stack" => areas'.stack = Range(r.start, size) /\ areas'.heap = NoRange
      /\ name = "heap" => areas'.heap = Range(r.start, size) /\ areas'.stack = areas.stack
  BY <1>2
<1> DEFINE e == [start |-> r.start, end |-> r.end, mode |-> "ForbiddenDL"]
<1>6. params' = [params EXCEPT !.blacklist = Append(@, e)]
  BY DEF blacklist_dl
<1>7. e.start = r.start /\ e.end = r.end
  OBVIOUS
<1> HIDE DEF e
<1>8. Grows /\ IsListed(params'.blacklist, e)
  BY <1>1, <1>6, EntryListed DEF Grows
<1>9. params'.memory = params.memory /\ cfg' = cfg /\ (cfg.lk => Listed(Bss)')
  <2>1. cfg' = cfg /\ Bss' = Bss
    BY DEF host, Bss
  <2> QED
    BY <1>1, <1>2, <1>8, <2>1, GrowsKeeps, GrowsCovers DEF Bss
<1>10. ASSUME NEW q, q = Range(r.start, size) PROVE Covered(q)'
  <2>1. PICK i \in 1..Len(params'.blacklist) :
          params'.blacklist[i].start = r.start /\ params'.blacklist[i].end = r.end
    BY <1>7, <1>8 DEF IsListed
  <2>2. q.start = r.start /\ q.end = r.start + size
    BY <1>10 DEF Range
  <2> QED
    BY <1>4, <2>1, <2>2 DEF Covered
<1>11. OwnRanges' \subseteq OwnRanges \cup {Range(r.start, size)}
  BY <1>2, <1>5 DEF OwnRanges
<1>12. \A q \in OwnRanges' : Covered(q)'
  <2>1. \A q : Covered(q) => Covered(q)'
    BY <1>1, <1>8, GrowsCovers
  <2> QED
    BY <1>2, <1>10, <1>11, <2>1
<1>13. Range(r.start, size).start = r.start
  BY DEF Range
<1>14. AreaInv'
  BY <1>2, <1>4, <1>5, <1>9, <1>12, <1>13 DEF AreaInv
<1>15. HoldInv'
  <2>1. /\ Holds(mem, base, ImageFile, ImageObj)
        /\ areas.stack # NoRange => Holds(mem, areas.stack.start, StackSize, <<"stack", 0>>)
    BY <1>1 DEF HoldInv, Alive, Started
  <2>2. \A q \in OwnRanges : ~ Overlap(Range(r.start, size), q)
    BY <1>1, <1>2, <1>4, OwnInts
  <2>3. Holds(mem', base, ImageFile, ImageObj)
    <3>1. areas.image # NoRange
      <4>1. base # -1
        BY <1>2, U32MaxAssumption DEF U32
      <4>2. Range(base, ImageSize).start = base
        BY DEF Range
      <4> QED
        BY <1>2, <4>1, <4>2 DEF NoRange
    <3>2. ~ Overlap(Range(r.start, size), Range(base, ImageSize))
      BY <1>2, <2>2, <3>1 DEF OwnRanges
    <3>3. ImageSize \in Nat /\ ImageFile \in Nat /\ ImageFile <= ImageSize
      BY ImageAssumption
    <3> QED
      BY <1>2, <1>3, <1>4, <2>1, <3>2, <3>3, HoldsOn
  <2>4. Holds(mem', r.start, size, <<name, 0>>)
    BY <1>3, <1>4, StoredHolds
  <2>5. name = "heap" => Holds(mem', areas.stack.start, StackSize, <<"stack", 0>>)
    <3> SUFFICES ASSUME name = "heap"
                 PROVE  Holds(mem', areas.stack.start, StackSize, <<"stack", 0>>)
      OBVIOUS
    <3>0. PICK s : s = areas.stack.start
      OBVIOUS
    <3>1. s \in U32 /\ areas.stack = Range(s, StackSize) /\ s + StackSize <= U32Max + 1
      BY <1>2, <3>0
    <3>2. areas.stack # NoRange
      <4>1. s # -1
        BY <3>1, U32MaxAssumption DEF U32
      <4> QED
        BY <3>0, <4>1 DEF NoRange
    <3>3. ~ Overlap(Range(r.start, size), Range(s, StackSize))
      BY <2>2, <3>1, <3>2 DEF OwnRanges
    <3>4. StackSize <= StackSize
      BY <1>3
    <3>5. Holds(mem, s, StackSize, <<"stack", 0>>)
      BY <2>1, <3>0, <3>2
    <3>6. Holds(mem', s, StackSize, <<"stack", 0>>)
      BY <1>3, <1>4, <3>1, <3>3, <3>4, <3>5, HoldsOn
    <3> QED
      BY <3>0, <3>6
  <2>6. areas'.stack # NoRange => Holds(mem', areas'.stack.start, StackSize, <<"stack", 0>>)
    BY <1>5, <1>13, <2>4, <2>5
  <2>7. areas'.heap # NoRange => Holds(mem', areas'.heap.start, HeapSize, <<"heap", 0>>)
    BY <1>5, <1>13, <2>4
  <2> QED
    BY <2>3, <2>6, <2>7 DEF HoldInv
<1> QED
  BY <1>14, <1>15, StartUpMem

LEMMA TakeAreaMem ==
  ASSUME IInv, MemInv, TakeStack \/ TakeHeap, UNCHANGED host
  PROVE  MemInv'
<1>1. toDev' = toDev /\ phase \in {"stack", "main"}
  BY DEF TakeStack, TakeHeap, wire
<1>2. CASE Die
  BY <1>1, <1>2, DiesMem
<1>3. ASSUME NEW name, NEW size, TakeArea(name, size, "main"), ~ Die,
             \/ name = "stack" /\ size = StackSize /\ phase = "stack"
             \/ name = "heap" /\ size = HeapSize /\ phase = "main"
      PROVE  MemInv'
  <2>1. PICK r : /\ r = Free(size) /\ r # NoRange
                 /\ mem' = Store(mem, r.start, size, <<name, 0>>, 0)
                 /\ params' = [params EXCEPT !.blacklist = blacklist_dl(@, r)]
                 /\ areas' = [areas EXCEPT ![name] = Range(r.start, size)]
                 /\ phase' = "main"
                 /\ UNCHANGED <<stage, base, lkParams>>
    BY <1>3 DEF TakeArea, Free
  <2> QED
    BY <1>1, <1>3, <2>1, AreaTaken
<1> QED
  BY <1>2, <1>3 DEF TakeStack, TakeHeap

(* The payload says hello.                                                 *)
LEMMA HelloMem ==
  ASSUME IInv, MemInv, Hello, UNCHANGED host
  PROVE  MemInv'
<1>1. /\ phase = "main" /\ phase' = "hello" /\ (stage = "brom" \/ areas.heap # NoRange)
      /\ UNCHANGED <<stage, mem, params, base, areas, lkParams, toDev>>
      /\ AreaInv /\ HoldInv /\ SlotsInv
  BY DEF Hello, IInv, MemInv
<1>2. cfg' = cfg /\ OwnRanges' = OwnRanges
  BY <1>1 DEF host, OwnRanges
<1>3. AreaInv'
  BY <1>1, <1>2 DEF AreaInv, Covered, Listed, IsListed, Bss
<1>4. HoldInv'
  BY <1>1 DEF HoldInv, Alive, Started, Holds
<1> QED
  BY <1>1, <1>3, <1>4, StartUpMem

(* The payload reads the host's Ack: the request behind it is next.        *)
LEMMA GreetedMem ==
  ASSUME IInv, MemInv, Greeted, UNCHANGED host
  PROVE  MemInv'
<1>1. /\ phase = "hello" /\ toDev # <<>> /\ toDev' = Tail(toDev)
      /\ UNCHANGED <<stage, mem, params, base, areas, lkParams, entry, toHost>>
      /\ AreaInv /\ HoldInv /\ SlotsInv /\ StageInv
  BY DEF Greeted, IInv, MemInv
<1>2. phase' = "serving"
  BY <1>1 DEF Greeted, IInv, HelloInv, AKind
<1>3. /\ UNCHANGED <<cfg, hstat, ip, off, waiting, place, hparams>>
      /\ Done' = Done /\ Here' = Here /\ Lbl' = Lbl /\ CopyInv'
  BY HostSame DEF MemInv
<1>4. Tame' = Tame /\ OwnRanges' = OwnRanges
  BY <1>1, <1>3 DEF Tame, OwnRanges
<1>5. AreaInv'
  BY <1>1, <1>2, <1>3, <1>4 DEF AreaInv, Covered, Listed, IsListed, Bss
<1>6. HoldInv'
  BY <1>1 DEF HoldInv, Alive, Started, Holds
<1>7. StageInv'
  BY <1>1, <1>2, <1>3 DEF StageInv
<1>8. PendInv'
  <2> SUFFICES ASSUME Tame PROVE PendInv'
    BY <1>4 DEF PendInv
  <2>1. /\ \A m, d : Sent(m, d)' = Sent(m, d)
        /\ \A m : SentJump(m)' = SentJump(m)
    BY <1>3, SentStays
  <2>2. CASE Carries0
    <3>1. toDev' = <<>>
      BY <1>1, <2>2, Tuples DEF Carries0
    <3> QED
      BY <3>1 DEF PendInv
  <2>3. ASSUME NEW m, Carries1(m) PROVE Carries1(m)'
    <3>1. toDev' = <<m>>
      BY <1>1, <2>3, Tuples DEF Carries1
    <3> QED
      BY <1>2, <3>1 DEF Carries1
  <2>4. ASSUME NEW m, NEW d, Carries2(m, d) PROVE Carries2(m, d)'
    <3>1. toDev' = <<m, d>>
      BY <1>1, <2>4, Tuples DEF Carries2
    <3> QED
      BY <1>2, <3>1 DEF Carries2
  <2> QED
    BY <1>1, <2>1, <2>2, <2>3, <2>4 DEF MemInv, PendInv
<1>9. /\ \A st : Effect(st)' = Effect(st)
      /\ \A o, n : Upto(o, n)' = Upto(o, n)
      /\ \A o : Listed(Reserved(o))' = Listed(Reserved(o))
      /\ Hooked' = Hooked /\ WellPlaced' = WellPlaced
  BY <1>1, <1>3, EffectsStay
<1>10. EffectInv'
  BY <1>1, <1>3, <1>4, <1>9 DEF MemInv, EffectInv
<1>11. ProgressInv'
  <2>1. \A o : Length(o)' = Length(o) /\ InSpace(o)' = InSpace(o)
    BY <1>3, PlacesStay
  <2> QED
    BY <1>1, <1>3, <1>4, <1>9, <2>1 DEF MemInv, ProgressInv, ChunkLen
<1>12. LkInv'
  <2>1. LkPtrs' = LkPtrs
    BY <1>3, PlacesStay
  <2> QED
    BY <1>1, <1>3, <1>4, <2>1 DEF MemInv, LkInv
<1>13. GoneBoot' /\ GonePreloader'
  BY <1>2 DEF GoneBoot, GonePreloader
<1> QED
  BY <1>3, <1>5, <1>6, <1>7, <1>8, <1>10, <1>11, <1>12, <1>13 DEF MemInv

-----------------------------------------------------------------------------
(* The command loop.                                                       *)

LEMMA LoopFrame ==
  ASSUME SlotsInv, phase = "serving", PayloadStep
  PROVE  /\ UNCHANGED <<stage, base, areas>> /\ Grows /\ phase' \in Left
<1>1. Arm(Kind(Head(toDev))) /\ phase' \in Left
  BY ArmByKind, ArmFrame
<1>2. UNCHANGED <<stage, base, areas>>
  BY <1>1 DEF Arm, OnAck, OnRead, OnWrite, OnFlushCache, OnJumpLeaves, OnJumpReturns,
    OnJumpRefused, OnReset, OnHook, OnGetFreeRange, OnBlacklistRange, OnSetParams, OnError, dev
<1>3. Grows
  BY <1>1 DEF Arm, OnAck, OnRead, OnWrite, OnFlushCache, OnJumpLeaves, OnJumpReturns,
    OnJumpRefused, OnReset, OnHook, OnGetFreeRange, OnBlacklistRange, OnSetParams, OnError, dev,
    Grows, blacklist_dl
<1> QED
  BY <1>1, <1>2, <1>3

(* What the loop never disturbs.                                           *)
LEMMA LoopKeeps ==
  ASSUME IInv, MemInv, phase = "serving", PayloadStep, UNCHANGED host,
         phase' = "booted" => stage = "pl"
  PROVE  AreaInv' /\ CopyInv' /\ StageInv' /\ Tame' = Tame
<1>1. /\ UNCHANGED <<stage, base, areas>> /\ Grows /\ phase' \in Left
      /\ SlotsInv /\ AreaInv /\ StageInv
  BY LoopFrame DEF IInv, MemInv
<1>2. /\ UNCHANGED <<cfg, hstat, ip, off, waiting, place, hparams>>
      /\ Done' = Done /\ Here' = Here /\ Lbl' = Lbl /\ CopyInv'
  BY HostSame DEF MemInv
<1>3. Tame' = Tame /\ OwnRanges' = OwnRanges
  BY <1>1, <1>2 DEF Tame, OwnRanges
<1>4. AreaInv'
  <2>1. /\ params'.memory = params.memory
        /\ \A q : Covered(q) => Covered(q)'
    BY <1>1, GrowsKeeps, GrowsCovers
  <2>2. cfg.lk => Listed(Bss)'
    <3>1. Bss' = Bss /\ (cfg.lk => Listed(Bss))
      BY <1>1 DEF Bss, AreaInv
    <3> QED
      BY <1>1, <3>1, GrowsCovers DEF Bss
  <2>3. \A q \in OwnRanges' : Covered(q)'
    BY <1>1, <1>3, <2>1 DEF AreaInv
  <2> QED
    BY <1>1, <1>2, <2>1, <2>2, <2>3 DEF AreaInv, Left
<1>5. StageInv'
  BY <1>1, <1>2 DEF StageInv, Left
<1> QED
  BY <1>2, <1>3, <1>4, <1>5

(* At the prompt nothing more is claimed.                                  *)
LEMMA PromptLoopMem ==
  ASSUME IInv, MemInv, phase = "serving", PayloadStep, UNCHANGED host, ~ Tame
  PROVE  MemInv'
<1>1. stage = "pl" /\ stage' = stage /\ phase' \in Left
  BY LoopFrame DEF IInv, MemInv, StageInv, Tame
<1>2. AreaInv' /\ CopyInv' /\ StageInv' /\ ~ Tame'
  BY <1>1, LoopKeeps
<1>3. HoldInv'
  BY <1>1, <1>2 DEF HoldInv, Left
<1>4. PendInv' /\ EffectInv' /\ ProgressInv' /\ LkInv' /\ GoneBoot'
  BY <1>2 DEF PendInv, EffectInv, ProgressInv, LkInv, GoneBoot
<1>5. GonePreloader'
  BY <1>1 DEF GonePreloader
<1> QED
  BY <1>2, <1>3, <1>4, <1>5 DEF MemInv

(* In a boot the loop reads the request of the step under way, or the jump *)
(* the host did not wait for.                                              *)
LEMMA LoopReads ==
  ASSUME IInv, MemInv, Tame, phase = "serving", PayloadStep
  PROVE  \E m, d :
           /\ Head(toDev) = m /\ Arm(Kind(m)) /\ toDev' = <<>>
           /\ Kind(m) = "Write" => toDev = <<m, d>>
           /\ Sent(m, d) \/ SentJump(m)
<1>1. toDev # <<>> /\ Arm(Kind(Head(toDev))) /\ SlotsInv
  BY ArmByKind DEF IInv
<1>2. /\ \/ toDev' = Tail(toDev)
         \/ toDev' = Tail(Tail(toDev)) /\ Len(toDev) >= 2
  BY <1>1, ArmFrame
<1>3. ASSUME NEW m, toDev = <<m>> PROVE Head(toDev) = m /\ toDev' = <<>>
  <2>1. Head(toDev) = m /\ Tail(toDev) = <<>> /\ Len(toDev) = 1
    BY <1>3, Tuples
  <2> QED
    BY <1>2, <2>1
<1>4. ASSUME NEW m, NEW d, toDev = <<m, d>>, Kind(m) = "Write"
      PROVE  Head(toDev) = m /\ toDev' = <<>>
  <2>1. Head(toDev) = m /\ Tail(Tail(toDev)) = <<>>
    BY <1>4, Tuples
  <2>2. OnWrite
    BY <1>1, <1>4, <2>1 DEF Arm
  <2> QED
    BY <2>1, <2>2 DEF OnWrite
<1>5. ASSUME NEW m, NEW d, Sent(m, d),
             IF Kind(m) = "Write" THEN Carries2(m, d) ELSE Carries1(m)
      PROVE  /\ Head(toDev) = m /\ Arm(Kind(m)) /\ toDev' = <<>>
             /\ Kind(m) = "Write" => toDev = <<m, d>>
  <2>1. IF Kind(m) = "Write" THEN toDev = <<m, d>> ELSE toDev = <<m>>
    BY <1>5 DEF Carries1, Carries2
  <2> QED
    BY <1>1, <1>3, <1>4, <2>1
<1>6. ASSUME NEW m, SentJump(m), Carries1(m)
      PROVE  Head(toDev) = m /\ Arm(Kind(m)) /\ toDev' = <<>> /\ Kind(m) # "Write"
  <2>1. toDev = <<m>> /\ Kind(m) = "Jump"
    BY <1>6 DEF Carries1, SentJump
  <2> QED
    BY <1>1, <1>3, <2>1
<1>7. \/ \E m, d : Sent(m, d) /\ IF Kind(m) = "Write" THEN Carries2(m, d) ELSE Carries1(m)
      \/ \E m : SentJump(m) /\ Carries1(m)
  BY <1>1 DEF MemInv, PendInv, Carries0
<1> QED
  BY <1>5, <1>6, <1>7

(* A host that still waits has no answer yet.                              *)
LEMMA LoopAsked ==
  ASSUME IInv, hstat = "running", Here.op \in Talks \ {"repl"}, phase = "serving", toDev # <<>>
  PROVE  toHost = <<>>
BY OnAt DEF Rest, Asked, Answered, Lost, Carries0

(* The host after the jump.                                                *)
LEMMA AfterJump ==
  ASSUME SlotsInv, HostInv, hstat = "running", NEW m, SentJump(m)
  PROVE  /\ Here.op = "jump" \/ Lbl.at = "gone"
         /\ Here.op \in {"jump", "open_port"}
<1>0. PICK j \in {ip - 1, ip} \cap (1..Len(Script(cfg))) : Script(cfg)[j].op = "jump"
  BY DEF SentJump
<1>1. CASE j = ip
  BY <1>0, <1>1 DEF Here
<1>2. CASE j = ip - 1
  <2> DEFINE st == Script(cfg)[j]
  <2>1. cfg \in Configs /\ j \in 1..Len(Script(cfg))
    BY DEF SlotsInv
  <2>2. /\ st \in Steps /\ Label(cfg)[j - 1] \in Labels
        /\ Label(cfg)[j] = After(cfg, st, Label(cfg)[j - 1]) /\ Label(cfg)[j].at # "bad"
    BY <2>1, PlaceOfStep
  <2>3. /\ Label(cfg)[j].at = Follows(cfg, st, Label(cfg)[j - 1].at)
        /\ Label(cfg)[j - 1].at \in Places
    BY <2>2 DEF After, Lab, Labels
  <2>4. Placed(cfg, st, Label(cfg)[j - 1].at, Label(cfg)[j].at)
    BY <2>2, <2>3, StepsByPlace
  <2>5. Placed(cfg, Here, Lbl.at, Then.at) /\ Lbl.at = Label(cfg)[j].at
    BY <1>2, Now DEF Lbl
  <2>6. Lbl.at = "gone"
    BY <1>0, <2>4, <2>5 DEF Placed
  <2> QED
    BY <2>5, <2>6 DEF Placed
<1> QED
  BY <1>1, <1>2

(* An effect that neither memory nor a shorter blacklist takes back.       *)
LEMMA EffectKept ==
  ASSUME SlotsInv, cfg' = cfg, place' = place, UNCHANGED <<stage, mem, areas>>, Grows,
         lkParams' = lkParams \/ lkParams' = LkPtrs, NEW st, Effect(st)
  PROVE  Effect(st)'
<1>1. /\ \A o : Addr(o)' = Addr(o) /\ Length(o)' = Length(o)
      /\ \A o : Loc(o)' = Loc(o) /\ InSpace(o)' = InSpace(o) /\ Reserved(o)' = Reserved(o)
      /\ LkPtrs' = LkPtrs
  BY PlacesStay
<1>2. Fixed(cfg)' = Fixed(cfg) /\ WellPlaced' = WellPlaced /\ OwnRanges' = OwnRanges
  BY FixedStay, AreasStay
<1>3. Intact(st.obj)' = Intact(st.obj)
  BY <1>1 DEF Intact, Byte, HookRange
<1>4. Listed(Reserved(st.obj)) => Listed(Reserved(st.obj))'
  <2>1. PICK q : q = Reserved(st.obj)
    OBVIOUS
  <2>2. Listed(q) => Listed(q)'
    BY GrowsCovers
  <2> QED
    BY <1>1, <2>1, <2>2 DEF Listed
<1>5. Hooked' = Hooked
  BY DEF Hooked, HookRange
<1>6. ClearOf(st.obj)' = ClearOf(st.obj)
  BY <1>1, <1>2 DEF ClearOf, Overlap, Bss
<1> QED
  BY <1>1, <1>2, <1>3, <1>4, <1>5, <1>6 DEF Effect

(* A request that leaves memory alone.                                     *)
LEMMA LightMem ==
  ASSUME IInv, MemInv, Tame, phase = "serving", PayloadStep, UNCHANGED host, toDev' = <<>>,
         UNCHANGED <<mem, phase>>,
         \/ lkParams' = lkParams
         \/ lkParams' = LkPtrs /\ ip <= Len(Script(cfg)) /\ Here.op = "set_lk",
         hstat = "running" =>
           /\ Here.op # "upload"
           /\ Here.op = "reserve" /\ AKind(Head(toHost')) = "Ack" => Listed(Reserved(Here.obj))'
           /\ Here.op = "hook" => AKind(Head(toHost')) # "Ack"
  PROVE  MemInv'
<1>1. /\ UNCHANGED <<stage, base, areas>> /\ Grows /\ SlotsInv
  BY LoopFrame DEF IInv
<1>2. AreaInv' /\ CopyInv' /\ StageInv' /\ Tame' = Tame
  BY LoopKeeps
<1>3. /\ UNCHANGED <<cfg, hstat, ip, off, waiting, place, hparams>>
      /\ Done' = Done /\ Here' = Here
  BY HostSame
<1>4. HoldInv'
  <2>1. KeepsClear' = KeepsClear
    BY <1>1, <1>3, AreasStay
  <2> QED
    BY <1>1, <1>2, <1>3, <2>1 DEF MemInv, HoldInv, Alive, Started, Holds
<1>5. PendInv'
  BY DEF PendInv
<1>6. EffectInv'
  <2>1. \A st \in Done : Effect(st)
    BY DEF MemInv, EffectInv
  <2> QED
    BY <1>1, <1>3, <2>1, EffectKept DEF EffectInv
<1>7. ProgressInv'
  BY <1>3 DEF ProgressInv
<1>8. LkInv'
  <2>1. LkPtrs' = LkPtrs /\ LkInv
    BY <1>3, PlacesStay DEF MemInv
  <2> QED
    BY <1>2, <1>3, <2>1 DEF LkInv
<1>9. GoneBoot' /\ GonePreloader'
  BY DEF GoneBoot, GonePreloader
<1> QED
  BY <1>2, <1>4, <1>5, <1>6, <1>7, <1>8, <1>9 DEF MemInv

(* Request m of the step under way, or the jump, is what is read.          *)
Reads(m, d) ==
  /\ IInv /\ MemInv /\ Tame /\ phase = "serving" /\ PayloadStep /\ UNCHANGED host
  /\ Head(toDev) = m /\ Arm(Kind(m)) /\ toDev' = <<>> /\ toDev # <<>>
  /\ Kind(m) = "Write" => toDev = <<m, d>>

LEMMA SetParamsMem ==
  ASSUME NEW m, NEW d, Reads(m, d), Sent(m, d), Here.op \in {"set_pl", "set_lk"}
  PROVE  MemInv'
<1>1. /\ IInv /\ MemInv /\ Tame /\ phase = "serving" /\ PayloadStep /\ UNCHANGED host
      /\ toDev' = <<>> /\ ip <= Len(Script(cfg))
  BY DEF Reads, Sent
<1>2. Kind(m) = "SetParams" /\ Head(toDev) = m
      /\ \/ m.arg.type = "Preloader"
         \/ Here.op = "set_lk" /\ m.arg.ptrs = LkPtrs
  BY DEF Sent, Reads
<1>3. OnSetParams
  BY <1>2 DEF Reads, Arm
<1>4. UNCHANGED <<mem, phase>> /\ (lkParams' = lkParams \/ (lkParams' = LkPtrs /\ Here.op = "set_lk"))
  BY <1>2, <1>3 DEF OnSetParams, Arg
<1> QED
  BY <1>1, <1>4, LightMem

LEMMA GetFreeRangeMem ==
  ASSUME NEW m, NEW d, Reads(m, d), Sent(m, d), Here.op = "alloc"
  PROVE  MemInv'
<1>1. /\ IInv /\ MemInv /\ Tame /\ phase = "serving" /\ PayloadStep /\ UNCHANGED host
      /\ toDev' = <<>>
  BY DEF Reads
<1>2. OnGetFreeRange
  BY DEF Sent, Reads, Arm
<1>3. UNCHANGED <<mem, phase, lkParams>>
  BY <1>2 DEF OnGetFreeRange, dev
<1> QED
  BY <1>1, <1>3, LightMem

LEMMA BlacklistRangeMem ==
  ASSUME NEW m, NEW d, Reads(m, d), Sent(m, d), Here.op = "reserve"
  PROVE  MemInv'
<1>1. /\ IInv /\ MemInv /\ Tame /\ phase = "serving" /\ PayloadStep /\ UNCHANGED host
      /\ toDev' = <<>> /\ SlotsInv /\ Head(toDev) = m /\ toDev # <<>>
  BY DEF Reads, IInv
<1>2. m.arg = Reserved(Here.obj) /\ OnBlacklistRange
  BY DEF Sent, Reads, Arm
<1>3. UNCHANGED <<mem, phase, lkParams>>
  BY <1>2 DEF OnBlacklistRange
<1>4. ASSUME hstat = "running", AKind(Head(toHost')) = "Ack"
      PROVE  Listed(Reserved(Here.obj))'
  <2>1. toHost = <<>>
    BY <1>1, <1>4, LoopAsked DEF Talks
  <2>2. ~ Reply("Nack", [error |-> "NotSupported"])
    <3> SUFFICES ASSUME Reply("Nack", [error |-> "NotSupported"]) PROVE FALSE
      OBVIOUS
    <3>1. PICK a : toHost' = <<a>> /\ AKind(a) = "Nack"
      BY <1>1, <2>1, Replies
    <3> QED
      BY <1>4, <3>1, Tuples
  <2> DEFINE e == [start |-> m.arg.start, end |-> m.arg.end, mode |-> "ForbiddenDL"]
  <2>3. params' = [params EXCEPT !.blacklist = Append(@, e)]
    BY <1>1, <1>2, <2>2 DEF OnBlacklistRange, blacklist_dl, Arg
  <2>4. e.start = m.arg.start /\ e.end = m.arg.end
    OBVIOUS
  <2> HIDE DEF e
  <2>5. IsListed(params'.blacklist, e)
    BY <1>1, <2>3, EntryListed
  <2>6. Reserved(Here.obj)' = m.arg
    <3>1. UNCHANGED <<cfg, place>> /\ Here' = Here
      BY <1>1, HostSame
    <3>2. \A o : Reserved(o)' = Reserved(o)
      BY <3>1, PlacesStay
    <3> QED
      BY <1>2, <3>1, <3>2
  <2> QED
    BY <2>4, <2>5, <2>6 DEF Listed, IsListed
<1> QED
  BY <1>1, <1>3, <1>4, LightMem

(* A jump that comes back, or is not made.                                 *)
LEMMA JumpStaysMem ==
  ASSUME NEW m, NEW d, Reads(m, d), SentJump(m), OnJumpReturns \/ OnJumpRefused
  PROVE  MemInv'
<1>1. /\ IInv /\ MemInv /\ Tame /\ phase = "serving" /\ PayloadStep /\ UNCHANGED host
      /\ toDev' = <<>> /\ SlotsInv /\ HostInv
  BY DEF Reads, IInv
<1>2. UNCHANGED <<mem, phase, lkParams>>
  BY DEF OnJumpReturns, OnJumpRefused, dev
<1>3. hstat = "running" => Here.op \in {"jump", "open_port"}
  BY <1>1, AfterJump
<1> QED
  BY <1>1, <1>2, <1>3, LightMem

(* A hook that is refused.                                                 *)
LEMMA HookRefusedMem ==
  ASSUME NEW m, NEW d, Reads(m, d), Sent(m, d), Here.op = "hook",
         ~ (stage = "pl" /\ lkParams # <<>>)
  PROVE  MemInv'
<1>1. /\ IInv /\ MemInv /\ Tame /\ phase = "serving" /\ PayloadStep /\ UNCHANGED host
      /\ toDev' = <<>> /\ SlotsInv /\ Head(toDev) = m /\ toDev # <<>>
  BY DEF Reads, IInv
<1>2. OnHook
  BY DEF Sent, Reads, Arm
<1>3. /\ UNCHANGED <<mem, phase, lkParams>>
      /\ \E e : Reply("Nack", e)
  BY <1>2 DEF OnHook
<1>4. hstat = "running" => AKind(Head(toHost')) # "Ack"
  <2> SUFFICES ASSUME hstat = "running" PROVE AKind(Head(toHost')) # "Ack"
    OBVIOUS
  <2>1. toHost = <<>>
    BY <1>1, LoopAsked DEF Talks
  <2>2. PICK a : toHost' = <<a>> /\ AKind(a) = "Nack"
    BY <1>1, <1>3, <2>1, Replies
  <2> QED
    BY <2>2, Tuples
<1> QED
  BY <1>1, <1>3, <1>4, LightMem

-----------------------------------------------------------------------------
(* A store to memory.                                                      *)

Held(m) ==
  /\ Holds(m, base, ImageFile, ImageObj)
  /\ areas.stack # NoRange => Holds(m, areas.stack.start, StackSize, <<"stack", 0>>)
  /\ areas.heap # NoRange => Holds(m, areas.heap.start, HeapSize, <<"heap", 0>>)

LEMMA StoreClear ==
  ASSUME AreaInv, phase \notin {"rom", "preloader", "halted", "app", "stack"},
         NEW m, Held(m), NEW s \in Int, NEW z \in Int, NEW o, NEW k \in Int,
         \A r \in OwnRanges : ~ Overlap(Range(s, z), r)
  PROVE  Held(Store(m, s, z, o, k))
<1>1. /\ base \in U32 /\ base + ImageSize <= U32Max + 1
      /\ areas.image = Range(base, ImageSize)
      /\ areas.stack.start \in U32 /\ areas.stack = Range(areas.stack.start, StackSize)
      /\ areas.stack.start + StackSize <= U32Max + 1
      /\ areas.heap # NoRange =>
           /\ areas.heap.start \in U32 /\ areas.heap = Range(areas.heap.start, HeapSize)
           /\ areas.heap.start + HeapSize <= U32Max + 1
  BY DEF AreaInv
<1>2. /\ ImageSize \in Nat /\ ImageFile \in Nat /\ ImageFile <= ImageSize
      /\ StackSize \in Nat /\ HeapSize \in Nat /\ StackSize <= StackSize /\ HeapSize <= HeapSize
  BY ImageAssumption, AreaAssumption
<1>3. areas.image # NoRange
  <2>1. base # -1
    BY <1>1, U32MaxAssumption DEF U32
  <2>2. Range(base, ImageSize).start = base
    BY DEF Range
  <2> QED
    BY <1>1, <2>1, <2>2 DEF NoRange
<1>4. Holds(Store(m, s, z, o, k), base, ImageFile, ImageObj)
  <2>1. ~ Overlap(Range(s, z), Range(base, ImageSize))
    BY <1>1, <1>3 DEF OwnRanges
  <2> QED
    BY <1>1, <1>2, <2>1, HoldsOn DEF Held
<1>5. areas.stack # NoRange =>
        Holds(Store(m, s, z, o, k), areas.stack.start, StackSize, <<"stack", 0>>)
  <2> SUFFICES ASSUME areas.stack # NoRange
               PROVE  Holds(Store(m, s, z, o, k), areas.stack.start, StackSize, <<"stack", 0>>)
    OBVIOUS
  <2>0. PICK a : a = areas.stack.start
    OBVIOUS
  <2>1. ~ Overlap(Range(s, z), Range(a, StackSize)) /\ a \in U32 /\ a + StackSize <= U32Max + 1
    BY <1>1, <2>0 DEF OwnRanges
  <2>2. Holds(m, a, StackSize, <<"stack", 0>>)
    BY <2>0 DEF Held
  <2>3. Holds(Store(m, s, z, o, k), a, StackSize, <<"stack", 0>>)
    BY <1>2, <2>1, <2>2, HoldsOn
  <2> QED
    BY <2>0, <2>3
<1>6. areas.heap # NoRange =>
        Holds(Store(m, s, z, o, k), areas.heap.start, HeapSize, <<"heap", 0>>)
  <2> SUFFICES ASSUME areas.heap # NoRange
               PROVE  Holds(Store(m, s, z, o, k), areas.heap.start, HeapSize, <<"heap", 0>>)
    OBVIOUS
  <2>0. PICK a : a = areas.heap.start
    OBVIOUS
  <2>1. ~ Overlap(Range(s, z), Range(a, HeapSize)) /\ a \in U32 /\ a + HeapSize <= U32Max + 1
    BY <1>1, <2>0 DEF OwnRanges
  <2>2. Holds(m, a, HeapSize, <<"heap", 0>>)
    BY <2>0 DEF Held
  <2>3. Holds(Store(m, s, z, o, k), a, HeapSize, <<"heap", 0>>)
    BY <1>2, <2>1, <2>2, HoldsOn
  <2> QED
    BY <2>0, <2>3
<1> QED
  BY <1>4, <1>5, <1>6 DEF Held

(* Part of an object's place is clear of what the whole is clear of.       *)
LEMMA PartIsClear ==
  ASSUME NEW o, Addr(o) \in Int, Length(o) \in Nat, NEW s \in Int, NEW z \in Int,
         Addr(o) <= s, s + z <= Addr(o) + Length(o),
         NEW q, q.start \in Int, q.end \in Int, ~ Overlap(Loc(o), q)
  PROVE  ~ Overlap(Range(s, z), q)
<1>1. ~ (Addr(o) < q.end /\ q.start < Addr(o) + Length(o))
  BY DEF Overlap, Loc, Range
<1>2. ~ (s < q.end /\ q.start < s + z)
  BY <1>1
<1> QED
  BY <1>2 DEF Overlap, Range

(* An object that a store misses ...                                       *)
LEMMA IntactMissed ==
  ASSUME UNCHANGED <<cfg, place>>, NEW o, Addr(o) \in U32, Length(o) \in Nat, InSpace(o),
         NEW s \in Int, NEW z \in Int, NEW b, NEW k \in Int,
         mem' = Store(mem, s, z, b, k), ~ Overlap(Range(s, z), Loc(o)), Intact(o)
  PROVE  Intact(o)'
<1>0. PICK a, n : a = Addr(o) /\ n = Length(o)
  OBVIOUS
<1>1. Addr(o)' = a /\ Length(o)' = n
  BY <1>0, PlacesStay
<1>2. a \in Int /\ n \in Int /\ a \in U32 /\ a + n <= U32Max + 1
      /\ ~ Overlap(Range(s, z), Range(a, n))
  BY <1>0, U32MaxAssumption DEF U32, InSpace, Loc
<1>3. ASSUME NEW j \in 0..(n - 1) PROVE mem'[a + j] = mem[a + j]
  <2>1. a + j \in U32 /\ a <= a + j /\ a + j < a + n
    BY <1>2, U32MaxAssumption DEF U32
  <2> QED
    BY <1>2, <2>1, StoreMisses
<1> QED
  BY <1>0, <1>1, <1>3 DEF Intact, HookRange

(* ... and one that is written once more.                                  *)
LEMMA IntactAgain ==
  ASSUME UNCHANGED <<cfg, place>>, NEW o, Addr(o) \in U32, Length(o) \in Nat, InSpace(o),
         NEW k \in Nat, NEW z \in Int,
         mem' = Store(mem, Addr(o) + k, z, o, k), Intact(o)
  PROVE  Intact(o)'
<1>0. PICK a, n : a = Addr(o) /\ n = Length(o)
  OBVIOUS
<1>1. Addr(o)' = a /\ Length(o)' = n
  BY <1>0, PlacesStay
<1>2. a \in Int /\ n \in Int /\ a \in U32 /\ a + n <= U32Max + 1 /\ a + k \in Int
  BY <1>0, U32MaxAssumption DEF U32, InSpace
<1>3. ASSUME NEW j \in 0..(n - 1) PROVE mem'[a + j] = mem[a + j] \/ mem'[a + j] = Byte(o, j)
  <2>1. a + j \in U32 /\ k + (a + j) - (a + k) = j
    BY <1>2, U32MaxAssumption DEF U32
  <2>2. \/ mem'[a + j] = mem[a + j]
        \/ mem'[a + j] = Byte(o, k + (a + j) - (a + k))
    BY <1>0, <1>2, <2>1, Stored
  <2> QED
    BY <2>1, <2>2
<1> QED
  BY <1>0, <1>1, <1>3 DEF Intact, HookRange

(* An upload that is done has a place of its own.                          *)
Settling(o) == o \in Fixed(cfg) \cup Chosen /\ (o \in Chosen => Stp("alloc", o) \in Done)

LEMMA UploadSettled ==
  ASSUME SlotsInv, StageInv, NEW st \in Done, st.op = "upload", st.obj # PreloaderObj
  PROVE  Settling(st.obj)
<1>1. PICK P \in SUBSET Done : Fit(cfg, st, P)
  BY DoneFits
<1>2. st.obj \in Fixed(cfg) \cup Chosen /\ (st.obj \in Chosen => Stp("alloc", st.obj) \in P)
  BY <1>1 DEF Fit
<1> QED
  BY <1>2 DEF Settling

LEMMA SettledPlace ==
  ASSUME SlotsInv, StageInv, \A st \in Done : Effect(st), NEW o, Settling(o)
  PROVE  /\ Addr(o) \in U32 /\ Addr(o) \in Int /\ Length(o) \in Nat
         /\ o \in Chosen => ClearOf(o)
         /\ WellPlaced => InSpace(o)
<1>1. o \in Chosen => ClearOf(o)
  <2>1. o \in Chosen => Effect(Stp("alloc", o))
    BY DEF Settling
  <2>2. Stp("alloc", o).op = "alloc" /\ Stp("alloc", o).obj = o
    BY DEF Stp
  <2> QED
    BY <2>1, <2>2 DEF Effect
<1>2. CASE o \in Chosen
  BY <1>1, <1>2, ChosenFacts DEF ClearOf
<1>3. CASE o \in Fixed(cfg)
  BY <1>1, <1>3, FixedFacts DEF WellPlaced
<1> QED
  BY <1>2, <1>3 DEF Settling

LEMMA OverlapSymmetric ==
  ASSUME NEW p, NEW q, ~ Overlap(p, q)
  PROVE  ~ Overlap(q, p)
BY DEF Overlap

LEMMA ObjectsClear ==
  ASSUME SlotsInv, StageInv, \A st \in Done : Effect(st), WellPlaced,
         NEW o, NEW x, Settling(o), Settling(x), o # x
  PROVE  ~ Overlap(Loc(o), Loc(x))
<1>1. (o \in Chosen => ClearOf(o)) /\ (x \in Chosen => ClearOf(x))
  BY SettledPlace
<1>2. CASE o \in Fixed(cfg) /\ x \in Fixed(cfg)
  BY <1>2 DEF WellPlaced
<1>3. CASE o \in Chosen /\ x \in Fixed(cfg)
  BY <1>1, <1>3 DEF ClearOf
<1>4. CASE o \in Fixed(cfg) /\ x \in Chosen
  BY <1>1, <1>4, OverlapSymmetric DEF ClearOf
<1>5. CASE o \in Chosen /\ x \in Chosen
  <2>1. (o = ImgObj /\ x = ArgObj) \/ (o = ArgObj /\ x = ImgObj)
    BY <1>5 DEF Chosen
  <2>2. Stp("alloc", ArgObj) \in Done
    BY <1>5, <2>1 DEF Settling
  <2>3. cfg.lk
    <3>1. PICK P : Fit(cfg, Stp("alloc", ArgObj), P)
      BY <2>2, DoneFits
    <3>2. Stp("alloc", ArgObj).op = "alloc" /\ Stp("alloc", ArgObj).obj = ArgObj
      BY DEF Stp
    <3> QED
      BY <3>1, <3>2 DEF Fit
  <2>4. ~ Overlap(Loc(ImgObj), Loc(ArgObj))
    BY <1>1, <1>5, <2>1, <2>3 DEF ClearOf
  <2> QED
    BY <2>1, <2>4, OverlapSymmetric
<1> QED
  BY <1>2, <1>3, <1>4, <1>5 DEF Settling

LEMMA OwnClear ==
  ASSUME SlotsInv, StageInv, \A st \in Done : Effect(st), KeepsClear,
         NEW o, Settling(o) \/ (o = PreloaderObj /\ cfg.dev = "rom")
  PROVE  \A r \in OwnRanges : ~ Overlap(Loc(o), r)
<1>1. CASE o \in Fixed(cfg) \/ (o = PreloaderObj /\ cfg.dev = "rom")
  <2>1. ~ HitsPayload(Addr(o), Length(o))
    BY <1>1 DEF KeepsClear
  <2> QED
    BY <2>1 DEF HitsPayload, Loc
<1>2. CASE o \in Chosen /\ Settling(o)
  BY <1>2, SettledPlace DEF ClearOf
<1> QED
  BY <1>1, <1>2 DEF Settling

(* A request that stores.                                                  *)
LEMMA HeavyMem ==
  ASSUME NEW m, NEW d, Reads(m, d), NEW s \in Int, NEW z \in Int, NEW b, NEW k \in Int,
         mem' = Store(mem, s, z, b, k), UNCHANGED <<params, lkParams>>,
         phase' \in {"serving", "crashed"},
         KeepsClear => \A r \in OwnRanges : ~ Overlap(Range(s, z), r),
         \A st \in Done : Effect(st)', ProgressInv'
  PROVE  MemInv'
<1>1. /\ IInv /\ MemInv /\ Tame /\ phase = "serving" /\ PayloadStep /\ UNCHANGED host
      /\ toDev' = <<>>
  BY DEF Reads
<1>2. /\ UNCHANGED <<stage, base, areas>> /\ SlotsInv /\ AreaInv /\ HoldInv
  BY <1>1, LoopFrame DEF IInv, MemInv
<1>3. AreaInv' /\ CopyInv' /\ StageInv' /\ Tame' = Tame
  BY <1>1, LoopKeeps
<1>4. /\ UNCHANGED <<cfg, hstat, ip, off, waiting, place, hparams>>
      /\ Done' = Done /\ Here' = Here
  BY <1>1, HostSame
<1>5. HoldInv'
  <2> SUFFICES ASSUME KeepsClear, phase' = "serving" PROVE HoldInv'
    <3>1. KeepsClear' = KeepsClear
      BY <1>2, <1>4, AreasStay
    <3> QED
      BY <1>1, <3>1 DEF HoldInv, Alive, Started
  <2>1. Held(mem)
    BY <1>1, <1>2 DEF HoldInv, Alive, Started, Held
  <2>2. Held(mem')
    BY <1>1, <1>2, <2>1, StoreClear
  <2> QED
    BY <1>2, <2>2 DEF HoldInv, Held
<1>6. PendInv'
  BY <1>1 DEF PendInv
<1>7. EffectInv'
  BY <1>4 DEF EffectInv
<1>8. LkInv'
  <2>1. LkPtrs' = LkPtrs /\ LkInv
    BY <1>1, <1>4, PlacesStay DEF MemInv
  <2> QED
    BY <1>3, <1>4, <2>1 DEF LkInv
<1>9. GoneBoot' /\ GonePreloader'
  BY DEF GoneBoot, GonePreloader
<1> QED
  BY <1>3, <1>5, <1>6, <1>7, <1>8, <1>9 DEF MemInv

(* The effects a store cannot undo.                                        *)
LEMMA OtherEffects ==
  ASSUME SlotsInv, UNCHANGED <<cfg, place, stage, params, areas, lkParams>>, NEW st, Effect(st),
         st.op # "upload", st.op # "hook"
  PROVE  Effect(st)'
<1>1. /\ \A o : Addr(o)' = Addr(o) /\ Length(o)' = Length(o)
      /\ \A o : Loc(o)' = Loc(o) /\ InSpace(o)' = InSpace(o) /\ Reserved(o)' = Reserved(o)
      /\ LkPtrs' = LkPtrs
  BY PlacesStay
<1>2. Fixed(cfg)' = Fixed(cfg) /\ OwnRanges' = OwnRanges
  BY FixedStay, AreasStay
<1>3. Listed(Reserved(st.obj))' = Listed(Reserved(st.obj))
  BY <1>1 DEF Listed, IsListed
<1>4. ClearOf(st.obj)' = ClearOf(st.obj)
  BY <1>1, <1>2 DEF ClearOf, Overlap, Bss
<1> QED
  BY <1>1, <1>3, <1>4 DEF Effect

(* In mode LK the device has been told of LK, and LK is uploaded.          *)
LEMMA LkIsFixed ==
  ASSUME StageInv, Stp("main", NoObj) \in Done, cfg.mode = "LK"
  PROVE  cfg.lk /\ LkObj \in Fixed(cfg) /\ Settling(LkObj)
<1>1. UsageOK(cfg)
  BY DEF StageInv
<1>2. cfg.lk
  BY <1>1 DEF UsageOK
<1>3. LkObj \in Fixed(cfg) /\ LkObj \notin Chosen
  BY <1>2 DEF Fixed, Chosen, LkObj, ArgObj, ImgObj
<1> QED
  BY <1>2, <1>3 DEF Settling

LEMMA LkPlace ==
  /\ Addr(LkObj) = LkAddr /\ Length(LkObj) = LkLen
  /\ LkAddr \in Int /\ LkLen \in Int /\ HookOff \in Int /\ HookLen \in Int
  /\ 0 <= LkAddr /\ 0 <= HookOff /\ HookOff + HookLen <= LkLen
BY LayoutAssumption, FitAssumption, HookLenAssumption, U32MaxAssumption
   DEF LkObj, Addr, Length, U32

(* The hook goes into LK.                                                  *)
LEMMA HookedMem ==
  ASSUME NEW m, NEW d, Reads(m, d), Sent(m, d), Here.op = "hook",
         stage = "pl", lkParams # <<>>
  PROVE  MemInv'
<1>1. /\ IInv /\ MemInv /\ Tame /\ phase = "serving" /\ PayloadStep /\ UNCHANGED host
      /\ SlotsInv /\ StageInv /\ LkInv /\ ip \in 1..Len(Script(cfg))
  <2>1. ip <= Len(Script(cfg)) /\ IInv /\ MemInv
    BY DEF Reads, Sent
  <2>2. SlotsInv /\ StageInv /\ LkInv /\ ip \in 1..(Len(Script(cfg)) + 1)
    BY <2>1 DEF IInv, MemInv, StageInv
  <2>3. Len(Script(cfg)) \in Nat
    BY <2>2, LabelFacts DEF SlotsInv
  <2>4. ip \in 1..Len(Script(cfg))
    BY <2>1, <2>2, <2>3
  <2> QED
    BY <2>2, <2>4 DEF Reads
<1>2. OnHook
  BY DEF Sent, Reads, Arm
<1> DEFINE s == LkAddr + HookOff
<1>3. lkParams[1] = s
  BY <1>1 DEF LkInv, LkPtrs
<1>4. /\ mem' = Store(mem, s, HookLen, <<"hook", 0>>, 0) /\ phase' = "serving"
      /\ UNCHANGED <<stage, params, areas, lkParams>>
  BY <1>1, <1>2, <1>3 DEF OnHook
<1>5. cfg.mode = "LK" /\ Stp("main", NoObj) \in Done
  BY <1>1, HereFits DEF Fit
<1>6. cfg.lk /\ LkObj \in Fixed(cfg) /\ Settling(LkObj)
  BY <1>1, <1>5, LkIsFixed
<1>7. \A st \in Done : Effect(st)
  BY <1>1 DEF MemInv, EffectInv
<1>8. UNCHANGED <<cfg, hstat, ip, off, place>> /\ Here' = Here
  BY <1>1, HostSame
<1>9. /\ s \in Int /\ HookLen \in Int /\ Addr(LkObj) <= s
      /\ s + HookLen <= Addr(LkObj) + Length(LkObj)
      /\ Addr(LkObj) \in Int /\ Length(LkObj) \in Nat
  BY LkPlace, LayoutAssumption
<1>10. WellPlaced' = WellPlaced
  BY <1>1, <1>8, FixedStay
<1>11. WellPlaced => Hooked'
  <2> SUFFICES ASSUME WellPlaced, NEW a \in HookRange
               PROVE  mem'[a] = <<"hook", 0, a - s>>
    BY DEF Hooked, HookRange
  <2>1. a \in s..(s + HookLen - 1)
    BY DEF HookRange
  <2>2. LkAddr + LkLen <= U32Max + 1
    BY <1>6, LkPlace DEF WellPlaced, InSpace
  <2> HIDE DEF s
  <2>3. a \in Int /\ s <= a /\ a < s + HookLen
    BY <1>9, <2>1
  <2>4. a \in U32 /\ 0 + a - s = a - s
    BY <1>9, <2>2, <2>3, LkPlace, U32MaxAssumption DEF U32, s
  <2>5. mem'[a] = Byte(<<"hook", 0>>, 0 + a - s)
    BY <1>4, <1>9, <2>3, <2>4, Stored
  <2> QED
    BY <2>4, <2>5 DEF Byte
<1> HIDE DEF s
<1>12. KeepsClear => \A r \in OwnRanges : ~ Overlap(Range(s, HookLen), r)
  <2> SUFFICES ASSUME KeepsClear, NEW r \in OwnRanges PROVE ~ Overlap(Range(s, HookLen), r)
    OBVIOUS
  <2>1. ~ Overlap(Loc(LkObj), r)
    BY <1>1, <1>6, <1>7, OwnClear
  <2>2. r.start \in Int /\ r.end \in Int
    BY <1>1, OwnInts DEF MemInv
  <2> QED
    BY <1>9, <2>1, <2>2, PartIsClear
<1>13. ASSUME NEW o, Settling(o), WellPlaced, Intact(o) PROVE Intact(o)'
  <2>1. Addr(o) \in U32 /\ Addr(o) \in Int /\ Length(o) \in Nat /\ InSpace(o)
    BY <1>1, <1>7, <1>13, SettledPlace
  <2>2. CASE o # LkObj
    <3>1. ~ Overlap(Loc(LkObj), Loc(o))
      BY <1>1, <1>6, <1>7, <1>13, <2>2, ObjectsClear
    <3>2. Loc(o).start \in Int /\ Loc(o).end \in Int
      BY <2>1 DEF Loc, Range
    <3>3. ~ Overlap(Range(s, HookLen), Loc(o))
      BY <1>9, <3>1, <3>2, PartIsClear
    <3> QED
      BY <1>4, <1>8, <1>9, <1>13, <2>1, <3>3, IntactMissed
  <2>3. CASE o = LkObj
    <3> SUFFICES ASSUME NEW j \in 0..(LkLen - 1)
                 PROVE  \/ mem'[LkAddr + j] = Byte(LkObj, j)
                        \/ LkAddr + j \in HookRange
      <4>1. LkObj[1] = "lk" /\ Addr(LkObj)' = LkAddr /\ Length(LkObj)' = LkLen /\ cfg'.mode = "LK"
        BY <1>5, <1>8 DEF LkObj, Addr, Length
      <4> QED
        BY <2>3, <4>1 DEF Intact, HookRange
    <3>1. mem[LkAddr + j] = Byte(LkObj, j) \/ LkAddr + j \in HookRange
      BY <1>13, <2>3, LkPlace DEF Intact
    <3>2. LkAddr + j \in U32 /\ LkAddr + j \in Int
      BY <2>1, <2>3, LkPlace, U32MaxAssumption DEF InSpace, U32
    <3>3. (s <= LkAddr + j /\ LkAddr + j < s + HookLen) => LkAddr + j \in HookRange
      BY <1>9, <3>2, LkPlace DEF HookRange, s
    <3>4. ~ (s <= LkAddr + j /\ LkAddr + j < s + HookLen) => mem'[LkAddr + j] = mem[LkAddr + j]
      BY <1>4, <1>9, <3>2, Stored
    <3> QED
      BY <3>1, <3>3, <3>4
  <2> QED
    BY <2>2, <2>3
<1>14. ASSUME NEW st \in Done PROVE Effect(st)'
  <2>1. CASE st.op = "upload" /\ st.obj # PreloaderObj
    BY <1>1, <1>7, <1>10, <1>13, <1>14, <2>1, UploadSettled DEF Effect
  <2>2. CASE st.op = "upload" /\ st.obj = PreloaderObj
    BY <1>4, <2>2 DEF Effect
  <2>3. CASE st.op = "hook"
    BY <1>10, <1>11, <2>3 DEF Effect
  <2>4. CASE st.op # "upload" /\ st.op # "hook"
    BY <1>1, <1>4, <1>7, <1>8, <2>4, OtherEffects
  <2> QED
    BY <2>1, <2>2, <2>3, <2>4
<1>15. ProgressInv'
  BY <1>8, <1>10, <1>11 DEF ProgressInv
<1> QED
  BY <1>4, <1>9, <1>12, <1>14, <1>15, HeavyMem

(* One more chunk.                                                         *)
LEMMA ChunkStored ==
  ASSUME UNCHANGED <<cfg, place>>, NEW o, Addr(o) \in U32, Length(o) \in Nat, InSpace(o),
         NEW f \in Nat, NEW z \in Nat, f + z <= Length(o),
         mem' = Store(mem, Addr(o) + f, z, o, f), Upto(o, f)
  PROVE  Upto(o, f)' /\ Upto(o, f + z)'
<1>0. PICK a, n : a = Addr(o) /\ n = Length(o)
  OBVIOUS
<1>1. Addr(o)' = a
  BY <1>0, PlacesStay
<1>2. a \in Int /\ n \in Int /\ a \in U32 /\ a + n <= U32Max + 1 /\ a + f \in Int /\ f + z <= n
  BY <1>0, U32MaxAssumption DEF U32, InSpace
<1>3. ASSUME NEW j \in 0..(f + z - 1) PROVE mem'[a + j] = Byte(o, j)
  <2>1. a + j \in U32 /\ f + (a + j) - (a + f) = j
    BY <1>2, U32MaxAssumption DEF U32
  <2>2. CASE j < f
    <3>1. ~ (a + f <= a + j /\ a + j < a + f + z) /\ j \in 0..(f - 1)
      BY <1>2, <2>2
    <3>2. mem'[a + j] = mem[a + j]
      BY <1>0, <1>2, <2>1, <3>1, Stored
    <3> QED
      BY <1>0, <3>1, <3>2 DEF Upto
  <2>3. CASE j >= f
    <3>1. a + f <= a + j /\ a + j < a + f + z
      BY <1>2, <2>3
    <3>2. mem'[a + j] = Byte(o, f + (a + j) - (a + f))
      BY <1>0, <1>2, <2>1, <3>1, Stored
    <3> QED
      BY <2>1, <3>2
  <2> QED
    BY <2>2, <2>3
<1>4. 0..(f - 1) \subseteq 0..(f + z - 1)
  OBVIOUS
<1> QED
  BY <1>1, <1>3, <1>4 DEF Upto, Byte

LEMMA WriteMem ==
  ASSUME NEW m, NEW d, Reads(m, d), Sent(m, d), Here.op = "upload"
  PROVE  MemInv'
<1>1. /\ IInv /\ MemInv /\ Tame /\ phase = "serving" /\ PayloadStep /\ UNCHANGED host
      /\ SlotsInv /\ StageInv /\ ip \in 1..Len(Script(cfg))
  <2>1. ip <= Len(Script(cfg)) /\ IInv /\ MemInv
    BY DEF Reads, Sent
  <2>2. SlotsInv /\ StageInv /\ ip \in 1..(Len(Script(cfg)) + 1)
    BY <2>1 DEF IInv, MemInv, StageInv
  <2>3. Len(Script(cfg)) \in Nat
    BY <2>2, LabelFacts DEF SlotsInv
  <2>4. ip \in 1..Len(Script(cfg))
    BY <2>1, <2>2, <2>3
  <2> QED
    BY <2>2, <2>4 DEF Reads
<1>2. PICK o, f, z : o = Here.obj /\ f = off /\ z = ChunkLen(Length(Here.obj))
  OBVIOUS
<1>3. /\ f \in Nat /\ f < Length(o) /\ m.arg = [addr |-> Addr(o) + f, size |-> z]
      /\ d.arg.obj = o /\ d.arg.off = f /\ Kind(m) = "Write"
  BY <1>2 DEF Sent, ChunkOf
<1>4. OnWrite /\ Head(toDev) = m /\ toDev = <<m, d>>
  BY <1>3 DEF Reads, Arm
<1> DEFINE s == Addr(o) + f
<1>5. mem' = Store(mem, s, z, o, f) /\ HitsPayload(s, z) \in BOOLEAN
  <2>1. Arg = m.arg /\ toDev[2].arg = d.arg /\ m.arg.addr = s /\ m.arg.size = z
    BY <1>3, <1>4 DEF Arg
  <2> QED
    BY <1>3, <1>4, <2>1 DEF OnWrite, HitsPayload
<1>6. phase' \in {"serving", "crashed"} /\ UNCHANGED <<stage, params, areas, lkParams>>
  BY <1>1, <1>4 DEF OnWrite
<1>7. UNCHANGED <<cfg, hstat, ip, off, place>> /\ Here' = Here
  BY <1>1, HostSame
<1>8. \A st \in Done : Effect(st)
  BY <1>1 DEF MemInv, EffectInv
<1>9. Fit(cfg, Here, Done)
  BY <1>1, HereFits
<1>10. /\ \A x \in Done : x.op # "hook"
       /\ \/ o = PreloaderObj /\ cfg.dev = "rom" /\ \A x \in Done : ~ Effective(x)
          \/ Settling(o) /\ (Stp("upload", PreloaderObj) \in Done => stage = "pl")
  BY <1>1, <1>2, <1>9 DEF Fit, Settling, StageInv
<1>11. Addr(o) \in U32 /\ Addr(o) \in Int /\ Length(o) \in Nat
  BY <1>1, <1>8, <1>10, SettledPlace, FixedFacts
<1>12. z \in Nat /\ f + z <= Length(o) /\ f \in Int /\ z \in Int
  <2>1. PICK n : n = Length(o)
    OBVIOUS
  <2>2. z = IF n - f < ChunkSize THEN n - f ELSE ChunkSize
    BY <1>2, <2>1 DEF ChunkLen
  <2> QED
    BY <1>3, <1>11, <2>1, <2>2, ChunkAssumption
<1>13. s \in Int /\ Addr(o) <= s /\ s + z <= Addr(o) + Length(o)
  BY <1>3, <1>11, <1>12
<1>14. ProgressInv'
  <2> SUFFICES ASSUME hstat = "running" PROVE ProgressInv'
    BY <1>7 DEF ProgressInv
  <2>1. off \in 0..Length(o) /\ (InSpace(o) => Upto(o, f))
    BY <1>1, <1>2 DEF MemInv, ProgressInv
  <2>2. /\ Length(o)' = Length(o) /\ InSpace(o)' = InSpace(o)
    BY <1>7, PlacesStay
  <2>3. InSpace(o) => Upto(o, f)' /\ Upto(o, f + z)'
    BY <1>3, <1>5, <1>7, <1>11, <1>12, <2>1, ChunkStored
  <2>4. Here'.obj = o /\ off' = f /\ ChunkLen(Length(Here.obj))' = z
    <3>1. Length(Here.obj)' = Length(Here.obj)
      BY <1>7, PlacesStay
    <3> QED
      BY <1>2, <1>7, <3>1 DEF ChunkLen
  <2> QED
    BY <1>2, <1>7, <2>1, <2>2, <2>3, <2>4 DEF ProgressInv
<1> HIDE DEF s
<1>15. KeepsClear => \A r \in OwnRanges : ~ Overlap(Range(s, z), r)
  <2> SUFFICES ASSUME KeepsClear, NEW r \in OwnRanges PROVE ~ Overlap(Range(s, z), r)
    OBVIOUS
  <2>1. ~ Overlap(Loc(o), r)
    BY <1>1, <1>8, <1>10, OwnClear
  <2>2. r.start \in Int /\ r.end \in Int
    BY <1>1, OwnInts DEF MemInv
  <2> QED
    BY <1>11, <1>12, <1>13, <2>1, <2>2, PartIsClear
<1>16. ASSUME InSpace(o), Intact(o) PROVE Intact(o)'
  BY <1>3, <1>5, <1>7, <1>11, <1>12, <1>16, IntactAgain DEF s
<1>17. ASSUME NEW x, Settling(x), WellPlaced, Intact(x), Settling(o) PROVE Intact(x)'
  <2>1. Addr(x) \in U32 /\ Addr(x) \in Int /\ Length(x) \in Nat /\ InSpace(x)
    BY <1>1, <1>8, <1>17, SettledPlace
  <2>2. CASE x = o
    BY <1>16, <1>17, <2>1, <2>2
  <2>3. CASE x # o
    <3>1. ~ Overlap(Loc(o), Loc(x))
      BY <1>1, <1>8, <1>17, <2>3, ObjectsClear
    <3>2. Loc(x).start \in Int /\ Loc(x).end \in Int
      BY <2>1 DEF Loc, Range
    <3>3. ~ Overlap(Range(s, z), Loc(x))
      BY <1>11, <1>12, <1>13, <3>1, <3>2, PartIsClear
    <3> QED
      BY <1>5, <1>7, <1>12, <1>13, <1>17, <2>1, <3>3, IntactMissed
  <2> QED
    BY <2>2, <2>3
<1>18. WellPlaced' = WellPlaced
  BY <1>1, <1>7, FixedStay
<1>19. ASSUME NEW st \in Done PROVE Effect(st)'
  <2>0. Effect(st) /\ st.op # "hook"
    BY <1>8, <1>10
  <2>1. CASE st.op = "upload" /\ st.obj # PreloaderObj
    <3>1. Settling(st.obj)
      BY <1>1, <2>1, UploadSettled
    <3>2. Settling(o)
      BY <1>10, <2>1 DEF Effective
    <3>3. WellPlaced => Intact(st.obj)'
      BY <1>17, <2>0, <2>1, <3>1, <3>2 DEF Effect
    <3> QED
      BY <1>18, <2>1, <3>3 DEF Effect
  <2>2. CASE st.op = "upload" /\ st.obj = PreloaderObj
    <3> SUFFICES ASSUME stage = "brom" PROVE Intact(PreloaderObj)'
      BY <1>6, <2>2 DEF Effect
    <3>1. st = Stp("upload", PreloaderObj)
      <4>1. st \in Steps
        BY <1>1, DoneFits
      <4> QED
        BY <2>2, <4>1 DEF Steps, Stp
    <3>2. o = PreloaderObj
      BY <1>10, <3>1
    <3>3. Intact(o) /\ InSpace(o)
      BY <2>0, <2>2, <3>2, FitAssumption DEF Effect, InSpace, PreloaderObj, Addr, Length
    <3> QED
      BY <1>16, <3>2, <3>3
  <2>4. CASE st.op # "upload"
    BY <1>1, <1>6, <1>7, <2>0, <2>4, OtherEffects
  <2> QED
    BY <2>1, <2>2, <2>4
<1> QED
  BY <1>5, <1>6, <1>12, <1>13, <1>14, <1>15, <1>19, HeavyMem

(* The step that the jump belongs to, and what was done before it.         *)
LEMMA JumpStep ==
  ASSUME SlotsInv, StageInv, NEW m, SentJump(m)
  PROVE  \E st, P :
           /\ st.op = "jump" /\ m.arg = JumpArg(st.obj) /\ Fit(cfg, st, P)
           /\ P \subseteq Done /\ Done \subseteq P \cup {st}
<1>1. PICK j \in {ip - 1, ip} \cap (1..Len(Script(cfg))) :
        /\ Script(cfg)[j].op = "jump" /\ m.arg = JumpArg(Script(cfg)[j].obj)
  BY DEF SentJump
<1> DEFINE st == Script(cfg)[j]
           P == Past(cfg, j - 1)
<1>2. /\ cfg \in Configs /\ j \in 1..Len(Script(cfg)) /\ Len(Script(cfg)) \in Nat
      /\ ip \in 1..(Len(Script(cfg)) + 1)
  BY <1>1, LabelFacts DEF SlotsInv, StageInv
<1>3. Fit(cfg, st, P)
  BY <1>2, ScriptSound DEF Sound
<1>4. CASE j = ip
  BY <1>1, <1>3, <1>4 DEF Done
<1>5. CASE j = ip - 1
  <2>1. j - 1 \in Nat /\ (j - 1) + 1 = j
    BY <1>2
  <2>2. Past(cfg, (j - 1) + 1) = P \cup {Script(cfg)[(j - 1) + 1]}
    BY <1>2, <2>1, PastGrows
  <2>3. Done = P \cup {st}
    BY <1>5, <2>1, <2>2 DEF Done
  <2> QED
    BY <1>1, <1>3, <2>3
<1> QED
  BY <1>4, <1>5

(* Control leaves: for the preloader, or for the user's image.             *)
LEMMA JumpLeavesMem ==
  ASSUME NEW m, NEW d, Reads(m, d), SentJump(m), OnJumpLeaves
  PROVE  MemInv'
<1>1. /\ IInv /\ MemInv /\ Tame /\ phase = "serving" /\ PayloadStep /\ UNCHANGED host
      /\ SlotsInv /\ HostInv /\ StageInv /\ Head(toDev) = m /\ toDev' = <<>>
  BY DEF Reads, IInv, MemInv
<1>2. /\ entry' = m.arg /\ UNCHANGED <<stage, mem, params, base, areas, lkParams>>
      /\ phase' = IF mem[m.arg.addr] = Byte(PreloaderObj, 0) THEN "preloader" ELSE "booted"
  BY <1>1 DEF OnJumpLeaves, Arg
<1>3. /\ UNCHANGED <<cfg, hstat, ip, off, waiting, place, hparams>>
      /\ Done' = Done /\ Here' = Here /\ Lbl' = Lbl
  BY <1>1, HostSame
<1>4. PICK st, P : /\ st.op = "jump" /\ m.arg = JumpArg(st.obj) /\ Fit(cfg, st, P)
                   /\ P \subseteq Done /\ Done \subseteq P \cup {st}
  BY <1>1, JumpStep
<1>5. \A x \in Done : Effect(x)
  BY <1>1 DEF MemInv, EffectInv
<1>6. /\ \A x : Effect(x)' = Effect(x)
      /\ \A o : Intact(o)' = Intact(o)
  BY <1>1, <1>2, <1>3, EffectsStay
<1>7. hstat = "running" => /\ Here.op = "jump" \/ Lbl.at = "gone"
                           /\ Here.op \in {"jump", "open_port"}
  BY <1>1, AfterJump
<1>8. CASE st.obj = PreloaderObj
  <2>1. Stp("upload", PreloaderObj) \in Done /\ stage = "brom"
    <3>1. Stp("upload", PreloaderObj) \in P /\ Stp("payload_pl", NoObj) \notin P
      BY <1>4, <1>8 DEF Fit
    <3>2. st # Stp("payload_pl", NoObj)
      BY <1>4 DEF Stp
    <3> QED
      BY <1>1, <1>4, <3>1, <3>2 DEF StageInv
  <2>2. Intact(PreloaderObj)
    <3>1. Stp("upload", PreloaderObj).op = "upload" /\ Stp("upload", PreloaderObj).obj = PreloaderObj
      BY DEF Stp
    <3> QED
      BY <1>5, <2>1, <3>1 DEF Effect
  <2>3. mem[PlAddr] = Byte(PreloaderObj, 0)
    <3>1. /\ Addr(PreloaderObj) = PlAddr /\ Length(PreloaderObj) = PlLen
          /\ PreloaderObj[1] = "preloader" /\ PlAddr + 0 = PlAddr /\ 0 \in 0..(PlLen - 1)
      BY LayoutAssumption, U32MaxAssumption DEF PreloaderObj, Addr, Length, U32
    <3> QED
      BY <2>2, <3>1 DEF Intact
  <2>4. m.arg.addr = PlAddr
    BY <1>4, <1>8 DEF JumpArg, PreloaderObj, Addr
  <2>5. phase' = "preloader"
    BY <1>2, <2>3, <2>4
  <2>6. AreaInv' /\ CopyInv' /\ StageInv' /\ Tame' = Tame
    BY <1>1, <2>5, LoopKeeps
  <2>7. HoldInv' /\ PendInv' /\ GoneBoot'
    BY <1>1, <2>5 DEF HoldInv, Alive, Started, PendInv, GoneBoot
  <2>8. EffectInv' /\ GonePreloader'
    BY <1>3, <1>5, <1>6, <2>2 DEF EffectInv, GonePreloader
  <2>9. ProgressInv'
    BY <1>3, <1>7 DEF ProgressInv
  <2>10. LkInv'
    <3>1. LkPtrs' = LkPtrs /\ LkInv
      BY <1>1, <1>3, PlacesStay DEF MemInv
    <3> QED
      BY <1>2, <1>3, <2>6, <3>1 DEF LkInv
  <2> QED
    BY <2>6, <2>7, <2>8, <2>9, <2>10 DEF MemInv
<1>9. CASE st.obj # PreloaderObj
  <2>1. /\ st.obj[1] # "preloader" /\ Stp("payload_pl", NoObj) \in P
        /\ Stp("main", NoObj) \in P
        /\ UsageOK(cfg) => \A o \in Objects(cfg) : Stp("upload", o) \in P
        /\ cfg.mode = "LK" =>
             /\ st.obj = LkObj
             /\ Stp("set_lk", NoObj) \in P /\ Stp("hook", NoObj) \in P
    BY <1>4, <1>9 DEF Fit
  <2>2. /\ stage = "pl" /\ \A o \in Objects(cfg) : Stp("upload", o) \in Done
        /\ cfg.mode = "LK" => Stp("set_lk", NoObj) \in Done /\ Stp("hook", NoObj) \in Done
    BY <1>1, <1>4, <2>1 DEF StageInv
  <2>3. phase' \in {"preloader", "booted"}
    BY <1>2
  <2>4. AreaInv' /\ CopyInv' /\ StageInv' /\ Tame' = Tame
    BY <1>1, <2>2, LoopKeeps
  <2>5. HoldInv'
    <3>1. KeepsClear' = KeepsClear
      BY <1>1, <1>2, <1>3, AreasStay
    <3> QED
      BY <1>1, <1>2, <1>3, <2>3, <2>4, <3>1 DEF MemInv, HoldInv, Alive, Started, Holds
  <2>6. PendInv' /\ GonePreloader'
    BY <1>1, <1>2, <2>2 DEF PendInv, GonePreloader
  <2>7. EffectInv'
    BY <1>3, <1>5, <1>6 DEF EffectInv
  <2>8. ProgressInv'
    BY <1>3, <1>7 DEF ProgressInv
  <2>9. LkInv'
    <3>1. LkPtrs' = LkPtrs /\ LkInv
      BY <1>1, <1>3, PlacesStay DEF MemInv
    <3> QED
      BY <1>2, <1>3, <2>4, <3>1 DEF LkInv
  <2>10. GoneBoot'
    <3>1. cfg.lk => entry'.r0 = place["bootarg"] /\ entry'.r1 = BootargLen
      BY <1>2, <1>4, <2>1 DEF JumpArg
    <3>2. cfg.mode = "LK" => entry'.addr = LkAddr
      BY <1>2, <1>4, <2>1 DEF JumpArg, LkObj, Addr
    <3>3. Objects(cfg)' = Objects(cfg)
      BY <1>3 DEF Objects
    <3> QED
      BY <1>3, <1>7, <2>2, <3>1, <3>2, <3>3 DEF GoneBoot
  <2> QED
    BY <2>4, <2>5, <2>6, <2>7, <2>8, <2>9, <2>10 DEF MemInv
<1> QED
  BY <1>8, <1>9

(* A step of the device.                                                   *)
LEMMA LoopMem ==
  ASSUME IInv, MemInv, phase = "serving", PayloadStep, UNCHANGED host
  PROVE  MemInv'
<1>1. CASE ~ Tame
  BY <1>1, PromptLoopMem
<1>2. CASE Tame
  <2>1. PICK m, d :
          /\ Head(toDev) = m /\ Arm(Kind(m)) /\ toDev' = <<>>
          /\ Kind(m) = "Write" => toDev = <<m, d>>
          /\ Sent(m, d) \/ SentJump(m)
    BY <1>2, LoopReads
  <2>2. Reads(m, d)
    BY <1>2, <2>1, ArmByKind DEF Reads
  <2>3. CASE SentJump(m)
    <3>1. OnJumpLeaves \/ OnJumpReturns \/ OnJumpRefused
      BY <2>1, <2>3 DEF SentJump, Arm
    <3> QED
      BY <2>2, <2>3, <3>1, JumpLeavesMem, JumpStaysMem
  <2>4. CASE Sent(m, d)
    <3>1. Here.op \in {"set_pl", "set_lk", "hook", "reserve", "alloc", "upload"}
      BY <2>4 DEF Sent
    <3>2. CASE Here.op = "hook"
      BY <2>2, <2>4, <3>2, HookedMem, HookRefusedMem
    <3> QED
      BY <2>2, <2>4, <3>1, <3>2, SetParamsMem, BlacklistRangeMem, GetFreeRangeMem, WriteMem
  <2> QED
    BY <2>1, <2>3, <2>4
<1> QED
  BY <1>1, <1>2

LEMMA DeviceMem ==
  ASSUME IInv, MemInv, DeviceStep
  PROVE  MemInv'
<1>1. PayloadStep /\ UNCHANGED host
  BY DEF DeviceStep
<1>2. CASE phase = "serving"
  BY <1>1, <1>2, LoopMem
<1>3. CASE phase = "hello"
  BY <1>1, <1>3, Greets, GreetedMem
<1>4. CASE phase \in {"app", "stack", "main"}
  <2>1. Relocate \/ Settle \/ NoRelocation \/ TakeStack \/ TakeHeap \/ Hello
    BY <1>1, <1>4 DEF PayloadStep, Greeted, OnAck, OnRead, OnWrite, OnFlushCache, OnJumpLeaves,
      OnJumpReturns, OnJumpRefused, OnReset, OnHook, OnGetFreeRange, OnBlacklistRange,
      OnSetParams, OnError, Got
  <2> QED
    BY <1>1, <2>1, RelocateMem, SettleMem, NoRelocationMem, TakeAreaMem, HelloMem
<1> QED
  BY <1>1, <1>2, <1>3, <1>4, Elsewhere

-----------------------------------------------------------------------------
(* LK clears its .bss.                                                     *)

LEMMA LkStartsMem ==
  ASSUME IInv, MemInv, LkStarts
  PROVE  MemInv'
<1>1. /\ phase = "booted" /\ phase' = "lk" /\ UNCHANGED host
      /\ mem' = Store(mem, entry.addr + LkLen, LkBssLen, <<"lkbss", 0>>, 0)
      /\ UNCHANGED <<stage, params, base, areas, lkParams, entry, toDev, toHost>>
      /\ SlotsInv /\ HostInv /\ AreaInv /\ StageInv
  BY DEF LkStarts, wire, IInv, MemInv
<1>2. /\ UNCHANGED <<cfg, hstat, ip, off, waiting, place, hparams>>
      /\ Done' = Done /\ Here' = Here /\ Lbl' = Lbl /\ CopyInv'
  BY <1>1, HostSame DEF MemInv
<1>3. /\ Tame' = Tame /\ OwnRanges' = OwnRanges /\ KeepsClear' = KeepsClear
      /\ BssClear' = BssClear /\ WellPlaced' = WellPlaced
  BY <1>1, <1>2, AreasStay, FixedStay DEF Tame
<1>4. AreaInv'
  BY <1>1, <1>2, <1>3 DEF AreaInv, Covered, Listed, IsListed, Bss
<1>5. StageInv'
  BY <1>1, <1>2 DEF StageInv
<1>6. PendInv'
  <2>1. /\ \A m, d : Sent(m, d)' = Sent(m, d)
        /\ \A m : SentJump(m)' = SentJump(m)
    BY <1>2, SentStays
  <2>2. /\ Carries0' = Carries0
        /\ \A m, d : Carries1(m)' = Carries1(m) /\ Carries2(m, d)' = Carries2(m, d)
    BY <1>1 DEF Carries0, Carries1, Carries2
  <2> QED
    BY <1>1, <1>3, <2>1, <2>2 DEF MemInv, PendInv
<1>7. ProgressInv'
  <2>1. Tame /\ hstat = "running" => Here.op \in {"jump", "open_port"}
    <3>1. Tame /\ hstat = "running" => Here.op = "jump" \/ Lbl.at = "gone"
      BY <1>1 DEF MemInv, GoneBoot
    <3>2. hstat = "running" => Placed(cfg, Here, Lbl.at, Then.at)
      BY <1>1, Now
    <3> QED
      BY <3>1, <3>2 DEF Placed
  <2> QED
    BY <1>2, <1>3, <2>1 DEF ProgressInv
<1>8. LkInv'
  <2>1. LkPtrs' = LkPtrs /\ LkInv
    BY <1>2, PlacesStay DEF MemInv
  <2> QED
    BY <1>1, <1>2, <1>3, <2>1 DEF LkInv
<1>9. GoneBoot' /\ GonePreloader'
  BY <1>1, <1>2, <1>3 DEF MemInv, GoneBoot, GonePreloader, Objects
<1>10. ASSUME Tame, cfg.mode = "LK"
       PROVE  /\ cfg.lk /\ Settling(LkObj) /\ \A st \in Done : Effect(st)
              /\ mem' = Store(mem, LkAddr + LkLen, LkBssLen, <<"lkbss", 0>>, 0)
  <2>1. entry.addr = LkAddr /\ Stp("set_lk", NoObj) \in Done
    BY <1>1, <1>10 DEF MemInv, GoneBoot
  <2>2. Stp("main", NoObj) \in Done
    <3>1. PICK P \in SUBSET Done : Fit(cfg, Stp("set_lk", NoObj), P)
      BY <1>1, <2>1, DoneFits
    <3>2. Stp("set_lk", NoObj).op = "set_lk"
      BY DEF Stp
    <3> QED
      BY <3>1, <3>2 DEF Fit
  <2>3. cfg.lk /\ Settling(LkObj)
    BY <1>1, <1>10, <2>2, LkIsFixed
  <2>4. \A st \in Done : Effect(st)
    BY <1>1, <1>10 DEF MemInv, EffectInv
  <2> QED
    BY <1>1, <2>1, <2>3, <2>4
<1>11. /\ LkAddr + LkLen \in Int /\ LkBssLen \in Int
       /\ Range(LkAddr + LkLen, LkBssLen) = Bss
  BY LkPlace, LayoutAssumption DEF Range, Bss
<1>12. HoldInv'
  <2> SUFFICES ASSUME Tame, cfg.mode = "LK", KeepsClear, BssClear PROVE HoldInv'
    BY <1>1, <1>2, <1>3 DEF HoldInv, Alive, Started
  <2>1. Held(mem)
    BY <1>1 DEF MemInv, HoldInv, Alive, Started, Held
  <2>2. \A r \in OwnRanges : ~ Overlap(Range(LkAddr + LkLen, LkBssLen), r)
    BY <1>10, <1>11 DEF BssClear
  <2>3. Held(mem')
    BY <1>1, <1>10, <1>11, <2>1, <2>2, StoreClear
  <2> QED
    BY <1>1, <2>3 DEF HoldInv, Held
<1>13. ASSUME Tame, cfg.mode = "LK", NEW st \in Done PROVE Effect(st)'
  <2>0. Effect(st) /\ cfg.lk /\ Settling(LkObj)
    BY <1>10, <1>13
  <2>1. CASE st.op = "upload" /\ st.obj # PreloaderObj
    <3> SUFFICES ASSUME WellPlaced PROVE Intact(st.obj)'
      BY <1>3, <2>1 DEF Effect
    <3>1. Settling(st.obj) /\ Intact(st.obj)
      BY <1>1, <2>0, <2>1, UploadSettled DEF Effect
    <3>2. /\ Addr(st.obj) \in U32 /\ Length(st.obj) \in Nat /\ InSpace(st.obj)
          /\ st.obj \in Chosen => ClearOf(st.obj)
      BY <1>1, <1>10, <1>13, <3>1, SettledPlace
    <3>3. ~ Overlap(Loc(st.obj), Bss)
      BY <2>0, <3>1, <3>2 DEF WellPlaced, ClearOf, Settling
    <3>4. ~ Overlap(Range(LkAddr + LkLen, LkBssLen), Loc(st.obj))
      BY <1>11, <3>3, OverlapSymmetric
    <3> QED
      BY <1>2, <1>10, <1>11, <1>13, <3>1, <3>2, <3>4, IntactMissed
  <2>2. CASE st.op = "upload" /\ st.obj = PreloaderObj
    BY <1>1, <2>2 DEF Effect, StageInv
  <2>3. CASE st.op = "hook"
    <3> SUFFICES ASSUME WellPlaced, NEW a \in HookRange
                 PROVE  mem'[a] = <<"hook", 0, a - (LkAddr + HookOff)>>
      BY <1>3, <2>3 DEF Effect, Hooked, HookRange
    <3>1. mem[a] = <<"hook", 0, a - (LkAddr + HookOff)>>
      BY <2>0, <2>3 DEF Effect, Hooked
    <3>2. LkAddr + LkLen <= U32Max + 1
      <4>1. InSpace(LkObj)
        BY <1>1, <1>10, <1>13, <2>0, SettledPlace
      <4> QED
        BY <4>1, LkPlace DEF InSpace
    <3>3. a \in U32 /\ ~ (LkAddr + LkLen <= a /\ a < LkAddr + LkLen + LkBssLen)
      BY <3>2, LkPlace, U32MaxAssumption DEF HookRange, U32
    <3>4. mem'[a] = mem[a]
      BY <1>10, <1>11, <1>13, <3>3, Stored
    <3> QED
      BY <3>1, <3>4
  <2>4. CASE st.op # "upload" /\ st.op # "hook"
    BY <1>1, <1>2, <2>0, <2>4, OtherEffects
  <2> QED
    BY <2>1, <2>2, <2>3, <2>4
<1>14. EffectInv'
  BY <1>1, <1>2, <1>3, <1>13 DEF EffectInv
<1> QED
  BY <1>2, <1>4, <1>5, <1>6, <1>7, <1>8, <1>9, <1>12, <1>14 DEF MemInv

-----------------------------------------------------------------------------
(* Every boot.                                                             *)

LEMMA InitMem == Init => MemInv
<1> SUFFICES ASSUME Init PROVE MemInv
  OBVIOUS
<1>1. /\ cfg \in Configs /\ hstat = "running" /\ ip = 1 /\ off = 0 /\ waiting = FALSE
      /\ place = [bootarg |-> 0, bootimg |-> 0]
      /\ phase = cfg.dev /\ stage = "brom" /\ lkParams = <<>>
      /\ toDev = <<>> /\ toHost = <<>>
  BY DEF Init, HostInit, DeviceInit
<1>2. phase \in {"rom", "preloader"}
  BY <1>1, ConfigsAssumption
<1>3. Done = {}
  BY <1>1 DEF Done, Past
<1>4. Len(Script(cfg)) \in Nat /\ Len(Script(cfg)) >= 1
  BY <1>1, LabelFacts
<1>5. AreaInv /\ HoldInv /\ LkInv /\ GoneBoot /\ PendInv
  BY <1>1, <1>2 DEF AreaInv, HoldInv, Alive, Started, LkInv, GoneBoot, PendInv
<1>6. CopyInv /\ EffectInv
  BY <1>3 DEF CopyInv, EffectInv
<1>7. StageInv
  <2>1. ip \in 1..(Len(Script(cfg)) + 1) /\ ip <= Len(Script(cfg))
    BY <1>1, <1>4
  <2>2. place \in [{"bootarg", "bootimg"} -> Int]
    BY <1>1
  <2> QED
    BY <1>1, <1>2, <1>3, <2>1, <2>2 DEF StageInv
<1>8. ProgressInv
  BY <1>1, <1>7, InitIInv, ProgressAtRest
<1>9. GonePreloader
  BY <1>1 DEF GonePreloader
<1> QED
  BY <1>5, <1>6, <1>7, <1>8, <1>9 DEF MemInv

LEMMA UnchangedMem ==
  ASSUME IInv, MemInv, UNCHANGED vars
  PROVE  MemInv'
<1>1. /\ UNCHANGED <<host, dev>> /\ UNCHANGED <<toDev, toHost>> /\ SlotsInv
      /\ UNCHANGED <<phase, stage, mem, params, base, areas, lkParams, entry>>
  BY DEF vars, wire, dev, IInv
<1>2. /\ UNCHANGED <<cfg, hstat, ip, off, waiting, place, hparams>>
      /\ Done' = Done /\ Here' = Here /\ Lbl' = Lbl /\ CopyInv'
  BY <1>1, HostSame DEF MemInv
<1>3. AreaInv' /\ HoldInv' /\ GonePreloader' /\ Tame' = Tame
  BY <1>1, <1>2, DeviceStays
<1>4. PendInv'
  BY <1>1, <1>2, WireStays
<1>5. StageInv'
  BY <1>1, <1>2 DEF MemInv, StageInv
<1>6. /\ \A st : Effect(st)' = Effect(st)
      /\ \A o, n : Upto(o, n)' = Upto(o, n)
      /\ \A o : Listed(Reserved(o))' = Listed(Reserved(o))
      /\ Hooked' = Hooked /\ WellPlaced' = WellPlaced
  BY <1>1, <1>2, EffectsStay
<1>7. EffectInv'
  BY <1>1, <1>2, <1>3, <1>6 DEF MemInv, EffectInv
<1>8. ProgressInv'
  <2>1. \A o : Length(o)' = Length(o) /\ InSpace(o)' = InSpace(o)
    BY <1>2, PlacesStay
  <2> QED
    BY <1>1, <1>2, <1>3, <1>6, <2>1 DEF MemInv, ProgressInv, ChunkLen
<1>9. LkInv'
  <2>1. LkPtrs' = LkPtrs
    BY <1>2, PlacesStay
  <2> QED
    BY <1>1, <1>2, <1>3, <2>1 DEF MemInv, LkInv
<1>10. GoneBoot'
  BY <1>1, <1>2, <1>3 DEF MemInv, GoneBoot, Objects
<1> QED
  BY <1>2, <1>3, <1>4, <1>5, <1>7, <1>8, <1>9, <1>10 DEF MemInv

LEMMA NextMem == IInv /\ MemInv /\ [Next]_vars => MemInv'
<1> SUFFICES ASSUME IInv, MemInv, [Next]_vars PROVE MemInv'
  OBVIOUS
<1>1. IInv'
  BY NextIInv
<1>2. CASE HostStep \/ SendBromPayload \/ SendPlPayload \/ OpenPort
  BY <1>1, <1>2, HostMem
<1>3. CASE DeviceStep
  BY <1>3, DeviceMem
<1>4. CASE LkStarts
  BY <1>4, LkStartsMem
<1>5. CASE UNCHANGED vars
  BY <1>5, UnchangedMem
<1> QED
  BY <1>2, <1>3, <1>4, <1>5 DEF Next, Terminated

(* Throughout every boot the payload's areas are reserved and what the     *)
(* steps of the host have left on the device is still there: the ranges    *)
(* reserve and blacklist_range have listed, the bytes upload has written,  *)
(* the pointers of set_params and the hook, whatever the order of the      *)
(* host's timeouts and the payload's answers.                              *)
THEOREM MemoryInvariant == Spec => [](IInv /\ MemInv)
<1>1. Init => IInv /\ MemInv
  BY InitIInv, InitMem
<1>2. (IInv /\ MemInv) /\ [Next]_vars => (IInv /\ MemInv)'
  BY NextIInv, NextMem
<1> QED
  BY <1>1, <1>2, PTL DEF Spec

(* As long as the inputs, LK and the preloader go to addresses that are    *)
(* clear of the places app and main have taken, the payload that serves is *)
(* the image that was sent, and its stack and its heap are its own: no     *)
(* chunk of an upload, no range the device has handed out for the boot     *)
(* argument or boot.img, and no hook touches them.                         *)
THEOREM PayloadIntactCorrect == Spec => [](KeepsClear => PayloadIntact)
<1>1. IInv /\ MemInv => (KeepsClear => PayloadIntact)
  <2> SUFFICES ASSUME MemInv, KeepsClear, phase = "serving", cfg.mode # "REPL"
               PROVE  /\ Holds(mem, base, ImageFile, ImageObj)
                      /\ Holds(mem, areas.stack.start, StackSize, <<"stack", 0>>)
                      /\ areas.heap # NoRange =>
                           Holds(mem, areas.heap.start, HeapSize, <<"heap", 0>>)
    BY DEF PayloadIntact
  <2>1. areas.stack.start \in U32
    BY DEF MemInv, AreaInv
  <2>2. areas.stack # NoRange
    <3>1. areas.stack.start # -1
      BY <2>1, U32MaxAssumption DEF U32
    <3> QED
      BY <3>1 DEF NoRange
  <2> QED
    BY <2>2 DEF MemInv, HoldInv, Alive, Started, Tame
<1> QED
  BY <1>1, MemoryInvariant, PTL

(* Every object that has been uploaded is in memory.                       *)
LEMMA UploadedIntact ==
  ASSUME IInv, MemInv, WellPlaced, Tame, phase = "lk" => cfg.mode = "LK",
         NEW o \in Objects(cfg), Stp("upload", o) \in Done
  PROVE  Intact(o)
<1>1. Effect(Stp("upload", o)) /\ SlotsInv
  BY DEF MemInv, EffectInv, IInv
<1>2. o # PreloaderObj
  BY <1>1, ObjectsApart
<1>3. Stp("upload", o).op = "upload" /\ Stp("upload", o).obj = o
  BY DEF Stp
<1> QED
  BY <1>1, <1>2, <1>3 DEF Effect

(* As long as the inputs and LK are clear of each other and of LK's .bss   *)
(* and end inside the address space, everything upload has written is in   *)
(* memory, byte for byte, when control leaves for the user's image or      *)
(* BootROM mode reports success; so is the preloader when run_brom has     *)
(* started it; and r0 and r1 name the boot argument.  No chunk goes        *)
(* astray, and no range that get_free_range hands out is one in use.       *)
THEOREM BootIntactCorrect == Spec => [](WellPlaced => BootIntact)
<1>1. IInv /\ MemInv => (WellPlaced => BootIntact)
  <2> SUFFICES ASSUME IInv, MemInv, WellPlaced PROVE BootIntact
    OBVIOUS
  <2>1. ASSUME phase = "booted", cfg.mode # "REPL"
        PROVE  /\ \A o \in Objects(cfg) : Intact(o)
               /\ cfg.lk => entry.r0 = place["bootarg"] /\ entry.r1 = BootargLen
    <3>1. Tame
      BY <2>1 DEF Tame
    <3>2. /\ \A o \in Objects(cfg) : Stp("upload", o) \in Done
          /\ cfg.lk => entry.r0 = place["bootarg"] /\ entry.r1 = BootargLen
      BY <2>1, <3>1 DEF MemInv, GoneBoot
    <3> QED
      BY <2>1, <3>1, <3>2, UploadedIntact
  <2>2. ASSUME hstat = "ok", stage = "brom"
        PROVE  \A o \in Objects(cfg) : Intact(o)
    <3>1. Tame /\ phase # "lk" /\ StageInv /\ SlotsInv
      BY <2>2 DEF Tame, MemInv, StageInv, IInv
    <3> DEFINE n == Len(Script(cfg))
    <3>2. cfg \in Configs /\ n \in Nat /\ ip = n + 1
      BY <2>2, <3>1, LabelFacts DEF SlotsInv, StageInv
    <3> HIDE DEF n
    <3>3. ip - 1 = n
      BY <3>2
    <3>4. Done = Past(cfg, n)
      BY <3>3 DEF Done
    <3>5. /\ Stp("main", NoObj) \in Done
          /\ Stp("payload_pl", NoObj) \notin Done /\ UsageOK(cfg) =>
               \A o \in Objects(cfg) : Stp("upload", o) \in Done
      BY <3>2, <3>4, ScriptSound DEF Sound, n
    <3>6. \A o \in Objects(cfg) : Stp("upload", o) \in Done
      BY <2>2, <3>1, <3>5 DEF StageInv
    <3> QED
      BY <3>1, <3>6, UploadedIntact
  <2>3. phase = "preloader" /\ cfg.dev = "rom" /\ stage = "brom" => Intact(PreloaderObj)
    BY DEF MemInv, GonePreloader
  <2> QED
    BY <2>1, <2>2, <2>3 DEF BootIntact
<1> QED
  BY <1>1, MemoryInvariant, PTL

(* As long as the inputs, LK and its .bss are clear of each other and of   *)
(* the places the payload has taken, LK, when it has cleared its .bss,     *)
(* still has its boot argument and boot.img (where bootimg_scratch_addr    *)
(* points, and there is one), the hook and the payload and its heap, which *)
(* the hook runs on.                                                       *)
THEOREM LkFindsItsBootCorrect ==
  Spec => [](WellPlaced /\ KeepsClear /\ BssClear => LkFindsItsBoot)
<1>1. IInv /\ MemInv => (WellPlaced /\ KeepsClear /\ BssClear => LkFindsItsBoot)
  <2> SUFFICES ASSUME IInv, MemInv, WellPlaced, KeepsClear, BssClear,
                      phase = "lk", cfg.mode = "LK"
               PROVE  /\ Intact(ArgObj)
                      /\ \A o \in Objects(cfg) : Intact(o)
                      /\ \E o \in Objects(cfg) : Addr(o) = lkParams[3]
                      /\ Hooked
                      /\ Holds(mem, base, ImageFile, ImageObj)
                      /\ Holds(mem, areas.heap.start, HeapSize, <<"heap", 0>>)
    BY DEF LkFindsItsBoot, ArgObj, Hooked
  <2>1. Tame /\ SlotsInv /\ StageInv
    BY DEF Tame, IInv, MemInv
  <2>2. /\ \A o \in Objects(cfg) : Stp("upload", o) \in Done
        /\ Stp("set_lk", NoObj) \in Done /\ Stp("hook", NoObj) \in Done
    BY <2>1 DEF MemInv, GoneBoot
  <2>3. Stp("main", NoObj) \in Done
    <3>1. PICK P \in SUBSET Done : Fit(cfg, Stp("set_lk", NoObj), P)
      BY <2>1, <2>2, DoneFits
    <3>2. Stp("set_lk", NoObj).op = "set_lk"
      BY DEF Stp
    <3> QED
      BY <3>1, <3>2 DEF Fit
  <2>4. UsageOK(cfg) /\ cfg.lk
    BY <2>1, <2>3, LkIsFixed DEF StageInv
  <2>5. \A o \in Objects(cfg) : Intact(o)
    BY <2>1, <2>2, UploadedIntact
  <2>6. Intact(ArgObj)
    BY <2>4, <2>5 DEF Objects, ArgObj
  <2>7. lkParams = LkPtrs /\ Hooked
    <3>1. Effect(Stp("set_lk", NoObj)) /\ Effect(Stp("hook", NoObj))
      BY <2>1, <2>2 DEF MemInv, EffectInv
    <3>2. Stp("set_lk", NoObj).op = "set_lk" /\ Stp("hook", NoObj).op = "hook"
      BY DEF Stp
    <3> QED
      BY <3>1, <3>2 DEF Effect
  <2>8. \E o \in Objects(cfg) : Addr(o) = lkParams[3]
    <3>1. lkParams[3] = BootimgAddr
      BY <2>7 DEF LkPtrs
    <3>2. CASE cfg.kernel > 0
      <4>1. ImgObj \in Objects(cfg) /\ Addr(ImgObj) = place["bootimg"]
        BY <3>2 DEF Objects, ImgObj, Addr
      <4> QED
        BY <3>1, <3>2, <4>1 DEF BootimgAddr
    <3>3. CASE ~ (cfg.kernel > 0)
      <4>1. cfg.upload # <<>> /\ cfg.upload \in Seq([addr : U32 \ {0}, len : Nat])
        BY <2>1, <2>4, <3>3, ConfigsAssumption DEF UsageOK, SlotsInv
      <4>2. 1 \in 1..Len(cfg.upload)
        BY <4>1
      <4>3. <<"up", 1>> \in Objects(cfg)
        BY <4>2 DEF Objects
      <4>4. Addr(<<"up", 1>>) = cfg.upload[1].addr
        BY DEF Addr
      <4> QED
        BY <3>1, <3>3, <4>3, <4>4 DEF BootimgAddr
    <3> QED
      BY <3>2, <3>3
  <2>9. areas.heap # NoRange
    BY <2>1 DEF MemInv, AreaInv, StageInv
  <2>10. /\ Holds(mem, base, ImageFile, ImageObj)
         /\ Holds(mem, areas.heap.start, HeapSize, <<"heap", 0>>)
    BY <2>1, <2>9 DEF MemInv, HoldInv, Alive
  <2> QED
    BY <2>5, <2>6, <2>7, <2>8, <2>10
<1> QED
  BY <1>1, MemoryInvariant, PTL

=============================================================================

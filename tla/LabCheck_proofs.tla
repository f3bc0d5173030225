-------------------------- MODULE LabCheck_proofs --------------------------
(***************************************************************************)
(* The scripts of ci/ and the lab, for any files, any networks, any faults *)
(* and any deadline.                                                       *)
(***************************************************************************)
EXTENDS LabCheck, Selection_proofs, FiniteSetTheorems, TLAPS

-----------------------------------------------------------------------------
(* rename-ifaces: what it does to the interfaces, one line after another.  *)
Mapping(f, start, wants, n) ==
  f = [k \in 0 .. n |-> IF k = 0 THEN start ELSE Mapped(f[k - 1], wants[k])]

LEMMA MappingSteps ==
  ASSUME NEW f, NEW start, NEW wants, NEW n \in Nat, Mapping(f, start, wants, n)
  PROVE  f[0] = start /\ \A k \in 1 .. n : f[k] = Mapped(f[k - 1], wants[k])
<1> DEFINE Step(k) == IF k = 0 THEN start ELSE Mapped(f[k - 1], wants[k])
           h == [k \in 0 .. n |-> Step(k)]
<1>1. f = h
  BY DEF Mapping
<1>2. \A k \in 0 .. n : h[k] = Step(k)
  BY Zenon
<1>3. 0 \in 0 .. n /\ \A k \in 1 .. n : k \in 0 .. n /\ k # 0
  OBVIOUS
<1> HIDE DEF h
<1>4. \A k \in 0 .. n : f[k] = Step(k)
  BY <1>1, <1>2
<1> QED
  BY <1>3, <1>4, Zenon

LEMMA MappingExists ==
  ASSUME NEW start, NEW wants, NEW n \in Nat
  PROVE  \E f : Mapping(f, start, wants, n)
<1> DEFINE G == {k \in Nat : \E f : Mapping(f, start, wants, k)}
<1>1. 0 \in G
  <2> DEFINE f == [k \in 0 .. 0 |-> start]
  <2>1. Mapping(f, start, wants, 0)
    BY DEF Mapping
  <2> QED
    BY <2>1
<1>2. ASSUME NEW k \in Nat, k \in G PROVE k + 1 \in G
  <2>1. PICK f : Mapping(f, start, wants, k)
    BY <1>2
  <2> DEFINE g == [j \in 0 .. k + 1 |-> IF j <= k THEN f[j] ELSE Mapped(f[k], wants[j])]
  <2>2. /\ \A j \in 0 .. k : g[j] = f[j]
        /\ g[k + 1] = Mapped(f[k], wants[k + 1])
    OBVIOUS
  <2>3. ASSUME NEW j \in 0 .. k + 1
        PROVE  g[j] = IF j = 0 THEN start ELSE Mapped(g[j - 1], wants[j])
    <3> HIDE DEF g
    <3>1. CASE j <= k
      <4>1. f[j] = IF j = 0 THEN start ELSE Mapped(f[j - 1], wants[j])
        BY <2>1, <3>1, MappingSteps
      <4>2. g[j] = f[j] /\ (j # 0 => g[j - 1] = f[j - 1])
        BY <2>2, <3>1
      <4> QED
        BY <4>1, <4>2
    <3>2. CASE j = k + 1
      <4>1. k \in 0 .. k /\ j - 1 = k /\ j # 0
        BY <3>2
      <4>2. g[j - 1] = f[k]
        BY <2>2, <4>1
      <4> QED
        BY <2>2, <3>2, <4>1, <4>2
    <3> QED
      BY <3>1, <3>2
  <2>4. Mapping(g, start, wants, k + 1)
    BY <2>3 DEF Mapping
  <2> QED
    BY <2>4
<1> HIDE DEF G
<1>3. G = Nat
  BY <1>1, <1>2, Reach DEF G
<1> QED
  BY <1>3 DEF G

Began(links, fault) ==
  LET parked == IF fault = NoLinks THEN links ELSE Parked(links)
  IN  [links |-> parked, fault |-> fault, died |-> fault \in {l.name : l \in Range(parked)}]

(* The states of the script, one line of the configuration after the other. *)
Folding(f, conf, links, fault, n) ==
  /\ f[0] = Began(links, fault)
  /\ \A k \in 1 .. n : f[k] = Mapped(f[k - 1], ifaces_of(conf)[k])
  /\ rename_ifaces(conf, links, fault) = Leftover(f[n])

LEMMA RenameSteps ==
  ASSUME NEW conf, NEW links, NEW fault, NEW n \in Nat, n = Len(ifaces_of(conf))
  PROVE  \E f : Folding(f, conf, links, fault, n)
<1> DEFINE wants == ifaces_of(conf)
           start == Began(links, fault)
           f == CHOOSE g : Mapping(g, start, wants, n)
<1>1. Mapping(f, start, wants, n)
  BY MappingExists
<1>2. rename_ifaces(conf, links, fault) = Leftover(f[n])
  BY <1>1 DEF rename_ifaces, Mapping, Began
<1> HIDE DEF f, wants, start
<1>3. f[0] = start /\ \A k \in 1 .. n : f[k] = Mapped(f[k - 1], wants[k])
  BY <1>1, MappingSteps DEF wants
<1> QED
  BY <1>2, <1>3 DEF wants, start, Folding

(* An interface keeps its address, whatever name it is given.              *)
KeepsAddrs(links, new) == new = [k \in DOMAIN links |-> [name |-> new[k].name, addr |-> links[k].addr]]

Renaming(s, links) ==
  s = [links |-> s.links, fault |-> s.fault, died |-> s.died] /\ KeepsAddrs(links, s.links)

LEMMA DiedKeeps ==
  ASSUME NEW s, NEW links, Renaming(s, links)
  PROVE  Renaming([s EXCEPT !.died = TRUE], links)
<1> DEFINE a == s.links
           b == s.fault
           c == s.died
<1>1. s = [links |-> a, fault |-> b, died |-> c] /\ KeepsAddrs(links, a)
  BY DEF Renaming
<1> HIDE DEF a, b, c
<1>2. \A v : [s EXCEPT !.died = v] = [links |-> a, fault |-> b, died |-> v]
  BY <1>1
<1> QED
  BY <1>1, <1>2 DEF Renaming

LEMMA RenamedKeeps ==
  ASSUME NEW s, NEW links, NEW k, NEW name, Renaming(s, links)
  PROVE  Renaming(Renamed(s, k, name), links)
<1> DEFINE D == DOMAIN links
           old == s.links
           new == [old EXCEPT ![k].name = name]
<1>1. old = [j \in D |-> [name |-> old[j].name, addr |-> links[j].addr]]
  BY DEF Renaming, KeepsAddrs
<1>2. s = [links |-> old, fault |-> s.fault, died |-> s.died]
  BY DEF Renaming
<1>3. KeepsAddrs(links, new)
  <2> HIDE DEF old
  <2>1. DOMAIN old = D /\ \A j \in D : old[j] = [name |-> old[j].name, addr |-> links[j].addr]
    BY <1>1
  <2>2. DOMAIN new = D
    BY <2>1
  <2>3. \A j \in D : new[j] = [name |-> new[j].name, addr |-> links[j].addr]
    BY <2>1
  <2>4. new = [j \in D |-> new[j]]
    BY <2>2
  <2> QED
    BY <2>3, <2>4 DEF KeepsAddrs
<1>4. \/ Renamed(s, k, name) = [s EXCEPT !.died = TRUE]
      \/ Renamed(s, k, name) = [s EXCEPT !.links[k].name = name]
  BY DEF Renamed
<1>5. [s EXCEPT !.links[k].name = name] = [links |-> new, fault |-> s.fault, died |-> s.died]
  <2> DEFINE b == s.fault
             c == s.died
  <2>1. s = [links |-> old, fault |-> b, died |-> c]
    BY <1>2
  <2> HIDE DEF old, b, c
  <2>2. [s EXCEPT !.links[k].name = name] = [links |-> new, fault |-> b, died |-> c]
    BY <2>1
  <2> QED
    BY <2>2 DEF b, c
<1>6. CASE Renamed(s, k, name) = [s EXCEPT !.died = TRUE]
  BY <1>6, DiedKeeps
<1>7. CASE Renamed(s, k, name) = [s EXCEPT !.links[k].name = name]
  <2> HIDE DEF new
  <2>1. Renamed(s, k, name) = [links |-> new, fault |-> s.fault, died |-> s.died]
    BY <1>5, <1>7
  <2> QED
    BY <1>3, <2>1 DEF Renaming
<1> QED
  BY <1>4, <1>6, <1>7

LEMMA MappedKeeps ==
  ASSUME NEW s, NEW links, NEW want, Renaming(s, links)
  PROVE  Renaming(Mapped(s, want), links)
BY DiedKeeps, RenamedKeeps DEF Mapped

LEMMA LeftoverKeeps ==
  ASSUME NEW s, NEW links, Renaming(s, links)
  PROVE  Renaming(Leftover(s), links)
BY RenamedKeeps DEF Leftover

IsLinks(links) == links = [k \in DOMAIN links |-> [name |-> links[k].name, addr |-> links[k].addr]]

LEMMA BeganKeeps ==
  ASSUME NEW links, IsLinks(links), NEW fault
  PROVE  Renaming(Began(links, fault), links)
<1>1. KeepsAddrs(links, links)
  BY DEF IsLinks, KeepsAddrs
<1>2. KeepsAddrs(links, Parked(links))
  <2> DEFINE parked == Parked(links)
  <2>1. DOMAIN parked = DOMAIN links /\ parked = [k \in DOMAIN links |-> parked[k]]
    BY DEF Parked
  <2>2. ASSUME NEW k \in DOMAIN links
        PROVE  parked[k] = [name |-> parked[k].name, addr |-> links[k].addr]
    <3> DEFINE eths == {l.name[2] : l \in {l \in Range(links) : l.name[1] = "eth"}}
               tmp == Tmp(Cardinality({n \in eths : n < links[k].name[2]}))
    <3>1. links[k] = [name |-> links[k].name, addr |-> links[k].addr]
      BY DEF IsLinks
    <3>2. parked[k] \in {links[k], [links[k] EXCEPT !.name = tmp]}
      BY DEF Parked
    <3> HIDE DEF parked, tmp
    <3>3. [links[k] EXCEPT !.name = tmp] = [name |-> tmp, addr |-> links[k].addr]
      BY <3>1
    <3> QED
      BY <3>1, <3>2, <3>3
  <2> HIDE DEF parked
  <2>3. KeepsAddrs(links, parked)
    BY <2>1, <2>2 DEF KeepsAddrs
  <2> QED
    BY <2>3 DEF parked
<1> QED
  BY <1>1, <1>2 DEF Began, Renaming

LEMMA IfacesAreListed ==
  ASSUME NEW conf, conf \in Seq(Range(conf))
  PROVE  Len(ifaces_of(conf)) \in Nat
<1> DEFINE lines == [k \in DOMAIN conf |-> [iface |-> IfaceAbove(conf, k), line |-> conf[k]]]
           S == {l \in Range(lines) : l.line.kind = "address" /\ l.iface \notin {None, Lo}}
           addresses == Select(lines, S)
           n == Len(conf)
           Pair(k) == [iface |-> addresses[k].iface, addr |-> addresses[k].line.value]
<1>1. ifaces_of(conf) = [k \in DOMAIN addresses |-> Pair(k)]
  BY DEF ifaces_of
<1>2. n \in Nat /\ DOMAIN lines = 1 .. n
  OBVIOUS
<1>3. lines \in Seq(Range(lines))
  <2>1. lines = [k \in 1 .. n |-> lines[k]] /\ \A k \in 1 .. n : lines[k] \in Range(lines)
    BY <1>2 DEF Range
  <2> HIDE DEF lines
  <2> QED
    BY <1>2, <2>1
<1> HIDE DEF lines, S, addresses, Pair
<1>4. addresses \in Seq(Range(lines))
  BY <1>3, SelectIs DEF addresses
<1> DEFINE m == Len(addresses)
<1>5. m \in Nat /\ DOMAIN addresses = 1 .. m
  BY <1>4
<1> HIDE DEF m
<1> QED
  BY <1>1, <1>5

LEMMA RenameKeeps ==
  ASSUME NEW conf, conf \in Seq(Range(conf)), NEW links, IsLinks(links), NEW fault
  PROVE  Renaming(rename_ifaces(conf, links, fault), links)
<1> DEFINE n == Len(ifaces_of(conf))
<1>1. n \in Nat
  BY IfacesAreListed
<1>2. PICK f : Folding(f, conf, links, fault, n)
  BY <1>1, RenameSteps
<1> HIDE DEF n
<1> DEFINE G == {k \in Nat : k <= n => Renaming(f[k], links)}
<1>3. 0 \in G
  BY <1>2, BeganKeeps DEF Folding
<1>4. ASSUME NEW k \in Nat, k \in G PROVE k + 1 \in G
  <2> SUFFICES ASSUME k + 1 <= n PROVE Renaming(f[k + 1], links)
    OBVIOUS
  <2>1. Renaming(f[k], links)
    BY <1>1, <1>4
  <2>2. f[k + 1] = Mapped(f[k], ifaces_of(conf)[k + 1])
    BY <1>1, <1>2 DEF Folding
  <2> QED
    BY <2>1, <2>2, MappedKeeps
<1> HIDE DEF G
<1>5. G = Nat
  BY <1>3, <1>4, Reach DEF G
<1>6. Renaming(f[n], links)
  BY <1>1, <1>5 DEF G
<1> QED
  BY <1>2, <1>6, LeftoverKeeps DEF Folding

-----------------------------------------------------------------------------
(* rename-ifaces: where it leaves the addresses.                           *)
LEMMA FirstIs ==
  ASSUME NEW I \in SUBSET Nat, I # {}
  PROVE  Min(I) \in I
BY Least DEF Min

LEMMA LenIs ==
  ASSUME NEW C \in Nat, NEW seq, seq = [m \in 1 .. C |-> seq[m]]
  PROVE  Len(seq) = C
<1>1. seq \in Seq({seq[m] : m \in 1 .. C})
  OBVIOUS
<1> QED
  BY <1>1

LEMMA AddrFound ==
  ASSUME NEW C \in Nat, NEW links, links = [m \in 1 .. C |-> links[m]], NEW addr
  PROVE  LET k == iface_with_addr(links, addr)
         IN  \/ k = 0 /\ \A m \in 1 .. C : links[m].addr # addr
             \/ k \in 1 .. C /\ links[k].addr = addr
<1> DEFINE I == {i \in 1 .. C : links[i].addr = addr}
<1>1. Len(links) = C
  BY LenIs
<1>2. iface_with_addr(links, addr) = IF I # {} THEN Min(I) ELSE 0
  BY <1>1 DEF iface_with_addr, SelectInSeq
<1>3. I # {} => Min(I) \in I
  <2>1. I \in SUBSET Nat
    OBVIOUS
  <2> HIDE DEF I
  <2> QED
    BY <2>1, FirstIs
<1> QED
  BY <1>2, <1>3

LEMMA LeftoverIs ==
  ASSUME NEW C \in Nat, NEW s, s.links = [m \in 1 .. C |-> s.links[m]]
  PROVE  \/ /\ Leftover(s) = s
            /\ s.died \/ Taken(s.links, Eth(0)) \/ \A m \in 1 .. C : s.links[m].name[1] # "tmp"
         \/ /\ ~ s.died /\ ~ Taken(s.links, Eth(0))
            /\ \E k \in 1 .. C : /\ s.links[k].name[1] = "tmp"
                                /\ Leftover(s) = Renamed(s, k, Eth(0))
<1> DEFINE links == s.links
           I == {i \in 1 .. C : links[i].name[1] = "tmp"}
           k == IF I # {} THEN Min(I) ELSE 0
<1>1. Len(links) = C
  BY LenIs
<1>2. Leftover(s) = IF s.died \/ Taken(links, Eth(0)) \/ k = 0 THEN s ELSE Renamed(s, k, Eth(0))
  BY <1>1 DEF Leftover, SelectInSeq
<1>3. I # {} => Min(I) \in I
  <2>1. I \in SUBSET Nat
    OBVIOUS
  <2> HIDE DEF I
  <2> QED
    BY <2>1, FirstIs
<1>4. (k = 0 /\ I = {}) \/ k \in I
  BY <1>3
<1> HIDE DEF k
<1>5. CASE s.died \/ Taken(links, Eth(0)) \/ k = 0
  <2>1. Leftover(s) = s
    BY <1>2, <1>5
  <2>2. k = 0 => \A m \in 1 .. C : links[m].name[1] # "tmp"
    BY <1>4
  <2> HIDE DEF links
  <2>3. s.died \/ Taken(links, Eth(0)) \/ \A m \in 1 .. C : links[m].name[1] # "tmp"
    BY <1>5, <2>2
  <2> QED
    BY <2>1, <2>3, Zenon DEF links
<1>6. CASE ~ (s.died \/ Taken(links, Eth(0)) \/ k = 0)
  <2>1. k \in 1 .. C /\ links[k].name[1] = "tmp" /\ Leftover(s) = Renamed(s, k, Eth(0))
    BY <1>2, <1>4, <1>6
  <2> QED
    BY <1>6, <2>1
<1> QED
  BY <1>5, <1>6

(* Giving a name: it is refused where it is taken, and moves one link.     *)
Refused(s, t, name) == (Taken(s.links, name) \/ s.fault = name) /\ t.died /\ t.links = s.links

Moved(s, t, links, k, name) ==
  /\ ~ (Taken(s.links, name) \/ s.fault = name)
  /\ t.died = s.died /\ t.links[k].name = name
  /\ \A m \in DOMAIN links \ {k} : t.links[m] = s.links[m]

LEMMA RenamedIs ==
  ASSUME NEW s, NEW links, NEW k \in DOMAIN links, NEW name, Renaming(s, links)
  PROVE  /\ Renaming(Renamed(s, k, name), links)
         /\ Renamed(s, k, name).fault = s.fault
         /\ \/ Refused(s, Renamed(s, k, name), name)
            \/ Moved(s, Renamed(s, k, name), links, k, name)
<1> DEFINE old == s.links
           b == s.fault
           c == s.died
           new == [old EXCEPT ![k].name = name]
           t == Renamed(s, k, name)
<1>1. s = [links |-> old, fault |-> b, died |-> c]
  BY DEF Renaming
<1>2. /\ DOMAIN old = DOMAIN links
      /\ old[k] = [name |-> old[k].name, addr |-> links[k].addr]
  <2> HIDE DEF old
  <2>1. old = [j \in DOMAIN links |-> [name |-> old[j].name, addr |-> links[j].addr]]
    BY DEF Renaming, KeepsAddrs, old
  <2> QED
    BY <2>1
<1>3. Renaming(t, links)
  BY RenamedKeeps
<1>4. CASE Taken(old, name) \/ b = name
  <2>1. t = [s EXCEPT !.died = TRUE]
    BY <1>4 DEF Renamed
  <2> HIDE DEF old, b, c, t
  <2>2. \A v : [s EXCEPT !.died = v] = [links |-> old, fault |-> b, died |-> v]
    BY <1>1
  <2>3. t.links = old /\ t.fault = b /\ t.died
    BY <2>1, <2>2
  <2> QED
    BY <1>3, <1>4, <2>3 DEF Refused, old, b, t
<1>5. CASE ~ (Taken(old, name) \/ b = name)
  <2>1. t = [s EXCEPT !.links[k].name = name]
    BY <1>5 DEF Renamed
  <2> HIDE DEF old, b, c, t
  <2>2. [s EXCEPT !.links[k].name = name] = [links |-> new, fault |-> b, died |-> c]
    BY <1>1
  <2>3. new[k].name = name /\ \A m \in DOMAIN links \ {k} : new[m] = old[m]
    BY <1>2
  <2> HIDE DEF new
  <2>4. t.links = new /\ t.fault = b /\ t.died = c
    BY <2>1, <2>2
  <2> QED
    BY <1>3, <1>5, <2>3, <2>4 DEF Moved, old, b, c, t
<1> QED
  BY <1>4, <1>5

(* The links a container is started with: each of its addresses once.      *)
Ordered(links, C) ==
  /\ IsLinks(links) /\ DOMAIN links = 1 .. C
  /\ \A i, j \in 1 .. C : links[i].addr = links[j].addr => i = j

(* What the n lines of a configuration may want, as NamesLinks has it.     *)
Plain(wants, n) ==
  \A i, j \in 1 .. n :
    /\ wants[i].iface # None /\ wants[i].iface[1] # "tmp" /\ wants[i].iface # Eth(0)
    /\ wants[i].addr = wants[j].addr => wants[i].iface = wants[j].iface

(* The addresses of the first k lines are where they are wanted; a link    *)
(* that is not parked is where a line wanted it; and without a command     *)
(* that failed the script dies only of two addresses on one interface.     *)
Placed(s, links, wants, k) ==
  \A j \in 1 .. k, m \in DOMAIN links :
    links[m].addr = wants[j].addr => s.links[m].name = wants[j].iface

Named(s, links, wants, k) ==
  \A m \in DOMAIN links :
    \/ s.links[m].name[1] = "tmp"
    \/ \E j \in 1 .. k : wants[j].addr = links[m].addr /\ wants[j].iface = s.links[m].name

Clash(links, wants, n) ==
  \E i, j \in 1 .. n : \E l, m \in DOMAIN links :
    /\ wants[i].iface = wants[j].iface /\ wants[i].addr # wants[j].addr
    /\ wants[i].addr = links[l].addr /\ wants[j].addr = links[m].addr

Along(s, links, fault, wants, n, k) ==
  /\ Renaming(s, links) /\ s.fault = fault
  /\ ~ s.died => Placed(s, links, wants, k)
  /\ fault = None => Named(s, links, wants, k) /\ (s.died => Clash(links, wants, n))

(* What the script leaves: the management address alone, without a line,   *)
(* gets the name eth0.                                                     *)
Finished(t, links, wants, n, fault) ==
  /\ Renaming(t, links)
  /\ ~ t.died => Placed(t, links, wants, n)
  /\ fault = None /\ t.died => Clash(links, wants, n)
  /\ fault = None /\ ~ t.died =>
       \A m \in DOMAIN links :
         /\ \A j \in 1 .. n : wants[j].addr # links[m].addr
         /\ \A l \in DOMAIN links \ {m} : \E j \in 1 .. n : wants[j].addr = links[l].addr
         => t.links[m].name = Eth(0)

LEMMA MappedPlaces ==
  ASSUME NEW C \in Nat, NEW links, Ordered(links, C), NEW wants, NEW n \in Nat, Plain(wants, n),
         NEW fault, NEW k \in 0 .. n - 1, NEW s, Along(s, links, fault, wants, n, k)
  PROVE  Along(Mapped(s, wants[k + 1]), links, fault, wants, n, k + 1)
<1> DEFINE w == wants[k + 1]
           i == iface_with_addr(s.links, w.addr)
           t == Mapped(s, w)
<1>1. Renaming(s, links) /\ s.fault = fault /\ DOMAIN links = 1 .. C
  BY DEF Along, Ordered
<1>2. /\ s.links = [m \in 1 .. C |-> s.links[m]]
      /\ \A m \in 1 .. C : s.links[m].addr = links[m].addr
  <2> DEFINE old == s.links
  <2>1. old = [m \in 1 .. C |-> [name |-> old[m].name, addr |-> links[m].addr]]
    BY <1>1 DEF Renaming, KeepsAddrs
  <2> HIDE DEF old
  <2>2. old = [m \in 1 .. C |-> old[m]] /\ \A m \in 1 .. C : old[m].addr = links[m].addr
    BY <2>1
  <2> QED
    BY <2>2 DEF old
<1>3. \/ i = 0 /\ \A m \in 1 .. C : links[m].addr # w.addr
      \/ i \in 1 .. C /\ links[i].addr = w.addr
  BY <1>2, AddrFound
<1>4. t = IF s.died THEN s
          ELSE IF fault = NoAddrs THEN [s EXCEPT !.died = TRUE]
          ELSE IF i = 0 THEN s
          ELSE IF s.links[i].name = w.iface THEN s
          ELSE Renamed(s, i, w.iface)
  BY <1>1 DEF Mapped
<1>5. /\ \A m \in 1 .. C : links[m].addr = w.addr => m = i
      /\ k + 1 \in 1 .. n /\ 1 .. k \subseteq 1 .. k + 1 /\ 1 .. k \subseteq 1 .. n
      /\ \A j \in 1 .. k + 1 : j \in 1 .. k \/ j = k + 1
  BY <1>3 DEF Ordered
<1>6. /\ \A j \in 1 .. n : w.addr = wants[j].addr => w.iface = wants[j].iface
      /\ w.iface # None /\ w.iface[1] # "tmp"
  BY <1>5 DEF Plain
<1> HIDE DEF i, t, w
<1>7. Named(s, links, wants, k) => Named(s, links, wants, k + 1)
  BY <1>5 DEF Named
<1>8. CASE t = s /\ s.died
  BY <1>7, <1>8 DEF Along, t, w
<1>9. CASE t = [s EXCEPT !.died = TRUE] /\ fault = NoAddrs
  <2>1. Renaming(t, links)
    BY <1>1, <1>9, DiedKeeps
  <2>2. t.fault = fault /\ t.died
    <3> DEFINE a == s.links
               b == s.fault
               c == s.died
    <3>1. s = [links |-> a, fault |-> b, died |-> c]
      BY <1>1 DEF Renaming
    <3> HIDE DEF a, b, c
    <3>2. \A v : [s EXCEPT !.died = v] = [links |-> a, fault |-> b, died |-> v]
      BY <3>1
    <3>3. t = [links |-> a, fault |-> b, died |-> TRUE]
      BY <1>9, <3>2
    <3> QED
      BY <1>1, <3>3 DEF b
  <2> QED
    BY <1>9, <2>1, <2>2, LabAssumption DEF Along, t, w
<1>10. CASE t = s /\ ~ s.died /\ (i = 0 \/ s.links[i].name = w.iface)
  <2>1. Placed(s, links, wants, k)
    BY <1>10 DEF Along
  <2>2. Placed(s, links, wants, k + 1)
    BY <1>1, <1>3, <1>5, <1>10, <2>1 DEF Placed, w
  <2> QED
    BY <1>7, <1>10, <2>2 DEF Along, t, w
<1>11. CASE t = Renamed(s, i, w.iface) /\ ~ s.died /\ i # 0 /\ s.links[i].name # w.iface
  <2>1. i \in DOMAIN links /\ links[i].addr = w.addr
    BY <1>1, <1>3, <1>11
  <2>2. /\ Renaming(t, links) /\ t.fault = fault
        /\ Refused(s, t, w.iface) \/ Moved(s, t, links, i, w.iface)
    BY <1>1, <1>11, <2>1, RenamedIs
  <2>3. CASE Refused(s, t, w.iface)
    <3>0. (Taken(s.links, w.iface) \/ fault = w.iface) /\ t.died /\ t.links = s.links
      BY <1>1, <2>3 DEF Refused
    <3>1. ASSUME fault = None
          PROVE  Named(t, links, wants, k + 1) /\ Clash(links, wants, n)
      <4>1. Named(s, links, wants, k)
        BY <3>1 DEF Along
      <4>2. PICK m \in 1 .. C : s.links[m].name = w.iface
        BY <1>2, <1>6, <3>0, <3>1 DEF Taken, Range
      <4>3. PICK j \in 1 .. k : wants[j].addr = links[m].addr /\ wants[j].iface = w.iface
        BY <1>1, <1>6, <4>1, <4>2 DEF Named
      <4>4. m # i /\ links[m].addr # w.addr
        BY <1>5, <1>11, <4>2
      <4>5. Clash(links, wants, n)
        BY <1>1, <1>5, <2>1, <4>3, <4>4 DEF Clash, w
      <4> QED
        BY <1>7, <3>0, <4>1, <4>5 DEF Named
    <3> QED
      BY <2>2, <3>0, <3>1 DEF Along, t, w
  <2>4. CASE Moved(s, t, links, i, w.iface)
    <3>0. /\ t.died = s.died /\ t.links[i].name = w.iface
          /\ \A m \in DOMAIN links \ {i} : t.links[m] = s.links[m]
      BY <2>4 DEF Moved
    <3>1. Placed(s, links, wants, k)
      BY <1>11 DEF Along
    <3>2. Placed(t, links, wants, k + 1)
      <4> SUFFICES ASSUME NEW j \in 1 .. k + 1, NEW m \in DOMAIN links,
                          links[m].addr = wants[j].addr
                   PROVE  t.links[m].name = wants[j].iface
        BY DEF Placed
      <4>1. CASE m = i
        BY <1>5, <1>6, <2>1, <3>0, <4>1
      <4>2. CASE m # i
        <5>1. j \in 1 .. k
          BY <1>1, <1>5, <4>2 DEF w
        <5> QED
          BY <3>0, <3>1, <4>2, <5>1 DEF Placed
      <4> QED
        BY <4>1, <4>2
    <3>3. Named(s, links, wants, k) => Named(t, links, wants, k + 1)
      BY <1>5, <1>7, <2>1, <3>0 DEF Named, w
    <3> QED
      BY <1>11, <2>2, <3>0, <3>2, <3>3 DEF Along, t, w
  <2> QED
    BY <2>2, <2>3, <2>4
<1> QED
  BY <1>4, <1>8, <1>9, <1>10, <1>11

(* The link that is left is given to management.                           *)
LEMMA LeftoverPlaces ==
  ASSUME NEW C \in Nat, NEW links, Ordered(links, C), NEW wants, NEW n \in Nat, Plain(wants, n),
         NEW fault, NEW s, Along(s, links, fault, wants, n, n), NEW t, t = Leftover(s)
  PROVE  Finished(t, links, wants, n, fault)
<1> DEFINE Unwanted(m) == \A j \in 1 .. n : wants[j].addr # links[m].addr
           Alone(m) == \A l \in DOMAIN links \ {m} : \E j \in 1 .. n : wants[j].addr = links[l].addr
<1>1. Renaming(s, links) /\ s.fault = fault /\ DOMAIN links = 1 .. C
  BY DEF Along, Ordered
<1>2. s.links = [m \in 1 .. C |-> s.links[m]]
  <2> DEFINE old == s.links
  <2>1. old = [m \in 1 .. C |-> [name |-> old[m].name, addr |-> links[m].addr]]
    BY <1>1 DEF Renaming, KeepsAddrs
  <2> HIDE DEF old
  <2>2. old = [m \in 1 .. C |-> old[m]]
    BY <2>1
  <2> QED
    BY <2>2 DEF old
<1>3. Renaming(t, links)
  BY <1>1, LeftoverKeeps
<1>4. \/ /\ t = s
         /\ s.died \/ Taken(s.links, Eth(0)) \/ \A m \in 1 .. C : s.links[m].name[1] # "tmp"
      \/ /\ ~ s.died /\ ~ Taken(s.links, Eth(0))
         /\ \E k \in 1 .. C : s.links[k].name[1] = "tmp" /\ t = Renamed(s, k, Eth(0))
  BY <1>2, LeftoverIs
<1>5. \A j \in 1 .. n : wants[j].iface # Eth(0) /\ wants[j].iface[1] # "tmp"
  BY DEF Plain
<1>6. ASSUME fault = None, NEW m \in DOMAIN links, Unwanted(m) PROVE s.links[m].name[1] = "tmp"
  BY <1>6 DEF Along, Named
<1>7. fault = None => ~ Taken(s.links, Eth(0))
  <2> SUFFICES ASSUME fault = None, Taken(s.links, Eth(0)) PROVE FALSE
    OBVIOUS
  <2>1. PICK m \in 1 .. C : s.links[m].name = Eth(0)
    BY <1>2 DEF Taken, Range
  <2>2. s.links[m].name[1] # "tmp"
    BY <2>1 DEF Eth
  <2> QED
    BY <1>1, <1>5, <2>1, <2>2 DEF Along, Named
<1>8. CASE t = s /\ (s.died \/ Taken(s.links, Eth(0)) \/ \A m \in 1 .. C : s.links[m].name[1] # "tmp")
  <2>1. ASSUME fault = None, ~ t.died, NEW m \in DOMAIN links, Unwanted(m) PROVE FALSE
    BY <1>1, <1>6, <1>7, <1>8, <2>1
  <2> QED
    BY <1>3, <1>8, <2>1 DEF Along, Finished
<1>9. CASE /\ ~ s.died /\ ~ Taken(s.links, Eth(0))
           /\ \E k \in 1 .. C : s.links[k].name[1] = "tmp" /\ t = Renamed(s, k, Eth(0))
  <2>1. PICK k \in 1 .. C : s.links[k].name[1] = "tmp" /\ t = Renamed(s, k, Eth(0))
    BY <1>9
  <2>2. Refused(s, t, Eth(0)) \/ Moved(s, t, links, k, Eth(0))
    BY <1>1, <2>1, RenamedIs
  <2>3. CASE Refused(s, t, Eth(0))
    <3>1. t.died /\ fault = Eth(0)
      BY <1>1, <1>9, <2>3 DEF Refused
    <3>2. fault # None
      BY <3>1, LabAssumption
    <3> QED
      BY <1>3, <3>1, <3>2 DEF Finished
  <2>4. CASE Moved(s, t, links, k, Eth(0))
    <3>1. /\ t.died = s.died /\ t.links[k].name = Eth(0)
          /\ \A m \in DOMAIN links \ {k} : t.links[m] = s.links[m]
      BY <2>4 DEF Moved
    <3>2. Placed(s, links, wants, n)
      BY <1>9 DEF Along
    <3>3. Unwanted(k)
      BY <1>1, <1>5, <2>1, <3>2 DEF Placed
    <3>4. Placed(t, links, wants, n)
      BY <3>1, <3>2, <3>3 DEF Placed
    <3>5. \A m \in DOMAIN links : Unwanted(m) /\ Alone(m) => m = k
      BY <1>1, <3>3
    <3>6. ~ t.died
      BY <1>9, <3>1
    <3> QED
      BY <1>3, <3>1, <3>4, <3>5, <3>6 DEF Finished
  <2> QED
    BY <2>2, <2>3, <2>4
<1> QED
  BY <1>4, <1>8, <1>9

(* Parking leaves no name a line could want.                               *)
LEMMA BeganAlong ==
  ASSUME NEW r \in Routers, NEW C, C = Cardinality(Attached[r]), NEW links, Ordered(links, C),
         \A m \in 1 .. C : links[m].name = Eth(m - 1), NEW fault, NEW wants, NEW n
  PROVE  Along(Began(links, fault), links, fault, wants, n, 0)
<1> DEFINE s == Began(links, fault)
           parked == Parked(links)
           eths == {l.name[2] : l \in {l \in Range(links) : l.name[1] = "eth"}}
           Count(m) == Cardinality({i \in eths : i < links[m].name[2]})
<1>1. C \in Nat /\ DOMAIN links = 1 .. C
  BY LabAssumption, FS_CardinalityType DEF Ordered
<1>2. Renaming(s, links)
  BY BeganKeeps DEF Ordered
<1>3. s.fault = fault /\ 1 .. 0 = {}
  BY DEF Began
<1>4. eths \subseteq 0 .. C - 1
  BY <1>1 DEF Range, Eth
<1>5. ASSUME NEW m \in 1 .. C PROVE Count(m) \in 0 .. C
  <2> DEFINE below == {i \in eths : i < links[m].name[2]}
  <2>1. IsFiniteSet(0 .. C - 1) /\ Cardinality(0 .. C - 1) = C
    <3>1. 0 \in Int /\ C - 1 \in Int
      BY <1>1
    <3>2. /\ IsFiniteSet(0 .. C - 1)
          /\ Cardinality(0 .. C - 1) = IF 0 > C - 1 THEN 0 ELSE C - 1 - 0 + 1
      BY <3>1, FS_Interval
    <3> QED
      BY <1>1, <3>2
  <2>2. below \in SUBSET (0 .. C - 1)
    BY <1>4
  <2> HIDE DEF below
  <2>3. IsFiniteSet(below) /\ Cardinality(below) <= C
    BY <2>1, <2>2, FS_Subset
  <2>4. Cardinality(below) \in Nat
    BY <2>3, FS_CardinalityType
  <2> QED
    BY <1>1, <2>3, <2>4 DEF below
<1>6. \A m \in 1 .. C : parked[m].name = Tmp(Count(m))
  <2>1. ASSUME NEW m \in 1 .. C PROVE parked[m].name = Tmp(Count(m))
    <3>1. links[m].name[1] = "eth"
      BY DEF Eth
    <3>2. parked[m] = [links[m] EXCEPT !.name = Tmp(Cardinality({i \in eths : i < @[2]}))]
      BY <1>1, <3>1 DEF Parked
    <3>3. links[m] = [name |-> links[m].name, addr |-> links[m].addr]
      BY <1>1 DEF Ordered, IsLinks
    <3> HIDE DEF eths, parked
    <3> QED
      BY <3>2, <3>3
  <2> QED
    BY <2>1
<1> HIDE DEF eths, Count
<1>7. ASSUME fault = None PROVE s.links = parked /\ ~ s.died
  <2>1. s.links = parked /\ s.died = (fault \in {l.name : l \in Range(parked)})
    BY <1>7, LabAssumption DEF Began
  <2>2. DOMAIN parked = 1 .. C
    BY <1>1 DEF Parked
  <2> HIDE DEF parked, s
  <2>3. \A m \in 1 .. C : parked[m].name # None
    BY <1>5, <1>6, LabAssumption
  <2> QED
    BY <1>7, <2>1, <2>2, <2>3 DEF Range
<1>8. fault = None => Named(s, links, wants, 0)
  <2>1. \A m \in 1 .. C : parked[m].name[1] = "tmp"
    BY <1>6 DEF Tmp
  <2> HIDE DEF s, parked
  <2> QED
    BY <1>1, <1>7, <2>1 DEF Named
<1>9. Placed(s, links, wants, 0)
  BY <1>3 DEF Placed
<1> QED
  BY <1>2, <1>3, <1>7, <1>8, <1>9 DEF Along

-----------------------------------------------------------------------------
(* A container after its start: what it is, and the addresses it has.      *)
Shape(r, c) ==
  /\ c = [frr |-> c.frr, died |-> c.died, faulty |-> c.faulty, links |-> c.links, agent |-> c.agent]
  /\ c.agent \in {"none", "exits", "listens"}
  /\ \A l \in c.links : l.addr \in Attached[r]

LEMMA AttachmentsAre ==
  ASSUME NEW r \in Routers, NEW links \in Attachments(r)
  PROVE  IsLinks(links) /\ \A k \in DOMAIN links : links[k].addr \in Attached[r]
<1>1. PICK order \in SetToSeqs(Attached[r]) :
        links = [k \in DOMAIN order |-> [name |-> Eth(k - 1), addr |-> order[k]]]
  BY DEF Attachments
<1>2. \A k \in DOMAIN order : order[k] \in Attached[r]
  BY DEF SetToSeqs
<1>3. /\ DOMAIN links = DOMAIN order
      /\ \A k \in DOMAIN order : links[k] = [name |-> Eth(k - 1), addr |-> order[k]]
  BY <1>1
<1>4. \A k \in DOMAIN order : links[k] = [name |-> links[k].name, addr |-> links[k].addr] /\ links[k].addr = order[k]
  BY <1>3
<1>5. links = [k \in DOMAIN links |-> links[k]]
  BY <1>1
<1>6. IsLinks(links)
  BY <1>3, <1>4, <1>5 DEF IsLinks
<1> QED
  BY <1>2, <1>3, <1>4, <1>6

LEMMA StartedShape ==
  ASSUME NEW f \in Files, NEW r \in Routers, NEW links \in Attachments(r), NEW env, NEW fault
  PROVE  Shape(r, Started(f.configs[r], links, env, fault))
<1> DEFINE conf == f.configs[r]
           done == IF conf = None THEN [links |-> links, died |-> FALSE]
                   ELSE rename_ifaces(conf, links, fault)
           c == Started(conf, links, env, fault)
<1>1. c = [frr |-> ~ done.died, died |-> done.died, faulty |-> fault # None,
           links |-> IF done.died THEN {} ELSE Range(done.links),
           agent |-> IF done.died \/ conf = None THEN "none" ELSE agent_start(env)]
  BY DEF Started
<1>2. agent_start(env) \in {"none", "exits", "listens"}
  BY DEF agent_start
<1>3. \A l \in Range(done.links) : l.addr \in Attached[r]
  <2>1. CASE conf = None
    BY <2>1, AttachmentsAre DEF Range
  <2>2. CASE conf # None
    <3>1. Renaming(rename_ifaces(conf, links, fault), links)
      BY <2>2, AttachmentsAre, FilesAssumption, RenameKeeps
    <3>2. KeepsAddrs(links, done.links)
      BY <2>2, <3>1 DEF Renaming
    <3> HIDE DEF done, conf
    <3>3. DOMAIN done.links = DOMAIN links
      BY <3>2 DEF KeepsAddrs
    <3>4. \A k \in DOMAIN links : done.links[k].addr = links[k].addr
      BY <3>2 DEF KeepsAddrs
    <3> QED
      BY <3>3, <3>4, AttachmentsAre DEF Range
  <2> QED
    BY <2>1, <2>2
<1> HIDE DEF done, conf, c
<1>4. c = [frr |-> c.frr, died |-> c.died, faulty |-> c.faulty, links |-> c.links, agent |-> c.agent]
  BY <1>1
<1>5. c.agent \in {"none", "exits", "listens"}
  BY <1>1, <1>2
<1>6. c.links \in {{}, Range(done.links)}
  BY <1>1
<1> QED
  BY <1>3, <1>4, <1>5, <1>6 DEF Shape, c, conf

(* What a configuration wants, line by line.                               *)
LEMMA WantsAre ==
  ASSUME NEW f \in Files, NEW r \in Routers, f.configs[r] # None, NamesLinks,
         NEW wants, wants = ifaces_of(f.configs[r])
  PROVE  /\ Len(wants) \in Nat /\ DOMAIN wants = 1 .. Len(wants)
         /\ Plain(wants, Len(wants))
<1> DEFINE conf == f.configs[r]
           lines == [k \in DOMAIN conf |-> [iface |-> IfaceAbove(conf, k), line |-> conf[k]]]
           S == {l \in Range(lines) : l.line.kind = "address" /\ l.iface \notin {None, Lo}}
           addresses == Select(lines, S)
           n == Len(wants)
<1>1. n \in Nat
  BY FilesAssumption, IfacesAreListed
<1>2. wants = [k \in DOMAIN addresses |-> [iface |-> addresses[k].iface, addr |-> addresses[k].line.value]]
  BY DEF ifaces_of
<1>3. lines \in Seq(Range(lines))
  <2>1. conf \in Seq(Range(conf))
    BY FilesAssumption
  <2> DEFINE len == Len(conf)
  <2>2. len \in Nat /\ DOMAIN lines = 1 .. len
    BY <2>1
  <2>3. lines = [k \in 1 .. len |-> lines[k]] /\ \A k \in 1 .. len : lines[k] \in Range(lines)
    BY <2>2 DEF Range
  <2> HIDE DEF lines, len
  <2> QED
    BY <2>2, <2>3
<1> HIDE DEF lines, S
<1>4. addresses \in Seq(Range(lines)) /\ Range(addresses) = Range(lines) \cap S
  BY <1>3, SelectIs
<1> HIDE DEF addresses
<1>5. DOMAIN addresses = 1 .. Len(addresses) /\ Len(addresses) \in Nat
  BY <1>4
<1>6. DOMAIN wants = 1 .. n
  BY <1>1, <1>2, <1>5
<1>7. ASSUME NEW i \in 1 .. n PROVE wants[i].iface # None
  <2>1. wants[i].iface = addresses[i].iface /\ i \in DOMAIN addresses
    BY <1>2, <1>6
  <2>2. addresses[i] \in S
    BY <1>4, <2>1 DEF Range
  <2> QED
    BY <2>1, <2>2 DEF S
<1>8. \A v, w \in Range(wants) :
        v.iface[1] # "tmp" /\ v.iface # Eth(0) /\ (v.addr = w.addr => v.iface = w.iface)
  BY DEF NamesLinks
<1>9. \A i \in 1 .. n : wants[i] \in Range(wants)
  BY <1>6 DEF Range
<1> HIDE DEF n
<1>10. Plain(wants, n)
  BY <1>7, <1>8, <1>9 DEF Plain
<1> QED
  BY <1>1, <1>6, <1>10 DEF n

(* Compose attaches each address of a router once.                         *)
LEMMA AttachmentsOrdered ==
  ASSUME NEW r \in Routers, NEW C, C = Cardinality(Attached[r]), NEW links \in Attachments(r)
  PROVE  /\ C \in Nat /\ Ordered(links, C)
         /\ \A m \in 1 .. C : links[m].name = Eth(m - 1)
         /\ \A addr \in Attached[r] : \E m \in 1 .. C : links[m].addr = addr
         /\ \A m \in 1 .. C : links[m].addr \in Attached[r]
<1>1. C \in Nat /\ IsFiniteSet(Attached[r])
  BY LabAssumption, FS_CardinalityType
<1>2. PICK order \in SetToSeqs(Attached[r]) :
        links = [k \in DOMAIN order |-> [name |-> Eth(k - 1), addr |-> order[k]]]
  BY DEF Attachments
<1>3. order \in [1 .. C -> Attached[r]] /\ \A i, j \in 1 .. C : i # j => order[i] # order[j]
  BY DEF SetToSeqs
<1>4. /\ DOMAIN links = 1 .. C
      /\ \A k \in 1 .. C : links[k].name = Eth(k - 1) /\ links[k].addr = order[k]
  BY <1>2, <1>3
<1>5. IsLinks(links)
  BY AttachmentsAre
<1>6. Ordered(links, C)
  BY <1>3, <1>4, <1>5 DEF Ordered
<1>7. \A addr \in Attached[r] : \E m \in 1 .. C : order[m] = addr
  <2>1. order \in Injection(1 .. C, Attached[r])
    BY <1>3 DEF Injection, IsInjective
  <2>2. Cardinality(1 .. C) = C
    <3>1. 1 \in Int /\ C \in Int
      BY <1>1
    <3>2. Cardinality(1 .. C) = IF 1 > C THEN 0 ELSE C - 1 + 1
      BY <3>1, FS_Interval
    <3> QED
      BY <1>1, <3>2
  <2>3. order \in Surjection(1 .. C, Attached[r])
    BY <1>1, <2>1, <2>2, FS_Injection
  <2> QED
    BY <2>3 DEF Surjection
<1> QED
  BY <1>1, <1>3, <1>4, <1>6, <1>7

(* What LinksAsConfigured says of one container.                           *)
LinksRight(r, conf, died, faulty, links) ==
  LET wanted == Range(ifaces_of(conf))
  IN  /\ died /\ ~ faulty =>
           \E v, w \in wanted :
             v.iface = w.iface /\ v.addr # w.addr /\ {v.addr, w.addr} \subseteq Attached[r]
      /\ ~ died => \A w \in wanted, l \in links : l.addr = w.addr => l.name = w.iface
      /\ ~ died /\ ~ faulty /\ {w.addr : w \in wanted} = Attached[r] \ {Mgmt[r]}
           => [name |-> Eth(0), addr |-> Mgmt[r]] \in links

LEMMA StartedRight ==
  ASSUME NEW f \in Files, NEW r \in Routers, f.configs[r] # None, NamesLinks,
         NEW links \in Attachments(r), NEW env, NEW fault,
         NEW c, c = Started(f.configs[r], links, env, fault)
  PROVE  /\ LinksRight(r, f.configs[r], c.died, c.faulty, c.links)
         /\ c.frr => ~ c.died
<1> DEFINE conf == f.configs[r]
           C == Cardinality(Attached[r])
           wants == ifaces_of(conf)
           n == Len(wants)
           t == rename_ifaces(conf, links, fault)
<1>1. /\ C \in Nat /\ Ordered(links, C) /\ DOMAIN links = 1 .. C
      /\ \A m \in 1 .. C : links[m].name = Eth(m - 1) /\ links[m].addr \in Attached[r]
      /\ \A addr \in Attached[r] : \E m \in 1 .. C : links[m].addr = addr
  <2>1. C = Cardinality(Attached[r])
    OBVIOUS
  <2> HIDE DEF C
  <2>2. /\ C \in Nat /\ Ordered(links, C)
        /\ \A m \in 1 .. C : links[m].name = Eth(m - 1)
        /\ \A addr \in Attached[r] : \E m \in 1 .. C : links[m].addr = addr
        /\ \A m \in 1 .. C : links[m].addr \in Attached[r]
    BY <2>1, AttachmentsOrdered
  <2> QED
    BY <2>2 DEF Ordered
<1>2. n \in Nat /\ DOMAIN wants = 1 .. n /\ Plain(wants, n)
  BY WantsAre
<1>3. PICK s : Along(s, links, fault, wants, n, n) /\ t = Leftover(s)
  <2>1. PICK g : Folding(g, conf, links, fault, n)
    BY <1>2, RenameSteps
  <2> DEFINE G == {k \in Nat : k <= n => Along(g[k], links, fault, wants, n, k)}
  <2>2. 0 \in G
    BY <1>1, <2>1, BeganAlong DEF Folding
  <2>3. ASSUME NEW k \in Nat, k \in G PROVE k + 1 \in G
    <3> SUFFICES ASSUME k + 1 <= n PROVE Along(g[k + 1], links, fault, wants, n, k + 1)
      OBVIOUS
    <3>1. Along(g[k], links, fault, wants, n, k) /\ k \in 0 .. n - 1
      BY <1>2, <2>3
    <3>2. g[k + 1] = Mapped(g[k], wants[k + 1])
      BY <1>2, <2>1 DEF Folding
    <3> HIDE DEF C, conf, wants, n
    <3> QED
      BY <1>1, <1>2, <3>1, <3>2, MappedPlaces
  <2> HIDE DEF G
  <2>4. G = Nat
    BY <2>2, <2>3, Reach DEF G
  <2>5. Along(g[n], links, fault, wants, n, n)
    BY <1>2, <2>4 DEF G
  <2> QED
    BY <2>1, <2>5 DEF Folding
<1>4. c = [frr |-> ~ t.died, died |-> t.died, faulty |-> fault # None,
           links |-> IF t.died THEN {} ELSE Range(t.links),
           agent |-> IF t.died \/ conf = None THEN "none" ELSE agent_start(env)]
  BY DEF Started
<1> HIDE DEF C, conf, wants, n, t
<1>5. Finished(t, links, wants, n, fault)
  BY <1>1, <1>2, <1>3, LeftoverPlaces
<1>6. /\ c.frr = ~ t.died /\ c.died = t.died /\ c.faulty = (fault # None)
      /\ ~ t.died => c.links = Range(t.links)
  BY <1>4
<1>7. DOMAIN t.links = 1 .. C /\ \A m \in 1 .. C : t.links[m] = [name |-> t.links[m].name, addr |-> links[m].addr]
  <2> DEFINE now == t.links
  <2>1. now = [m \in 1 .. C |-> [name |-> now[m].name, addr |-> links[m].addr]]
    BY <1>1, <1>5 DEF Finished, Renaming, KeepsAddrs
  <2> HIDE DEF now
  <2> QED
    BY <2>1 DEF now
<1>8. Range(wants) = {wants[j] : j \in 1 .. n}
  BY <1>2 DEF Range
<1>9. ASSUME c.died, ~ c.faulty
      PROVE  \E v, w \in Range(wants) :
               v.iface = w.iface /\ v.addr # w.addr /\ {v.addr, w.addr} \subseteq Attached[r]
  <2>1. Clash(links, wants, n)
    BY <1>5, <1>6, <1>9 DEF Finished
  <2>2. \E i, j \in 1 .. n : \E l, m \in DOMAIN links :
          /\ wants[i].iface = wants[j].iface /\ wants[i].addr # wants[j].addr
          /\ wants[i].addr = links[l].addr /\ wants[j].addr = links[m].addr
    BY <2>1 DEF Clash
  <2>3. PICK i \in 1 .. n, j \in 1 .. n, l \in DOMAIN links, m \in DOMAIN links :
          /\ wants[i].iface = wants[j].iface /\ wants[i].addr # wants[j].addr
          /\ wants[i].addr = links[l].addr /\ wants[j].addr = links[m].addr
    BY <2>2
  <2>4. wants[i].addr \in Attached[r] /\ wants[j].addr \in Attached[r]
    BY <1>1, <2>3
  <2> QED
    BY <1>8, <2>3, <2>4
<1>10. ASSUME ~ c.died, NEW w \in Range(wants), NEW l \in c.links, l.addr = w.addr
       PROVE  l.name = w.iface
  <2>1. PICK j \in 1 .. n : w = wants[j]
    BY <1>8
  <2>2. PICK m \in 1 .. C : l = t.links[m]
    BY <1>6, <1>7, <1>10 DEF Range
  <2>3. l.addr = links[m].addr
    <3>1. l = [name |-> t.links[m].name, addr |-> links[m].addr]
      BY <1>7, <2>2
    <3> QED
      BY <3>1
  <2> QED
    BY <1>1, <1>5, <1>6, <1>10, <2>1, <2>2, <2>3 DEF Finished, Placed
<1>11. ASSUME ~ c.died, ~ c.faulty, {w.addr : w \in Range(wants)} = Attached[r] \ {Mgmt[r]}
       PROVE  [name |-> Eth(0), addr |-> Mgmt[r]] \in c.links
  <2>1. PICK m \in 1 .. C : links[m].addr = Mgmt[r]
    BY <1>1, LabAssumption
  <2>2. \A j \in 1 .. n : wants[j].addr # links[m].addr
    BY <1>8, <1>11, <2>1
  <2>3. ASSUME NEW l \in (1 .. C) \ {m} PROVE \E j \in 1 .. n : wants[j].addr = links[l].addr
    <3>1. links[l].addr # Mgmt[r]
      BY <1>1, <2>1 DEF Ordered
    <3>2. links[l].addr \in {w.addr : w \in Range(wants)}
      BY <1>1, <1>11, <3>1
    <3> QED
      BY <1>8, <3>2
  <2>4. t.links[m].name = Eth(0)
    BY <1>1, <1>5, <1>6, <1>11, <2>2, <2>3 DEF Finished
  <2>5. t.links[m] = [name |-> Eth(0), addr |-> Mgmt[r]]
    BY <1>7, <2>1, <2>4
  <2>6. t.links[m] \in Range(t.links)
    BY <1>7 DEF Range
  <2> QED
    BY <1>6, <1>11, <2>5, <2>6
<1>12. LinksRight(r, conf, c.died, c.faulty, c.links)
  BY <1>9, <1>10, <1>11 DEF LinksRight, wants
<1> QED
  BY <1>6, <1>12 DEF conf

-----------------------------------------------------------------------------
(* The tool reads out of FRR's summary what FRR put in, nested or not.     *)
LEMMA FoundIs ==
  ASSUME NEW own, own # None, NEW nested \in BOOLEAN
  PROVE  LET found == Found(Shaped(own, nested))
         IN  DOMAIN found = DOMAIN own /\ \A key \in DOMAIN own : found[key] = own[key]
<1>1. CASE ~ nested
  BY <1>1 DEF Shaped, Found
<1>2. CASE nested
  <2> DEFINE json == Shaped(own, nested)
             having(key) == {i \in DOMAIN json.members : key \in DOMAIN json.members[i]}
             keys == UNION {DOMAIN json.members[i] : i \in DOMAIN json.members}
  <2>1. json.own = None /\ json.members = <<own>>
    BY <1>2 DEF Shaped
  <2>2. DOMAIN json.members = {1} /\ json.members[1] = own
    BY <2>1
  <2>3. Found(json) = [key \in keys |-> json.members[Max(having(key))][key]]
    BY <2>1 DEF Found
  <2> HIDE DEF json
  <2>4. keys = DOMAIN own
    BY <2>2
  <2>5. \A key \in DOMAIN own : having(key) = {1}
    BY <2>2
  <2>6. Max({1}) = 1
    BY DEF Max
  <2>7. \A key \in DOMAIN own : json.members[Max(having(key))][key] = own[key]
    BY <2>2, <2>5, <2>6
  <2> QED
    BY <2>3, <2>4, <2>7 DEF json
<1> QED
  BY <1>1, <1>2

PeerIPs(r) == {n.ip : n \in Range(neighbors_of(Conf(r)))}

LEMMA SummarySays ==
  ASSUME files \in Files, NEW r \in Routers, Conf(r) # None, NEW nested \in BOOLEAN
  PROVE  LET json == show_bgp_summary(r, nested)
         IN  /\ json # None
             /\ DOMAIN peers_from(json) = PeerIPs(r)
             /\ \A ip \in PeerIPs(r) : state_of(peers_from(json)[ip]) = "Established" <=> Session(ip) \in est
<1> DEFINE own == [ip \in PeerIPs(r) |-> Entry(Session(ip) \in est)]
           json == show_bgp_summary(r, nested)
<1>1. json = Shaped(own, nested)
  BY DEF show_bgp_summary, PeerIPs
<1>2. PeerIPs(r) \in SUBSET DOMAIN Opposite
  BY FilesAssumption DEF PeerIPs, Conf
<1>3. own \in [PeerIPs(r) -> {Entry(TRUE), Entry(FALSE)}]
  <2>1. ASSUME NEW ip \in PeerIPs(r) PROVE Entry(Session(ip) \in est) \in {Entry(TRUE), Entry(FALSE)}
    <3>1. CASE Session(ip) \in est
      BY <3>1 DEF Entry
    <3>2. CASE Session(ip) \notin est
      BY <3>2 DEF Entry
    <3> QED
      BY <3>1, <3>2
  <2> QED
    BY <2>1, Zenon
<1>4. /\ DOMAIN own = PeerIPs(r)
      /\ \A ip \in PeerIPs(r) :
           /\ own[ip].state = IF Session(ip) \in est THEN "Established" ELSE "Active"
           /\ own[ip].peerState = "OK"
  BY DEF Entry
<1> HIDE DEF own, json
<1>5. own # None /\ Shaped(own, nested) # None
  BY <1>2, <1>3, SummaryAssumption
<1>6. DOMAIN peers_from(json) = DOMAIN own /\ \A ip \in DOMAIN own : peers_from(json)[ip] = own[ip]
  BY <1>1, <1>5, FoundIs DEF peers_from
<1>7. \A ip \in PeerIPs(r) : state_of(own[ip]) = "Established" <=> Session(ip) \in est
  BY <1>4 DEF state_of
<1> QED
  BY <1>1, <1>4, <1>5, <1>6, <1>7 DEF json

LEMMA RequireSays ==
  ASSUME files \in Files, NEW r \in Routers, Conf(r) # None, NEW nested \in BOOLEAN
  PROVE  LET ips == [k \in DOMAIN neighbors_of(Conf(r)) |-> neighbors_of(Conf(r))[k].ip]
             rc == summary_require(show_bgp_summary(r, nested), ips)
         IN  /\ rc = 0 => ExpectedOf(r) \subseteq est
             /\ ExpectedOf(r) # {} /\ ExpectedOf(r) \subseteq est => rc = 0
<1> DEFINE near == neighbors_of(Conf(r))
           ips == [k \in DOMAIN near |-> near[k].ip]
           json == show_bgp_summary(r, nested)
<1>1. Range(ips) = PeerIPs(r)
  BY DEF Range, PeerIPs
<1>2. ExpectedOf(r) = {Session(ip) : ip \in PeerIPs(r)}
  BY DEF ExpectedOf, PeerIPs
<1>3. ExpectedOf(r) # {} => ips # <<>>
  <2>1. ExpectedOf(r) # {} => DOMAIN near # {}
    BY DEF ExpectedOf, Range
  <2>2. ips = <<>> => DOMAIN ips = {}
    OBVIOUS
  <2> QED
    BY <2>1, <2>2
<1> HIDE DEF ips, near, json
<1>4. /\ json # None /\ DOMAIN peers_from(json) = PeerIPs(r)
      /\ \A ip \in PeerIPs(r) : state_of(peers_from(json)[ip]) = "Established" <=> Session(ip) \in est
  BY SummarySays DEF json
<1>5. summary_require(json, ips) = 0 => ExpectedOf(r) \subseteq est
  BY <1>1, <1>2, <1>4 DEF summary_require
<1>6. ExpectedOf(r) # {} /\ ExpectedOf(r) \subseteq est => summary_require(json, ips) = 0
  BY <1>1, <1>2, <1>3, <1>4 DEF summary_require
<1> QED
  BY <1>5, <1>6 DEF ips, near, json

(* up.sh is content with a router when its sessions are Established, and   *)
(* only then: an answer without JSON is no answer.                         *)
LEMMA SawSays ==
  ASSUME files \in Files, NEW r \in NodeNames, NEW nested \in BOOLEAN,
         NEW raw \in vtysh_json(r, show_bgp_summary(r, nested))
  PROVE  /\ SawAll(r, raw) \in BOOLEAN
         /\ SawAll(r, raw) => ExpectedOf(r) \subseteq est
         /\ Running(r) /\ ExpectedOf(r) # {} /\ ExpectedOf(r) \subseteq est
              /\ (\E s \in est : s \cap Attached[r] # {}) => SawAll(r, raw)
<1> DEFINE json == show_bgp_summary(r, nested)
           ips == [k \in DOMAIN neighbors_of(Conf(r)) |-> neighbors_of(Conf(r))[k].ip]
<1>1. r \in Routers /\ Conf(r) # None
  BY LabAssumption DEF NodeNames, Range
<1>2. /\ summary_require(json, ips) = 0 => ExpectedOf(r) \subseteq est
      /\ ExpectedOf(r) # {} /\ ExpectedOf(r) \subseteq est => summary_require(json, ips) = 0
  BY <1>1, RequireSays
<1>3. SawAll(r, raw) <=> raw.rc = 0 /\ summary_require(raw.json, ips) = 0
  BY DEF SawAll
<1>4. SawAll(r, raw) \in BOOLEAN
  BY DEF SawAll
<1> HIDE DEF json, ips
<1>5. raw \in {Dead, Answer(json), Answer(None)}
  BY DEF vtysh_json, json
<1>6. summary_require(None, ips) # 0
  BY DEF summary_require
<1>7. SawAll(r, raw) => ExpectedOf(r) \subseteq est
  BY <1>2, <1>3, <1>5, <1>6 DEF Dead, Answer
<1>8. ASSUME Running(r), ExpectedOf(r) # {}, ExpectedOf(r) \subseteq est,
             \E s \in est : s \cap Attached[r] # {}
      PROVE  SawAll(r, raw)
  <2>1. raw = Answer(json)
    BY <1>8 DEF vtysh_json, json
  <2> QED
    BY <1>2, <1>3, <1>8, <2>1 DEF Answer
<1> QED
  BY <1>4, <1>7, <1>8

-----------------------------------------------------------------------------
(* The lab: its containers have the addresses compose gave them, and every *)
(* Established session is one that both of its ends can speak for.         *)
LabTyped ==
  /\ files \in Files
  /\ trouble \in 0 .. MaxTrouble /\ time \in 0 .. MaxTime
  /\ node = [r \in Routers |-> node[r]]
  /\ \A r \in Routers : node[r] = None \/ Shape(r, node[r])
  /\ dash = None \/ dash.last \in 0 .. MaxEventId

Sessions ==
  /\ est \subseteq Possible
  /\ steady = None \/ (steady \in Nat /\ AllUp(est))

LEMMA NodesAreRouters ==
  ASSUME NEW r \in NodeNames
  PROVE  r \in Routers /\ Conf(r) # None
BY LabAssumption DEF NodeNames, Range

LEMMA SameFiles ==
  ASSUME files' = files
  PROVE  /\ NodeNames' = NodeNames /\ Expected' = Expected
         /\ \A r : Conf(r)' = Conf(r) /\ ExpectedOf(r)' = ExpectedOf(r)
         /\ \A sessions : AllUp(sessions)' <=> AllUp(sessions)
BY DEF NodeNames, Expected, Conf, ExpectedOf, AllUp

(* The ends of a session that is up are running.                           *)
LEMMA SpeakerHasIt ==
  ASSUME LabTyped, NEW addr, Speaks(addr)
  PROVE  \E r \in NodeNames :
           /\ r \in Routers /\ addr \in Attached[r] /\ Running(r)
           /\ asn_of(Conf(r)) # None /\ Session(addr) \in ExpectedOf(r)
           /\ \E w \in Range(ifaces_of(Conf(r))) :
                w.addr = addr /\ [name |-> w.iface, addr |-> addr] \in node[r].links
<1>1. PICK r \in NodeNames :
        /\ Running(r) /\ asn_of(Conf(r)) # None /\ Session(addr) \in ExpectedOf(r)
        /\ \E w \in Range(ifaces_of(Conf(r))) :
             w.addr = addr /\ [name |-> w.iface, addr |-> addr] \in node[r].links
  BY DEF Speaks
<1>2. r \in Routers
  BY NodesAreRouters
<1>3. Shape(r, node[r])
  BY <1>1, <1>2 DEF LabTyped, Running
<1>4. addr \in Attached[r]
  BY <1>1, <1>3 DEF Shape
<1> QED
  BY <1>1, <1>2, <1>4

LEMMA EndsRun ==
  ASSUME LabTyped, Sessions, NEW r \in Routers, NEW s \in est, s \cap Attached[r] # {}
  PROVE  Running(r)
<1>1. PICK addr \in s : addr \in Attached[r]
  OBVIOUS
<1>2. Speaks(addr)
  BY DEF Sessions, Possible
<1>3. PICK q \in Routers : addr \in Attached[q] /\ Running(q)
  BY <1>2, SpeakerHasIt
<1>4. q = r
  BY <1>1, <1>3, LabAssumption
<1> QED
  BY <1>3, <1>4

LEMMA SpeaksStays ==
  ASSUME LabTyped, files' = files, NEW addr, Speaks(addr),
         \A q \in Routers : addr \in Attached[q] => node'[q] = node[q]
  PROVE  Speaks(addr)'
<1>1. PICK r \in NodeNames :
        /\ r \in Routers /\ addr \in Attached[r] /\ Running(r)
        /\ asn_of(Conf(r)) # None /\ Session(addr) \in ExpectedOf(r)
        /\ \E w \in Range(ifaces_of(Conf(r))) :
             w.addr = addr /\ [name |-> w.iface, addr |-> addr] \in node[r].links
  BY SpeakerHasIt
<1>2. node'[r] = node[r]
  BY <1>1
<1>3. Running(r)'
  BY <1>1, <1>2 DEF Running
<1>4. r \in NodeNames' /\ Conf(r)' = Conf(r) /\ ExpectedOf(r)' = ExpectedOf(r)
  BY <1>1, SameFiles
<1>5. Session(addr)' = Session(addr)
  BY DEF Session
<1> QED
  BY <1>1, <1>2, <1>3, <1>4, <1>5 DEF Speaks

LEMMA PossibleStays ==
  ASSUME LabTyped, files' = files, NEW s \in Possible,
         \A q \in Routers : s \cap Attached[q] # {} => node'[q] = node[q]
  PROVE  s \in Possible'
<1>1. s \in Expected'
  BY SameFiles DEF Possible
<1>2. ASSUME NEW addr \in s PROVE Speaks(addr)'
  BY <1>2, SpeaksStays DEF Possible
<1> QED
  BY <1>1, <1>2 DEF Possible

LEMMA AdoptKeeps ==
  ASSUME LabTyped, Sessions, files' = files, time' = time, NEW sessions, Adopt(sessions),
         sessions \subseteq Possible'
  PROVE  Sessions'
<1>1. /\ est' = sessions
      /\ steady' = IF ~ AllUp(sessions) THEN None ELSE IF steady = None THEN time ELSE steady
  BY DEF Adopt
<1>2. AllUp(sessions)' <=> AllUp(sessions)
  BY SameFiles
<1>3. AllUp(est)' <=> AllUp(sessions)'
  BY <1>1 DEF AllUp
<1>4. time \in Nat /\ (steady = None \/ steady \in Nat)
  BY DeadlineAssumption DEF LabTyped, Sessions
<1> QED
  BY <1>1, <1>2, <1>3, <1>4 DEF Sessions

LEMMA SameSessions ==
  ASSUME LabTyped, Sessions, UNCHANGED <<files, node, est>>, steady' = steady \/ steady' = None
  PROVE  Sessions'
<1>1. ASSUME NEW s \in est PROVE s \in Possible'
  BY <1>1, PossibleStays DEF Sessions
<1>2. AllUp(est)' <=> AllUp(est)
  BY SameFiles DEF AllUp
<1> QED
  BY <1>1, <1>2 DEF Sessions

LEMMA EnvironmentKeeps ==
  ASSUME LabTyped, Sessions, Environment
  PROVE  /\ LabTyped' /\ Sessions' /\ files' = files /\ time' = time
         /\ steady' = None \/ steady' = steady \/ steady' = time
<1>1. CASE Establish
  <2>1. PICK s \in Possible \ est : Adopt(est \cup {s})
    BY <1>1 DEF Establish
  <2>2. UNCHANGED <<files, node, dash, trouble, time>>
    BY <1>1 DEF Establish
  <2>3. Possible \subseteq Possible'
    BY <2>2, PossibleStays
  <2>4. Sessions'
    BY <2>1, <2>2, <2>3, AdoptKeeps DEF Sessions
  <2> QED
    BY <2>1, <2>2, <2>4 DEF LabTyped, Shape, Adopt
<1>2. CASE Lose
  <2>1. PICK s \in est : Adopt(est \ {s})
    BY <1>2 DEF Lose
  <2>2. UNCHANGED <<files, node, dash, time>> /\ trouble' \in 0 .. MaxTrouble
    BY <1>2, LabAssumption DEF Lose, Trouble, LabTyped
  <2>3. Possible \subseteq Possible'
    BY <2>2, PossibleStays
  <2>4. Sessions'
    BY <2>1, <2>2, <2>3, AdoptKeeps DEF Sessions
  <2> QED
    BY <2>1, <2>2, <2>4 DEF LabTyped, Shape, Adopt
<1>3. CASE RouterExits
  <2>1. PICK r \in Routers :
          /\ Running(r)
          /\ node' = [node EXCEPT ![r].frr = FALSE, ![r].agent = "none"]
          /\ Adopt({s \in est : s \cap Attached[r] = {}})
    BY <1>3 DEF RouterExits
  <2>2. UNCHANGED <<files, dash, time>> /\ trouble' \in 0 .. MaxTrouble
    BY <1>3, LabAssumption DEF RouterExits, Trouble, LabTyped
  <2> DEFINE c == [[node[r] EXCEPT !.frr = FALSE] EXCEPT !.agent = "none"]
  <2>3. node = [q \in Routers |-> node[q]] /\ Shape(r, node[r])
    BY <2>1 DEF LabTyped, Running
  <2>4. node' = [node EXCEPT ![r] = c]
    BY <2>1, <2>3
  <2>5. /\ node' = [q \in Routers |-> node'[q]] /\ node'[r] = c
        /\ \A q \in Routers \ {r} : node'[q] = node[q]
    <3> HIDE DEF c
    <3>1. DOMAIN node = Routers
      BY <2>3
    <3> QED
      BY <2>4, <3>1
  <2>6. Shape(r, node'[r])
    <3> DEFINE died == node[r].died
               faulty == node[r].faulty
               links == node[r].links
               frr == node[r].frr
               agent == node[r].agent
    <3>1. node[r] = [frr |-> frr, died |-> died, faulty |-> faulty, links |-> links, agent |-> agent]
      BY <2>3 DEF Shape
    <3>2. \A l \in links : l.addr \in Attached[r]
      BY <2>3 DEF Shape
    <3> HIDE DEF died, faulty, links, frr, agent
    <3>3. \A v : [node[r] EXCEPT !.frr = v]
                 = [frr |-> v, died |-> died, faulty |-> faulty, links |-> links, agent |-> agent]
      BY <3>1
    <3> DEFINE stopped == [node[r] EXCEPT !.frr = FALSE]
    <3>4. stopped = [frr |-> FALSE, died |-> died, faulty |-> faulty, links |-> links, agent |-> agent]
      BY <3>3
    <3> HIDE DEF stopped
    <3>5. \A u, v : [[frr |-> u, died |-> died, faulty |-> faulty, links |-> links, agent |-> agent]
                       EXCEPT !.agent = v]
                    = [frr |-> u, died |-> died, faulty |-> faulty, links |-> links, agent |-> v]
      OBVIOUS
    <3>6. [stopped EXCEPT !.agent = "none"]
          = [frr |-> FALSE, died |-> died, faulty |-> faulty, links |-> links, agent |-> "none"]
      BY <3>4, <3>5
    <3>7. c = [frr |-> FALSE, died |-> died, faulty |-> faulty, links |-> links, agent |-> "none"]
      BY <3>6 DEF stopped
    <3> HIDE DEF c
    <3> QED
      BY <2>5, <3>2, <3>7 DEF Shape
  <2>7. ASSUME NEW s \in est, s \cap Attached[r] = {} PROVE s \in Possible'
    BY <2>2, <2>5, <2>7, PossibleStays DEF Sessions
  <2>8. Sessions'
    BY <2>1, <2>2, <2>7, AdoptKeeps
  <2>9. LabTyped'
    BY <2>2, <2>5, <2>6 DEF LabTyped, Shape
  <2> QED
    BY <2>1, <2>2, <2>8, <2>9 DEF Adopt
<1>4. CASE DashPolls \/ DashRestarts \/ PortChanges
  <2>1. UNCHANGED <<files, node, est, steady, time>> /\ trouble' \in 0 .. MaxTrouble
    BY <1>4, LabAssumption DEF DashPolls, DashRestarts, PortChanges, Trouble, LabTyped
  <2>2. dash' = None \/ dash'.last \in 0 .. MaxEventId
    BY <1>4, LabAssumption DEF DashPolls, DashRestarts, PortChanges, LabTyped
  <2>3. Sessions'
    BY <2>1, SameSessions
  <2> QED
    BY <2>1, <2>2, <2>3 DEF LabTyped, Shape
<1> QED
  BY <1>1, <1>2, <1>3, <1>4 DEF Environment

LEMMA SameLab ==
  ASSUME LabTyped, Sessions, UNCHANGED labVars
  PROVE  LabTyped' /\ Sessions'
<1>1. UNCHANGED <<files, node, est, dash, trouble, steady, time>>
  BY DEF labVars
<1>2. Sessions'
  BY <1>1, SameSessions
<1> QED
  BY <1>1, <1>2 DEF LabTyped, Shape

-----------------------------------------------------------------------------
(* up.sh.                                                                  *)
UpType ==
  [pc : {"compose", "composeFailed", "nothingExpected", "wait", "round", "sleep", "converged", "gaveUp"},
   retried : BOOLEAN, elapsed : Nat, all_ok : BOOLEAN, left : Seq(NodeNames)]

(* In a round: what was seen of the routers asked so far, and that none of *)
(* them failed the test if all sessions were up before the deadline which  *)
(* this round is past.                                                     *)
Asked ==
  /\ up.pc \in {"wait", "round", "sleep"} => Expected # {}
  /\ up.pc = "round" =>
       /\ est \subseteq seen
       /\ up.all_ok => \A r \in NodeNames : r \in Range(up.left) \/ ExpectedOf(r) \subseteq seen
       /\ steady # None /\ steady < DEADLINE /\ up.elapsed >= DEADLINE => up.all_ok

UpInv == up \in UpType /\ up.elapsed <= time /\ Asked

LEMMA NamesInOrder == node_names \in Seq(NodeNames) /\ Range(node_names) = NodeNames
<1> DEFINE S == {r \in Routers : Conf(r) # None}
           n == Len(node_names)
<1>1. node_names \in Seq(Routers) /\ Range(node_names) = Range(Alphabetical) \cap S
  BY LabAssumption, SelectIs DEF node_names
<1>2. Range(Alphabetical) \cap S = NodeNames
  BY LabAssumption DEF NodeNames, Range
<1>3. n \in Nat /\ node_names = [k \in 1 .. n |-> node_names[k]]
  BY <1>1
<1>4. \A k \in 1 .. n : node_names[k] \in NodeNames
  BY <1>1, <1>2, <1>3 DEF Range
<1> HIDE DEF n
<1> QED
  BY <1>1, <1>2, <1>3, <1>4

LEMMA ComposeKeeps ==
  ASSUME LabTyped, Sessions, UpInv, ComposeUp
  PROVE  LabTyped' /\ Sessions' /\ UpInv' /\ up'.pc \notin {"converged", "gaveUp"}
<1>1. /\ UNCHANGED <<files, trouble, time, seen>> /\ est' = {} /\ steady' = None
      /\ up.pc = "compose"
      /\ node' \in [Routers -> UNION Range(Starts[files])]
      /\ \A r \in Routers : node'[r] \in Starts[files][r]
  BY DEF ComposeUp
<1>2. dash' = dash \/ dash'.last = 0
  BY DEF ComposeUp
<1>3. ASSUME NEW r \in Routers PROVE Shape(r, node'[r])
  <2>1. Starts[files][r] = {Started(files.configs[r], links, files.env[r], fault) :
                              links \in Attachments(r), fault \in Faults}
    BY DEF LabTyped, Starts
  <2>2. PICK links \in Attachments(r), fault \in Faults :
          node'[r] = Started(files.configs[r], links, files.env[r], fault)
    BY <1>1, <2>1
  <2> QED
    BY <2>2, StartedShape DEF LabTyped
<1>4. LabTyped'
  BY <1>1, <1>2, <1>3, LabAssumption DEF LabTyped, Shape
<1>5. Sessions'
  BY <1>1 DEF Sessions
<1>6. \/ up' = [up EXCEPT !.pc = IF Expected = {} THEN "nothingExpected" ELSE "wait"]
      \/ up' = [up EXCEPT !.pc = "composeFailed"]
      \/ up' = [up EXCEPT !.retried = TRUE]
  BY DEF ComposeUp
<1>7. NodeNames' = NodeNames /\ Expected' = Expected
  BY <1>1, SameFiles
<1>8. /\ up' \in UpType /\ up'.elapsed = up.elapsed
      /\ up'.pc \in {"compose", "composeFailed", "nothingExpected", "wait"}
      /\ up'.pc = "wait" => Expected # {}
  BY <1>1, <1>6 DEF UpInv, UpType
<1>9. up' \in UpType'
  BY <1>7, <1>8 DEF UpType
<1> QED
  BY <1>1, <1>4, <1>5, <1>7, <1>8, <1>9 DEF UpInv, Asked

LEMMA MeanwhileKeeps ==
  ASSUME LabTyped, Sessions, UpInv, Meanwhile
  PROVE  LabTyped' /\ Sessions' /\ UpInv' /\ up' = up
<1>1. /\ LabTyped' /\ Sessions' /\ files' = files /\ time' = time
      /\ steady' = None \/ steady' = steady \/ steady' = time
  BY EnvironmentKeeps DEF Meanwhile
<1>2. up' = up /\ (up.pc = "round" => seen' = seen \cup est')
  BY DEF Meanwhile
<1>3. /\ NodeNames' = NodeNames /\ Expected' = Expected
      /\ \A r : ExpectedOf(r)' = ExpectedOf(r)
  BY <1>1, SameFiles
<1>4. up' \in UpType'
  BY <1>2, <1>3 DEF UpInv, UpType
<1>5. up.elapsed \in Nat /\ time \in Nat /\ up.elapsed <= time /\ DEADLINE \in Nat
  BY DeadlineAssumption DEF UpInv, UpType, LabTyped
<1>6. Asked'
  <2>1. up.pc \in {"wait", "round", "sleep"} => Expected # {}
    BY DEF UpInv, Asked
  <2>2. ASSUME up.pc = "round"
        PROVE  /\ est' \subseteq seen'
               /\ up.all_ok => \A r \in NodeNames : r \in Range(up.left) \/ ExpectedOf(r) \subseteq seen'
               /\ steady' # None /\ steady' < DEADLINE /\ up.elapsed >= DEADLINE => up.all_ok
    BY <1>1, <1>2, <1>5, <2>2 DEF UpInv, Asked
  <2> QED
    BY <1>2, <1>3, <2>1, <2>2 DEF Asked
<1> QED
  BY <1>1, <1>2, <1>4, <1>6 DEF UpInv

LEMMA BeginRoundKeeps ==
  ASSUME LabTyped, Sessions, UpInv, BeginRound
  PROVE  LabTyped' /\ Sessions' /\ UpInv' /\ up'.pc = "round"
<1>1. /\ up.pc = "wait" /\ UNCHANGED labVars /\ seen' = est
      /\ up' = [up EXCEPT !.pc = "round", !.elapsed = time, !.all_ok = TRUE, !.left = node_names]
  BY DEF BeginRound
<1>2. LabTyped' /\ Sessions'
  BY <1>1, SameLab
<1>3. UNCHANGED <<files, est, time, steady>> /\ time \in Nat
  BY <1>1, DeadlineAssumption DEF labVars, LabTyped
<1>4. /\ up' \in UpType /\ up'.pc = "round" /\ up'.elapsed = time /\ up'.all_ok = TRUE
      /\ up'.left = node_names
  BY <1>1, <1>3, NamesInOrder DEF UpInv, UpType
<1>5. /\ NodeNames' = NodeNames /\ Expected' = Expected
      /\ \A r : ExpectedOf(r)' = ExpectedOf(r)
  BY <1>3, SameFiles
<1>6. up' \in UpType'
  BY <1>4, <1>5 DEF UpType
<1>7. Asked'
  BY <1>1, <1>3, <1>4, <1>5, NamesInOrder DEF UpInv, Asked
<1> QED
  BY <1>2, <1>3, <1>4, <1>6, <1>7 DEF UpInv

(* A router whose sessions are all Established runs, and says so.          *)
LEMMA AllUpIsSeen ==
  ASSUME LabTyped, Sessions, steady # None, NEW r \in NodeNames, NEW nested \in BOOLEAN,
         NEW raw \in vtysh_json(r, show_bgp_summary(r, nested))
  PROVE  SawAll(r, raw)
<1>1. r \in Routers /\ Conf(r) # None /\ files \in Files
  BY NodesAreRouters DEF LabTyped
<1>2. ExpectedOf(r) # {} /\ ExpectedOf(r) \subseteq est
  BY DEF Sessions, AllUp
<1>3. PICK n \in Range(neighbors_of(Conf(r))) : Session(n.ip) \in est
  BY <1>2 DEF ExpectedOf
<1>4. Opposite[n.ip] \in Attached[r]
  BY <1>1, FilesAssumption DEF Conf
<1>5. Session(n.ip) \cap Attached[r] # {}
  BY <1>4 DEF Session
<1>6. Running(r)
  BY <1>1, <1>3, <1>5, EndsRun
<1> QED
  BY <1>1, <1>2, <1>3, <1>5, <1>6, SawSays

LEMMA ReadNodeKeeps ==
  ASSUME LabTyped, Sessions, UpInv, ReadNode
  PROVE  LabTyped' /\ Sessions' /\ UpInv' /\ up'.pc = "round"
<1> DEFINE h == Head(up.left)
<1>1. up.pc = "round" /\ up.left # <<>> /\ UNCHANGED <<labVars, seen>>
  BY DEF ReadNode
<1>0. PICK nested \in BOOLEAN : \E raw \in vtysh_json(h, show_bgp_summary(h, nested)) :
        up' = [up EXCEPT !.left = Tail(@), !.all_ok = @ /\ SawAll(h, raw)]
  BY DEF ReadNode
<1>2. PICK raw \in vtysh_json(h, show_bgp_summary(h, nested)) :
        up' = [up EXCEPT !.left = Tail(@), !.all_ok = @ /\ SawAll(h, raw)]
  BY <1>0
<1>3. UNCHANGED <<files, est, time, steady>> /\ time \in Nat /\ files \in Files
  BY <1>1, DeadlineAssumption DEF labVars, LabTyped
<1>4. up.left \in Seq(NodeNames) /\ h \in NodeNames /\ Tail(up.left) \in Seq(NodeNames)
  BY <1>1 DEF UpInv, UpType
<1>5. Range(up.left) = {h} \cup Range(Tail(up.left))
  BY <1>1, <1>4, RangeOfTail
<1>6. /\ SawAll(h, raw) \in BOOLEAN
      /\ SawAll(h, raw) => ExpectedOf(h) \subseteq est
      /\ steady # None => SawAll(h, raw)
  BY <1>3, <1>4, SawSays, AllUpIsSeen
<1> DEFINE saw == SawAll(h, raw)
<1> HIDE DEF h, saw
<1>7. /\ up' \in UpType /\ up'.pc = "round" /\ up'.elapsed = up.elapsed
      /\ up'.left = Tail(up.left)
      /\ up'.all_ok = (up.all_ok /\ saw)
  BY <1>1, <1>2, <1>4, <1>6 DEF UpInv, UpType, saw
<1>8. /\ NodeNames' = NodeNames /\ Expected' = Expected
      /\ \A r : ExpectedOf(r)' = ExpectedOf(r)
  BY <1>3, SameFiles
<1>9. up' \in UpType'
  BY <1>7, <1>8 DEF UpType
<1>10. Asked'
  <2>1. up'.all_ok => \A r \in NodeNames : r \in Range(up'.left) \/ ExpectedOf(r) \subseteq seen
    BY <1>1, <1>5, <1>6, <1>7 DEF UpInv, Asked, saw
  <2>2. steady # None /\ steady < DEADLINE /\ up.elapsed >= DEADLINE => up'.all_ok
    BY <1>1, <1>6, <1>7 DEF UpInv, Asked, saw
  <2> QED
    BY <1>1, <1>3, <1>7, <1>8, <2>1, <2>2 DEF UpInv, Asked
<1>11. LabTyped' /\ Sessions'
  BY <1>1, SameLab
<1> QED
  BY <1>3, <1>7, <1>9, <1>10, <1>11 DEF UpInv

(* Both verdicts of up.sh.                                                 *)
LEMMA EndRoundKeeps ==
  ASSUME LabTyped, Sessions, UpInv, EndRound
  PROVE  /\ LabTyped' /\ Sessions' /\ UpInv'
         /\ up'.pc = "converged" => Expected # {} /\ Expected \subseteq seen
         /\ up'.pc = "gaveUp" => steady = None \/ steady >= DEADLINE
<1>1. /\ up.pc = "round" /\ up.left = <<>> /\ UNCHANGED <<labVars, seen>>
      /\ up' = [up EXCEPT !.pc = IF up.all_ok THEN "converged"
                                 ELSE IF up.elapsed >= DEADLINE THEN "gaveUp" ELSE "sleep"]
  BY DEF EndRound
<1>2. LabTyped' /\ Sessions'
  BY <1>1, SameLab
<1>3. UNCHANGED <<files, time>>
  BY <1>1 DEF labVars
<1>4. /\ up' \in UpType /\ up'.elapsed = up.elapsed
      /\ up'.pc = IF up.all_ok THEN "converged"
                  ELSE IF up.elapsed >= DEADLINE THEN "gaveUp" ELSE "sleep"
  BY <1>1 DEF UpInv, UpType
<1>5. NodeNames' = NodeNames /\ Expected' = Expected
  BY <1>3, SameFiles
<1>6. UpInv'
  BY <1>1, <1>3, <1>4, <1>5 DEF UpInv, UpType, Asked
<1>7. up.all_ok => Expected # {} /\ Expected \subseteq seen
  <2>1. Range(up.left) = {}
    BY <1>1 DEF Range
  <2> QED
    BY <1>1, <2>1 DEF UpInv, Asked, Expected
<1>8. ~ up.all_ok /\ up.elapsed >= DEADLINE => steady = None \/ steady >= DEADLINE
  BY <1>1, DeadlineAssumption DEF UpInv, Asked, Sessions
<1> QED
  BY <1>2, <1>4, <1>6, <1>7, <1>8

LEMMA SleepKeeps ==
  ASSUME LabTyped, Sessions, UpInv, Slept \/ Tick
  PROVE  LabTyped' /\ Sessions' /\ UpInv' /\ up'.pc \in {"wait", "round", "sleep"}
<1>1. CASE Slept
  <2>1. UNCHANGED <<labVars, seen>> /\ up.pc = "sleep" /\ up' = [up EXCEPT !.pc = "wait"]
    BY <1>1 DEF Slept
  <2>2. UNCHANGED <<files, time>> /\ NodeNames' = NodeNames /\ Expected' = Expected
    BY <2>1, SameFiles DEF labVars
  <2>3. up' \in UpType /\ up'.elapsed = up.elapsed /\ up'.pc = "wait"
    BY <2>1 DEF UpInv, UpType
  <2> QED
    BY <2>1, <2>2, <2>3, SameLab DEF UpInv, UpType, Asked
<1>2. CASE Tick
  <2>1. /\ UNCHANGED <<files, node, est, dash, trouble, steady, up, seen>>
        /\ time < MaxTime /\ time' = time + 1 /\ up.pc \in {"round", "sleep"}
    BY <1>2 DEF Tick, upVars
  <2>2. NodeNames' = NodeNames /\ Expected' = Expected /\ \A r : ExpectedOf(r)' = ExpectedOf(r)
    BY <2>1, SameFiles
  <2>3. LabTyped'
    BY <2>1, DeadlineAssumption DEF LabTyped, Shape
  <2>4. Sessions'
    BY <2>1, SameSessions
  <2>5. UpInv'
    BY <2>1, <2>2, DeadlineAssumption DEF UpInv, UpType, Asked, LabTyped
  <2> QED
    BY <2>1, <2>3, <2>4, <2>5
<1> QED
  BY <1>1, <1>2

-----------------------------------------------------------------------------
(* check.sh: each row that is printed is the next one owed.                *)
RowOf(k) == <<"routers", "sessions", "interfaces", "prefixes", "ready", "nodes", "history", "since">>[k]

Owes(n, printed) ==
  /\ printed \in Seq(Range(printed)) /\ Len(printed) = n
  /\ \A k \in 1 .. n : printed[k].what = RowOf(k)

(* The row to come, and how many were printed before it.                   *)
Standing(row, printed, last) ==
  \/ row \in {"idle", "running"} /\ Owes(0, printed)
  \/ row = "sessions" /\ Owes(1, printed)
  \/ row = "interfaces" /\ Owes(2, printed)
  \/ row = "prefixes" /\ Owes(3, printed)
  \/ row = "ready" /\ Owes(4, printed)
  \/ row = "nodes" /\ Owes(5, printed)
  \/ row = "history" /\ Owes(6, printed)
  \/ row = "since" /\ Owes(7, printed) /\ last # None
  \/ row = "exit" /\ Owes(7, printed) /\ last = None
  \/ row = "exit" /\ Owes(8, printed) /\ last # None

Holds(c, row, printed, raw, last) ==
  c = [row |-> row, printed |-> printed, dash_raw |-> raw, last_id |-> last]

Checking(row, printed, raw, last) ==
  /\ Holds(check, row, printed, raw, last)
  /\ last \in (0 .. MaxEventId) \cup {None}
  /\ Standing(row, printed, last)

CheckInv == \E row, printed, raw, last : Checking(row, printed, raw, last)

LEMMA OneMore ==
  ASSUME NEW n \in 0 .. 7, NEW printed, Owes(n, printed), NEW x, x.what = RowOf(n + 1)
  PROVE  Owes(n + 1, Append(printed, x))
<1> DEFINE A == Range(printed) \cup {x}
           longer == Append(printed, x)
<1>1. printed \in Seq(A)
  <2>1. printed = [k \in 1 .. n |-> printed[k]] /\ \A k \in 1 .. n : printed[k] \in A
    BY DEF Owes, Range
  <2> HIDE DEF A
  <2> QED
    BY <2>1
<1>2. longer \in Seq(A) /\ Range(longer) = A
  BY <1>1, RangeOfAppend
<1>3. Len(longer) = n + 1 /\ longer[n + 1] = x /\ \A k \in 1 .. n : longer[k] = printed[k]
  BY <1>1 DEF Owes
<1> HIDE DEF longer
<1>4. \A k \in 1 .. n + 1 : longer[k].what = RowOf(k)
  BY <1>3 DEF Owes
<1> QED
  BY <1>2, <1>3, <1>4 DEF Owes, longer

(* A row more leaves the rest of the record as it was, but for the fields set. *)
LEMMA PrintedIs ==
  ASSUME NEW row, NEW printed, NEW raw, NEW last, Holds(check, row, printed, raw, last),
         NEW what, NEW ok
  PROVE  Holds(Printed(what, ok), row, Append(printed, [what |-> what, ok |-> ok]), raw, last)
<1> DEFINE x == [what |-> what, ok |-> ok]
<1>1. Printed(what, ok) = [check EXCEPT !.printed = Append(@, x)]
  BY DEF Printed
<1> HIDE DEF x
<1>2. Printed(what, ok) = [row |-> row, printed |-> Append(printed, x), dash_raw |-> raw, last_id |-> last]
  BY <1>1 DEF Holds
<1> QED
  BY <1>2 DEF x, Holds

LEMMA FieldsSet ==
  ASSUME NEW a, NEW b, NEW c, NEW d, NEW x, NEW y, NEW old, Holds(old, a, b, c, d)
  PROVE  /\ Holds([old EXCEPT !.row = x], x, b, c, d)
         /\ Holds([old EXCEPT !.row = x, !.dash_raw = y], x, b, y, d)
         /\ Holds([old EXCEPT !.row = x, !.last_id = y], x, b, c, y)
<1> DEFINE mid == [old EXCEPT !.row = x]
<1>1. mid = [row |-> x, printed |-> b, dash_raw |-> c, last_id |-> d]
  BY DEF Holds
<1>2. /\ [old EXCEPT !.row = x, !.dash_raw = y] = [mid EXCEPT !.dash_raw = y]
      /\ [old EXCEPT !.row = x, !.last_id = y] = [mid EXCEPT !.last_id = y]
  OBVIOUS
<1> HIDE DEF mid
<1>3. /\ Holds(mid, x, b, c, d)
      /\ Holds([mid EXCEPT !.dash_raw = y], x, b, y, d)
      /\ Holds([mid EXCEPT !.last_id = y], x, b, c, y)
  BY <1>1 DEF Holds
<1> QED
  BY <1>2, <1>3, Zenon DEF mid

LEMMA RowPrints ==
  ASSUME NEW row, NEW printed, NEW raw, NEW last, Holds(check, row, printed, raw, last),
         NEW what, NEW ok, NEW next, Row(what, ok, next)
  PROVE  Holds(check', next, Append(printed, [what |-> what, ok |-> ok]), raw, last)
<1>1. check' = [Printed(what, ok) EXCEPT !.row = next]
  BY Zenon DEF Row
<1>2. Holds(Printed(what, ok), row, Append(printed, [what |-> what, ok |-> ok]), raw, last)
  BY PrintedIs
<1> QED
  BY <1>1, <1>2, FieldsSet, Zenon

LEMMA RawPrints ==
  ASSUME NEW row, NEW printed, NEW raw, NEW last, Holds(check, row, printed, raw, last),
         NEW what, NEW ok, NEW next, NEW new,
         check' = [Printed(what, ok) EXCEPT !.row = next, !.dash_raw = new]
  PROVE  Holds(check', next, Append(printed, [what |-> what, ok |-> ok]), new, last)
<1>1. Holds(Printed(what, ok), row, Append(printed, [what |-> what, ok |-> ok]), raw, last)
  BY PrintedIs
<1> QED
  BY <1>1, FieldsSet, Zenon

LEMMA LastPrints ==
  ASSUME NEW row, NEW printed, NEW raw, NEW last, Holds(check, row, printed, raw, last),
         NEW what, NEW ok, NEW next, NEW new,
         check' = [Printed(what, ok) EXCEPT !.row = next, !.last_id = new]
  PROVE  Holds(check', next, Append(printed, [what |-> what, ok |-> ok]), raw, new)
<1>1. Holds(Printed(what, ok), row, Append(printed, [what |-> what, ok |-> ok]), raw, last)
  BY PrintedIs
<1> QED
  BY <1>1, FieldsSet, Zenon

LEMMA CheckingAt ==
  ASSUME CheckInv
  PROVE  \E printed, raw, last : Checking(check.row, printed, raw, last)
<1>1. PICK row, printed, raw, last : Checking(row, printed, raw, last)
  BY DEF CheckInv
<1>2. check.row = row
  BY <1>1 DEF Checking, Holds
<1> QED
  BY <1>1, <1>2

(* A row that is printed: which it is, and which comes after it.           *)
RowStep(row, what, next) ==
  /\ check.row = row /\ UNCHANGED <<labVars, upVars>>
  /\ \E ok, raw : \/ Row(what, ok, next)
                  \/ check' = [Printed(what, ok) EXCEPT !.row = next, !.dash_raw = raw]

LEMMA RowStepIs ==
  ASSUME CheckScript
  PROVE  \/ RowStep("running", "routers", "sessions")
         \/ RowStep("sessions", "sessions", "interfaces")
         \/ RowStep("interfaces", "interfaces", "prefixes")
         \/ RowStep("prefixes", "prefixes", "ready")
         \/ RowStep("ready", "ready", "nodes")
         \/ RowStep("nodes", "nodes", "history")
         \/ CheckHistory
         \/ RowStep("since", "since", "exit")
<1>1. CheckRunning => RowStep("running", "routers", "sessions")
  BY Zenon DEF CheckRunning, RowStep, Looking
<1>2. CheckSessions => RowStep("sessions", "sessions", "interfaces")
  BY Zenon DEF CheckSessions, RowStep, Looking
<1>3. CheckInterfaces => RowStep("interfaces", "interfaces", "prefixes")
  BY Zenon DEF CheckInterfaces, RowStep, Looking
<1>4. CheckPrefixes => RowStep("prefixes", "prefixes", "ready")
  BY Zenon DEF CheckPrefixes, RowStep, Looking
<1>5. CheckReady => RowStep("ready", "ready", "nodes")
  BY Zenon DEF CheckReady, RowStep, Looking
<1>6. CheckNodes => RowStep("nodes", "nodes", "history")
  BY Zenon DEF CheckNodes, RowStep, Looking
<1>7. CheckSince => RowStep("since", "since", "exit")
  BY Zenon DEF CheckSince, RowStep, Looking
<1> QED
  BY <1>1, <1>2, <1>3, <1>4, <1>5, <1>6, <1>7 DEF CheckScript

LEMMA CheckingNext ==
  ASSUME NEW row, NEW printed, NEW raw, NEW last, Holds(check', row, printed, raw, last),
         last \in (0 .. MaxEventId) \cup {None}, Standing(row, printed, last)
  PROVE  CheckInv'
<1>1. \E w, p, r, l : /\ Holds(check', w, p, r, l)
                      /\ l \in (0 .. MaxEventId) \cup {None} /\ Standing(w, p, l)
  BY Zenon
<1> QED
  BY <1>1, Zenon DEF CheckInv, Checking, Standing, Owes

LEMMA RowStepKeeps ==
  ASSUME CheckInv, NEW n \in 0 .. 7, NEW row, NEW next, RowStep(row, RowOf(n + 1), next),
         \A printed, last : Standing(row, printed, last) => Owes(n, printed),
         \A printed, longer, last :
           Standing(row, printed, last) /\ Owes(n + 1, longer) => Standing(next, longer, last)
  PROVE  CheckInv'
<1>1. PICK printed, raw, last : Checking(row, printed, raw, last)
  BY CheckingAt DEF RowStep
<1>2. PICK ok, newRaw :
        \/ Row(RowOf(n + 1), ok, next)
        \/ check' = [Printed(RowOf(n + 1), ok) EXCEPT !.row = next, !.dash_raw = newRaw]
  BY Zenon DEF RowStep
<1> DEFINE x == [what |-> RowOf(n + 1), ok |-> ok]
           longer == Append(printed, x)
<1>3. Owes(n + 1, longer)
  BY <1>1, OneMore DEF Checking
<1>4. Standing(next, longer, last)
  BY <1>1, <1>3 DEF Checking
<1>5. \E r : Holds(check', next, longer, r, last)
  <2>1. Holds(check, row, printed, raw, last)
    BY <1>1 DEF Checking
  <2>2. CASE Row(RowOf(n + 1), ok, next)
    BY <2>1, <2>2, RowPrints, Zenon
  <2>3. CASE check' = [Printed(RowOf(n + 1), ok) EXCEPT !.row = next, !.dash_raw = newRaw]
    BY <2>1, <2>3, RawPrints, Zenon
  <2> QED
    BY <1>2, <2>2, <2>3
<1> HIDE DEF longer
<1>6. PICK r : Holds(check', next, longer, r, last)
  BY <1>5
<1> QED
  BY <1>1, <1>4, <1>6, CheckingNext DEF Checking

(* The call before the last row leaves an id for it, or ends the script.   *)
LEMMA HistoryKeeps ==
  ASSUME LabTyped, CheckInv, CheckHistory
  PROVE  CheckInv'
<1> DEFINE raw == curl(IF dash = None THEN None ELSE api_events(0))
           after == AfterHistory(raw)
<1>1. PICK printed, old, last : Checking("history", printed, old, last)
  BY CheckingAt DEF CheckHistory, Looking
<1>2. PICK ok : check' = [Printed("history", ok) EXCEPT !.row = after.row, !.last_id = after.last_id]
  BY Zenon DEF CheckHistory
<1>3. \/ raw = Dead
      \/ raw = Answer(None)
      \/ dash # None /\ raw = Answer(api_events(0))
  BY DEF curl
<1>4. dash # None => api_events(0).lastId \in 0 .. MaxEventId
  BY DEF api_events, EventsOf, LabTyped
<1>5. \/ after.row = "exit" /\ after.last_id = None
      \/ after.row = "since" /\ after.last_id \in 0 .. MaxEventId
  <2> HIDE DEF raw
  <2> QED
    BY <1>3, <1>4, LabAssumption DEF AfterHistory, Answer, Dead
<1> HIDE DEF after
<1> DEFINE longer == Append(printed, [what |-> "history", ok |-> ok])
<1>6. Owes(6, printed)
  BY <1>1 DEF Checking, Standing
<1>7. Owes(7, longer)
  <2>1. RowOf(6 + 1) = "history" /\ 6 \in 0 .. 7
    BY DEF RowOf
  <2>2. Owes(6 + 1, longer)
    BY <1>6, <2>1, OneMore
  <2> QED
    BY <2>2
<1>8. PICK to, id : to = after.row /\ id = after.last_id
  OBVIOUS
<1>9. Holds(check', to, longer, old, id)
  BY <1>1, <1>2, <1>8, LastPrints, Zenon DEF Checking
<1> HIDE DEF longer
<1>10. Standing(to, longer, id) /\ id \in (0 .. MaxEventId) \cup {None}
  BY <1>5, <1>7, <1>8, LabAssumption DEF Standing
<1> QED
  BY <1>9, <1>10, CheckingNext

LEMMA SameCheck ==
  ASSUME CheckInv, check' = check
  PROVE  CheckInv'
<1>1. PICK row, printed, raw, last : Checking(row, printed, raw, last)
  BY DEF CheckInv
<1> QED
  BY <1>1, CheckingNext DEF Checking

LEMMA CheckScriptKeeps ==
  ASSUME LabTyped, CheckInv, CheckScript
  PROVE  CheckInv'
<1>1. /\ RowOf(0 + 1) = "routers" /\ RowOf(1 + 1) = "sessions" /\ RowOf(2 + 1) = "interfaces"
      /\ RowOf(3 + 1) = "prefixes" /\ RowOf(4 + 1) = "ready" /\ RowOf(5 + 1) = "nodes"
      /\ RowOf(7 + 1) = "since"
      /\ {0, 1, 2, 3, 4, 5, 7} \subseteq 0 .. 7
  BY DEF RowOf
<1>2. /\ 0 + 1 = 1 /\ 1 + 1 = 2 /\ 2 + 1 = 3 /\ 3 + 1 = 4 /\ 4 + 1 = 5 /\ 5 + 1 = 6 /\ 7 + 1 = 8
  OBVIOUS
<1>3. CASE RowStep("running", "routers", "sessions")
  <2>1. /\ \A printed, last : Standing("running", printed, last) => Owes(0, printed)
        /\ \A printed, longer, last :
             Standing("running", printed, last) /\ Owes(0 + 1, longer) => Standing("sessions", longer, last)
    BY <1>2 DEF Standing
  <2> QED
    BY <1>1, <1>3, <2>1, RowStepKeeps
<1>4. CASE RowStep("sessions", "sessions", "interfaces")
  <2>1. /\ \A printed, last : Standing("sessions", printed, last) => Owes(1, printed)
        /\ \A printed, longer, last :
             Standing("sessions", printed, last) /\ Owes(1 + 1, longer) => Standing("interfaces", longer, last)
    BY <1>2 DEF Standing
  <2> QED
    BY <1>1, <1>4, <2>1, RowStepKeeps
<1>5. CASE RowStep("interfaces", "interfaces", "prefixes")
  <2>1. /\ \A printed, last : Standing("interfaces", printed, last) => Owes(2, printed)
        /\ \A printed, longer, last :
             Standing("interfaces", printed, last) /\ Owes(2 + 1, longer) => Standing("prefixes", longer, last)
    BY <1>2 DEF Standing
  <2> QED
    BY <1>1, <1>5, <2>1, RowStepKeeps
<1>6. CASE RowStep("prefixes", "prefixes", "ready")
  <2>1. /\ \A printed, last : Standing("prefixes", printed, last) => Owes(3, printed)
        /\ \A printed, longer, last :
             Standing("prefixes", printed, last) /\ Owes(3 + 1, longer) => Standing("ready", longer, last)
    BY <1>2 DEF Standing
  <2> QED
    BY <1>1, <1>6, <2>1, RowStepKeeps
<1>7. CASE RowStep("ready", "ready", "nodes")
  <2>1. /\ \A printed, last : Standing("ready", printed, last) => Owes(4, printed)
        /\ \A printed, longer, last :
             Standing("ready", printed, last) /\ Owes(4 + 1, longer) => Standing("nodes", longer, last)
    BY <1>2 DEF Standing
  <2> QED
    BY <1>1, <1>7, <2>1, RowStepKeeps
<1>8. CASE RowStep("nodes", "nodes", "history")
  <2>1. /\ \A printed, last : Standing("nodes", printed, last) => Owes(5, printed)
        /\ \A printed, longer, last :
             Standing("nodes", printed, last) /\ Owes(5 + 1, longer) => Standing("history", longer, last)
    BY <1>2 DEF Standing
  <2> QED
    BY <1>1, <1>8, <2>1, RowStepKeeps
<1>9. CASE RowStep("since", "since", "exit")
  <2>1. /\ \A printed, last : Standing("since", printed, last) => Owes(7, printed)
        /\ \A printed, longer, last :
             Standing("since", printed, last) /\ Owes(7 + 1, longer) => Standing("exit", longer, last)
    BY <1>2 DEF Standing
  <2> QED
    BY <1>1, <1>9, <2>1, RowStepKeeps
<1> QED
  BY <1>3, <1>4, <1>5, <1>6, <1>7, <1>8, <1>9, RowStepIs, HistoryKeeps

-----------------------------------------------------------------------------
IInv == LabTyped /\ Sessions /\ UpInv /\ CheckInv

(* up.sh has ended: nothing of what it kept is needed any more.            *)
LEMMA BeginKeeps ==
  ASSUME IInv, Begin
  PROVE  IInv' /\ up'.pc = up.pc
<1>1. /\ check.row = "idle" /\ UpEnded
      /\ check' = [check EXCEPT !.row = "running"]
      /\ time' = 0 /\ steady' = None
      /\ up' = [up EXCEPT !.elapsed = 0, !.all_ok = TRUE, !.left = <<>>]
      /\ UNCHANGED <<files, node, est, dash, trouble>>
  BY DEF Begin
<1>2. LabTyped'
  BY <1>1, DeadlineAssumption DEF IInv, LabTyped, Shape
<1>3. Sessions'
  BY <1>1, SameSessions DEF IInv
<1>4. NodeNames' = NodeNames
  BY <1>1, SameFiles
<1>5. up' \in UpType /\ up'.elapsed = 0 /\ up'.pc = up.pc
  <2>1. \A b \in BOOLEAN, left \in Seq(NodeNames) :
          LET to == [[[up EXCEPT !.elapsed = 0] EXCEPT !.all_ok = b] EXCEPT !.left = left]
          IN  to \in UpType /\ to.elapsed = 0 /\ to.pc = up.pc
    BY DEF IInv, UpInv, UpType
  <2>2. up' = [[[up EXCEPT !.elapsed = 0] EXCEPT !.all_ok = TRUE] EXCEPT !.left = <<>>]
    BY <1>1, Zenon
  <2>3. TRUE \in BOOLEAN /\ <<>> \in Seq(NodeNames)
    OBVIOUS
  <2> QED
    BY <2>1, <2>2, <2>3, Zenon
<1>6. UpInv'
  BY <1>1, <1>4, <1>5 DEF UpInv, UpType, Asked, UpEnded
<1>7. CheckInv'
  <2>1. PICK printed, raw, last : Checking("idle", printed, raw, last)
    BY <1>1, CheckingAt DEF IInv
  <2>2. Holds(check', "running", printed, raw, last)
    BY <1>1, <2>1, FieldsSet, Zenon DEF Checking
  <2>3. Standing("running", printed, last)
    BY <2>1 DEF Checking, Standing
  <2> QED
    BY <2>1, <2>2, <2>3, CheckingNext DEF Checking
<1> QED
  BY <1>2, <1>3, <1>5, <1>6, <1>7 DEF IInv

LEMMA SameUp ==
  ASSUME LabTyped, Sessions, UpInv, UNCHANGED <<labVars, upVars>>
  PROVE  LabTyped' /\ Sessions' /\ UpInv'
<1>1. UNCHANGED labVars /\ UNCHANGED <<files, time, steady, est, up, seen>>
  BY DEF labVars, upVars
<1>2. LabTyped' /\ Sessions'
  BY <1>1, SameLab
<1>3. NodeNames' = NodeNames /\ Expected' = Expected /\ \A r : ExpectedOf(r)' = ExpectedOf(r)
  BY <1>1, SameFiles
<1> QED
  BY <1>1, <1>2, <1>3 DEF UpInv, UpType, Asked

(* Every step keeps the invariant, and says what its verdict rests on.     *)
Verdict ==
  /\ up'.pc = "converged" /\ up.pc # "converged" => Expected # {} /\ Expected \subseteq seen
  /\ up'.pc = "gaveUp" /\ up.pc # "gaveUp" => steady = None \/ steady >= DEADLINE

LEMMA NextKeeps ==
  ASSUME IInv, [Next]_vars
  PROVE  IInv' /\ Verdict
<1>1. CASE UNCHANGED vars
  <2>1. UNCHANGED <<labVars, upVars>> /\ check' = check /\ up' = up
    BY <1>1 DEF vars, upVars
  <2> QED
    BY <2>1, SameUp, SameCheck DEF IInv, Verdict
<1>2. CASE UpScript /\ UNCHANGED check
  <2>1. CheckInv'
    BY <1>2, SameCheck DEF IInv
  <2>2. CASE ComposeUp
    BY <2>1, <2>2, ComposeKeeps DEF IInv, Verdict
  <2>3. CASE BeginRound
    BY <2>1, <2>3, BeginRoundKeeps DEF IInv, Verdict
  <2>4. CASE ReadNode
    BY <2>1, <2>4, ReadNodeKeeps DEF IInv, Verdict
  <2>5. CASE EndRound
    BY <2>1, <2>5, EndRoundKeeps DEF IInv, Verdict
  <2>6. CASE Slept
    BY <2>1, <2>6, SleepKeeps DEF IInv, Verdict
  <2> QED
    BY <1>2, <2>2, <2>3, <2>4, <2>5, <2>6 DEF UpScript, OwnStep
<1>3. CASE Tick /\ UNCHANGED check
  BY <1>3, SameCheck, SleepKeeps DEF IInv, Verdict
<1>4. CASE Meanwhile /\ UNCHANGED check
  BY <1>4, SameCheck, MeanwhileKeeps DEF IInv, Verdict
<1>5. CASE Begin
  BY <1>5, BeginKeeps DEF Verdict
<1>6. CASE CheckScript
  <2>1. UNCHANGED <<labVars, upVars>>
    BY <1>6 DEF CheckScript, CheckRunning, CheckSessions, CheckInterfaces, CheckPrefixes,
                CheckReady, CheckNodes, CheckHistory, CheckSince, Looking
  <2>2. up' = up
    BY <2>1 DEF upVars
  <2> QED
    BY <1>6, <2>1, <2>2, SameUp, CheckScriptKeeps DEF IInv, Verdict
<1> QED
  BY <1>1, <1>2, <1>3, <1>4, <1>5, <1>6 DEF Next

LEMMA InitHolds ==
  ASSUME Init
  PROVE  IInv
<1>1. LabTyped
  BY LabAssumption, DeadlineAssumption DEF Init, LabInit, LabTyped
<1>2. Sessions
  BY DEF Init, LabInit, Sessions
<1>3. UpInv
  BY DEF Init, LabInit, UpInit, UpInv, UpType, Asked
<1>4. CheckInv
  <2>1. Holds(check, "idle", <<>>, Dead, None)
    BY DEF Init, Holds
  <2>2. Standing("idle", <<>>, None)
    BY DEF Standing, Owes, Range
  <2> QED
    BY <2>1, <2>2 DEF CheckInv, Checking
<1> QED
  BY <1>1, <1>2, <1>3, <1>4 DEF IInv

LEMMA IInvAlways == Spec => []IInv
<1>1. Init => IInv
  BY InitHolds
<1>2. IInv /\ [Next]_vars => IInv'
  BY NextKeeps
<1> QED
  BY <1>1, <1>2, PTL DEF Spec

(* The variables hold what the scripts and the lab give them.              *)
THEOREM TypeCorrect == Spec => []TypeOK
<1>1. IInv => TypeOK
  <2> SUFFICES ASSUME IInv PROVE TypeOK
    OBVIOUS
  <2>1. PICK row, printed, raw, last : Checking(row, printed, raw, last)
    BY DEF IInv, CheckInv
  <2>2. check.last_id \in (0 .. MaxEventId) \cup {None}
    BY <2>1 DEF Checking, Holds
  <2>3. up.elapsed \in 0 .. time
    BY DEF IInv, UpInv, UpType, LabTyped
  <2>4. est \subseteq Possible
    BY DEF IInv, Sessions
  <2>5. \A r \in Routers : node[r] = None \/ node[r].agent \in {"none", "exits", "listens"}
    BY DEF IInv, LabTyped, Shape
  <2> QED
    BY <2>2, <2>3, <2>4, <2>5 DEF IInv, LabTyped, TypeOK
<1> QED
  BY <1>1, IInvAlways, PTL

(* up.sh says "converged" of a lab only when each expected session was seen *)
(* Established at some moment of its last round.                            *)
THEOREM ConvergedAlwaysWasSeen == Spec => ConvergedWasSeen
<1>1. IInv /\ [Next]_vars => [up'.pc = "converged" /\ up.pc # "converged"
                                => Expected # {} /\ Expected \subseteq seen]_up
  BY NextKeeps DEF Verdict
<1> QED
  BY <1>1, IInvAlways, PTL DEF Spec, ConvergedWasSeen

(* up.sh never gives up a lab whose sessions have all been up since before *)
(* the deadline, however long its last round took.                         *)
THEOREM AlwaysGivesUpHonestly == Spec => GivesUpHonestly
<1>1. IInv /\ [Next]_vars => [up'.pc = "gaveUp" /\ up.pc # "gaveUp"
                                => steady = None \/ steady >= DEADLINE]_up
  BY NextKeeps DEF Verdict
<1> QED
  BY <1>1, IInvAlways, PTL DEF Spec, GivesUpHonestly

(* A container is as its start left it, but that it may have exited.       *)
Made ==
  \A r \in Routers : node[r] # None /\ Conf(r) # None =>
    /\ LinksRight(r, Conf(r), node[r].died, node[r].faulty, node[r].links)
    /\ node[r].frr => ~ node[r].died

LEMMA MadeStays ==
  ASSUME NamesLinks, LabTyped, Made, [Next]_vars
  PROVE  Made'
<1>1. CASE UNCHANGED <<files, node>>
  BY <1>1 DEF Made, Conf, LinksRight
<1>2. CASE ComposeUp
  <2> SUFFICES ASSUME NEW r \in Routers, Conf(r) # None
               PROVE  /\ LinksRight(r, Conf(r), node'[r].died, node'[r].faulty, node'[r].links)
                      /\ node'[r].frr => ~ node'[r].died
    BY <1>2 DEF ComposeUp, Made, Conf, LinksRight
  <2>1. Starts[files][r] = {Started(files.configs[r], links, files.env[r], fault) :
                              links \in Attachments(r), fault \in Faults}
    BY DEF LabTyped, Starts
  <2>2. PICK links \in Attachments(r), fault \in Faults :
          node'[r] = Started(files.configs[r], links, files.env[r], fault)
    BY <1>2, <2>1 DEF ComposeUp
  <2> QED
    BY <2>2, StartedRight DEF LabTyped, Conf
<1>3. CASE RouterExits
  <2>1. PICK r \in Routers :
          Running(r) /\ node' = [node EXCEPT ![r].frr = FALSE, ![r].agent = "none"]
    BY <1>3 DEF RouterExits
  <2>2. files' = files
    BY <1>3 DEF RouterExits
  <2>3. node = [q \in Routers |-> node[q]] /\ Shape(r, node[r])
    BY <2>1 DEF LabTyped, Running
  <2> DEFINE c == [[node[r] EXCEPT !.frr = FALSE] EXCEPT !.agent = "none"]
  <2>4. node' = [node EXCEPT ![r] = c]
    BY <2>1, <2>3
  <2>5. /\ c.died = node[r].died /\ c.faulty = node[r].faulty /\ c.links = node[r].links
        /\ c.frr = FALSE
    BY <2>3 DEF Shape
  <2> HIDE DEF c
  <2>6. \A q \in Routers : node'[q] = IF q = r THEN c ELSE node[q]
    BY <2>3, <2>4
  <2>7. ASSUME NEW q \in Routers, node'[q] # None, Conf(q)' # None
        PROVE  /\ LinksRight(q, Conf(q)', node'[q].died, node'[q].faulty, node'[q].links)
               /\ node'[q].frr => ~ node'[q].died
    <3>1. Conf(q)' = Conf(q)
      BY <2>2 DEF Conf
    <3>2. CASE q = r
      BY <2>1, <2>5, <2>6, <2>7, <3>1, <3>2 DEF Made, Running
    <3>3. CASE q # r
      BY <2>6, <2>7, <3>1, <3>3 DEF Made
    <3> QED
      BY <3>2, <3>3
  <2> QED
    BY <2>7 DEF Made
<1> QED
  BY <1>1, <1>2, <1>3 DEF Next, vars, labVars, UpScript, OwnStep, BeginRound, ReadNode, EndRound, Slept, Tick,
       Meanwhile, Environment, Establish, Lose, DashPolls, DashRestarts, PortChanges, Begin,
       CheckScript, CheckRunning, CheckSessions, CheckInterfaces, CheckPrefixes, CheckReady,
       CheckNodes, CheckHistory, CheckSince, Looking

(* Whatever order compose attached the networks in and whatever command    *)
(* failed, a router that runs has its addresses where its configuration    *)
(* names them, if the configuration leaves the script its own names.       *)
THEOREM LinksAlwaysAsConfigured == NamesLinks => (Spec => []LinksAsConfigured)
<1> SUFFICES ASSUME NamesLinks PROVE Spec => []LinksAsConfigured
  OBVIOUS
<1>1. Init => Made
  BY DEF Init, LabInit, Made
<1>2. IInv /\ Made /\ [Next]_vars => Made'
  BY MadeStays DEF IInv
<1>3. Made => LinksAsConfigured
  BY DEF Made, LinksAsConfigured, LinksRight, Running
<1> QED
  BY <1>1, <1>2, <1>3, IInvAlways, PTL DEF Spec

-----------------------------------------------------------------------------
(* What the rows are about, of the lab as it stands.                       *)
RoutersRun == \A r \in Range(Nodes) : r \in Routers /\ Running(r)

SessionsStand ==
  /\ Expected # {}
  /\ \A r \in NodeNames : \A n \in Range(neighbors_of(Conf(r))) : Running(r) /\ Session(n.ip) \in est

AddressesSit ==
  /\ \E r \in NodeNames : ifaces_of(Conf(r)) # <<>>
  /\ \A r \in NodeNames : \A w \in Range(ifaces_of(Conf(r))) :
       Running(r) /\ [name |-> w.iface, addr |-> w.addr] \in node[r].links

LookedFor ==
  {a \in NodeNames \X (Range(Nodes) \ Isps) : a[1] # a[2] /\ originated_of(Conf(a[1])) # <<>>}

Knows(r, p) == r \in Routers /\ Running(r) /\ p \in DOMAIN RoutesOf(files, Heard(r))

PrefixesKnown ==
  LookedFor # {} /\ \A a \in LookedFor : \A p \in Range(originated_of(Conf(a[1]))) : Knows(a[2], p)

(* The AS numbers the dashboard has read and those the configurations tell, *)
(* of the routers in the order of each.                                     *)
ReadASNs == [k \in DOMAIN Listed(files) |-> dash.asn[Listed(files)[k]]]

ToldASNs == [k \in DOMAIN Nodes |-> IF Nodes[k] \in NodeNames THEN asn_of(Conf(Nodes[k])) ELSE None]

Answers == dash # None /\ web = "dashboard"

NamesTold == Answers /\ dashboard(StateOf(files, dash.asn), FALSE, Nodes, WantedASNs) = 0

HasRead == Answers /\ \E r \in Routers : dash.asn[r] # None

(* The dashboard was started after every router, has the AS numbers of the *)
(* configurations or none, and records an event when it has read them.     *)
DashRight ==
  /\ web \in {"dead", "html", "dashboard"}
  /\ dash # None =>
       /\ \A r \in Routers : Conf(r) # None /\ dash.asn[r] \in {None, asn_of(Conf(r))}
       /\ dash.asn = [r \in Routers |-> dash.asn[r]]
       /\ dash.last = 0 => \A r \in Routers : dash.asn[r] = None

(* Of a lab that did not change, each row that is printed tells what it is *)
(* about; the first call about events leaves an id the second can ask for.  *)
Tells(printed) ==
  /\ 1 \in DOMAIN printed => (printed[1].ok <=> RoutersRun)
  /\ 2 \in DOMAIN printed => (printed[2].ok <=> SessionsStand)
  /\ 3 \in DOMAIN printed => (printed[3].ok <=> AddressesSit)
  /\ 4 \in DOMAIN printed => (printed[4].ok <=> PrefixesKnown)
  /\ 5 \in DOMAIN printed => (printed[5].ok <=> Answers)
  /\ 6 \in DOMAIN printed => (printed[6].ok <=> NamesTold)

TellsEvents(printed, last) ==
  /\ 7 \in DOMAIN printed /\ HasRead => printed[7].ok /\ last \in 1 .. dash.last
  /\ 8 \in DOMAIN printed /\ HasRead /\ dash.last < last + EVENTS_RING => printed[8].ok

Telling ==
  /\ DashRight
  /\ check.row # "idle" => UpEnded
  /\ check.row # "idle" /\ calm =>
       /\ Tells(check.printed) /\ TellsEvents(check.printed, check.last_id)
       /\ check.row = "nodes" => check.dash_raw = curl(IF dash = None THEN None ELSE api_state)

-----------------------------------------------------------------------------
(* What check.sh wants of the dashboard, and what the dashboard lists.     *)
LEMMA FirstIsLeast ==
  ASSUME NEW I \in SUBSET Nat, I # {}
  PROVE  Min(I) \in I /\ \A i \in I : Min(I) <= i
BY Least DEF Min

LEMMA PartIs ==
  ASSUME NEW A, NEW seq \in Seq(A), NEW m \in Nat, NEW n \in Nat, n <= Len(seq), m <= n
  PROVE  /\ SubSeq(seq, m + 1, n) \in Seq(A)
         /\ Len(SubSeq(seq, m + 1, n)) = n - m
         /\ \A k \in 1 .. n - m : SubSeq(seq, m + 1, n)[k] = seq[m + k]
OBVIOUS

LEMMA NodesListed ==
  ASSUME NEW f \in Files, NEW names, names = topology_nodes(f.topology)
  PROVE  names \in Seq(Range(names))
<1> DEFINE lines == f.topology
           A == Range(lines)
           nodesAt == {i \in 1 .. Len(lines) : lines[i].kind = "nodes"}
           start == IF nodesAt # {} THEN Min(nodesAt) ELSE 0
           after == SubSeq(lines, start + 1, Len(lines))
           keysAt == {i \in 1 .. Len(after) : after[i].kind = "key"}
           end == IF keysAt # {} THEN Min(keysAt) ELSE 0
           inside == IF start = 0 THEN <<>> ELSE IF end = 0 THEN after ELSE SubSeq(after, 1, end - 1)
           S == {l \in Range(inside) : l.kind = "node" /\ l.value # "dashboard"}
           nodes == Select(inside, S)
<1>1. names = [k \in DOMAIN nodes |-> nodes[k].value]
  BY DEF topology_nodes, SelectInSeq
<1>2. lines \in Seq(A) /\ Len(lines) \in Nat
  BY FilesAssumption
<1>3. start \in 0 .. Len(lines)
  <2>1. nodesAt \in SUBSET Nat /\ \A i \in nodesAt : i <= Len(lines)
    BY <1>2
  <2> HIDE DEF nodesAt
  <2>2. nodesAt # {} => Min(nodesAt) \in nodesAt
    BY <2>1, FirstIsLeast
  <2> DEFINE n == Len(lines)
             first == Min(nodesAt)
  <2>3. n \in Nat /\ (nodesAt # {} => first \in Nat /\ first <= n)
    BY <1>2, <2>1, <2>2
  <2> HIDE DEF n, first
  <2>4. (IF nodesAt # {} THEN first ELSE 0) \in 0 .. n
    BY <2>3
  <2> QED
    BY <2>4 DEF n, first
<1> HIDE DEF start, lines, A
<1>4. after \in Seq(A) /\ Len(after) \in Nat
  BY <1>2, <1>3, PartIs
<1> HIDE DEF after
<1>5. end \in 0 .. Len(after)
  <2>1. keysAt \in SUBSET Nat /\ \A i \in keysAt : i <= Len(after)
    BY <1>4
  <2> HIDE DEF keysAt
  <2>2. keysAt # {} => Min(keysAt) \in keysAt
    BY <2>1, FirstIsLeast
  <2> DEFINE n == Len(after)
             first == Min(keysAt)
  <2>3. n \in Nat /\ (keysAt # {} => first \in Nat /\ first <= n)
    BY <1>4, <2>1, <2>2
  <2> HIDE DEF n, first
  <2>4. (IF keysAt # {} THEN first ELSE 0) \in 0 .. n
    BY <2>3
  <2> QED
    BY <2>4 DEF n, first
<1> HIDE DEF end
<1>6. inside \in Seq(A)
  <2>1. end # 0 => SubSeq(after, 0 + 1, end - 1) \in Seq(A)
    BY <1>4, <1>5, PartIs
  <2> QED
    BY <1>4, <2>1
<1> HIDE DEF inside, S
<1>7. nodes \in Seq(A)
  BY <1>6, SelectIs
<1> HIDE DEF nodes
<1> DEFINE n == Len(nodes)
<1>8. n \in Nat /\ DOMAIN nodes = 1 .. n
  BY <1>7
<1> HIDE DEF n
<1>9. names = [k \in 1 .. n |-> names[k]] /\ \A k \in 1 .. n : names[k] \in Range(names)
  BY <1>1, <1>8 DEF Range
<1> QED
  BY <1>8, <1>9

LEMMA ListedIs ==
  ASSUME NEW f \in Files, NEW names, names = topology_nodes(f.topology)
  PROVE  /\ Listed(f) \in Seq(Routers) /\ Routers \subseteq Range(Listed(f))
         /\ Range(names) = Routers => Listed(f) = names
<1> DEFINE named == Select(names, Routers)
           S == Routers \ Range(named)
           rest == Select(Alphabetical, S)
           all == named \o rest
<1>1. Listed(f) = all
  BY DEF Listed
<1>2. names \in Seq(Range(names))
  BY NodesListed
<1>3. named \in Seq(Range(names)) /\ Range(named) = Range(names) \cap Routers
  BY <1>2, SelectIs
<1>4. named \in Seq(Routers)
  <2> DEFINE n == Len(named)
  <2>1. n \in Nat /\ DOMAIN named = 1 .. n /\ named = [k \in 1 .. n |-> named[k]]
    BY <1>3
  <2> HIDE DEF named, n
  <2>2. \A k \in 1 .. n : named[k] \in Routers
    BY <1>3, <2>1 DEF Range
  <2> QED
    BY <2>1, <2>2
<1> HIDE DEF S, named
<1>5. rest \in Seq(Routers) /\ Range(rest) = Routers \cap S
  BY LabAssumption, SelectIs
<1> HIDE DEF rest
<1>6. all \in Seq(Routers) /\ Range(all) = Range(named) \cup Range(rest)
  <2> DEFINE m == Len(named)
             n == Len(rest)
  <2>1. /\ all \in Seq(Routers) /\ m \in Nat /\ n \in Nat
        /\ DOMAIN named = 1 .. m /\ DOMAIN rest = 1 .. n /\ DOMAIN all = 1 .. m + n
        /\ \A k \in 1 .. m : all[k] = named[k]
        /\ \A k \in 1 .. n : all[m + k] = rest[k]
    BY <1>4, <1>5
  <2> HIDE DEF m, n, all
  <2>2. \A k \in 1 .. m + n : k \in 1 .. m \/ (k - m \in 1 .. n /\ k = m + (k - m))
    BY <2>1
  <2>3. \A k \in 1 .. n : m + k \in 1 .. m + n
    BY <2>1
  <2>4. 1 .. m \subseteq 1 .. m + n
    BY <2>1
  <2>5. Range(all) \subseteq Range(named) \cup Range(rest)
    BY <2>1, <2>2 DEF Range
  <2>6. Range(named) \cup Range(rest) \subseteq Range(all)
    BY <2>1, <2>3, <2>4 DEF Range
  <2> QED
    BY <2>1, <2>5, <2>6
<1>7. Routers \subseteq Range(all)
  BY <1>5, <1>6 DEF S
<1>8. ASSUME Range(names) = Routers PROVE all = names
  <2>1. named = names
    BY <1>2, <1>8, SelectAll DEF named
  <2>2. rest = <<>>
    BY <1>8, <2>1, LabAssumption, SelectNone DEF S, rest
  <2> QED
    BY <1>4, <2>1, <2>2
<1> QED
  BY <1>1, <1>6, <1>7, <1>8

(* The AS numbers that are wanted are all from the first there is.         *)
LEMMA WantedIs ==
  ASSUME NEW n \in Nat, n = Len(Nodes), Nodes \in Seq(Range(Nodes))
  PROVE  /\ WantedASNs \in Seq(Range(ToldASNs))
         /\ \E m \in 0 .. n :
              /\ \A k \in 1 .. m : ToldASNs[k] = None
              /\ m < n => ToldASNs[m + 1] # None
              /\ Len(WantedASNs) = n - m
              /\ \A k \in 1 .. n - m : WantedASNs[k] = ToldASNs[m + k]
<1> DEFINE asns == ToldASNs
           I == {i \in 1 .. n : asns[i] # None}
           first == IF I # {} THEN Min(I) ELSE 0
<1>0. DOMAIN Nodes = 1 .. n
  OBVIOUS
<1>1. asns = [k \in 1 .. n |-> IF Nodes[k] \in NodeNames THEN asn_of(Conf(Nodes[k])) ELSE None]
  BY <1>0 DEF ToldASNs
<1> HIDE DEF asns
<1>2. Len(asns) = n /\ asns \in Seq(Range(asns))
  <2>1. asns = [k \in 1 .. n |-> asns[k]] /\ \A k \in 1 .. n : asns[k] \in Range(asns)
    BY <1>1 DEF Range
  <2>2. Len(asns) = n
    BY <2>1, LenIs
  <2> QED
    BY <2>1, <2>2
<1>3. WantedASNs = IF first = 0 THEN <<>> ELSE SubSeq(asns, first, Len(asns))
  BY <1>0, <1>2 DEF WantedASNs, SelectInSeq, asns, ToldASNs
<1>4. I \in SUBSET Nat /\ \A i \in I : i \in 1 .. n
  OBVIOUS
<1>5. CASE I = {}
  <2>1. WantedASNs = <<>> /\ \A k \in 1 .. n : asns[k] = None
    BY <1>3, <1>5
  <2>2. WantedASNs \in Seq(Range(asns)) /\ Len(WantedASNs) = n - n /\ 1 .. n - n = {}
    BY <2>1
  <2> QED
    BY <2>1, <2>2 DEF asns
<1>6. CASE I # {}
  <2> HIDE DEF I
  <2> DEFINE p == Min(I)
  <2>1. p \in I /\ \A i \in I : p <= i
    BY <1>4, <1>6, FirstIsLeast
  <2> HIDE DEF p
  <2>2. p \in 1 .. n /\ asns[p] # None /\ \A k \in 1 .. n : k < p => asns[k] = None
    BY <2>1 DEF I
  <2>3. WantedASNs = SubSeq(asns, p, n)
    BY <1>2, <1>3, <1>6, <2>2 DEF p
  <2> DEFINE m == p - 1
  <2>4. m \in 0 .. n /\ m < n /\ m \in Nat /\ p = m + 1 /\ \A k \in 1 .. m : k \in 1 .. n /\ k < p
    BY <2>2
  <2> HIDE DEF m
  <2>5. /\ SubSeq(asns, m + 1, n) \in Seq(Range(asns)) /\ Len(SubSeq(asns, m + 1, n)) = n - m
        /\ \A k \in 1 .. n - m : SubSeq(asns, m + 1, n)[k] = asns[m + k]
    BY <1>2, <2>4, PartIs
  <2> QED
    BY <2>2, <2>3, <2>4, <2>5 DEF asns
<1> QED
  BY <1>5, <1>6

LEMMA DashIsKept ==
  ASSUME LabTyped, DashRight, dash # None
  PROVE  /\ StateOf(files, dash.asn) # None
         /\ \A last \in 0 .. MaxEventId : [asn |-> dash.asn, last |-> last] # None
<1> DEFINE A == Numbers(files) \cup {None}
           asn == dash.asn
<1>1. asn = [r \in Routers |-> asn[r]] /\ \A r \in Routers : files.configs[r] # None /\ asn[r] \in {None, asn_of(files.configs[r])}
  BY DEF DashRight, Conf
<1>2. \A r \in Routers : asn[r] \in A
  BY <1>1 DEF Numbers
<1> HIDE DEF A, asn
<1>3. asn \in [Routers -> A]
  BY <1>1, <1>2
<1>4. files \in Files
  BY DEF LabTyped
<1> QED
  BY <1>3, <1>4, DashboardAssumption DEF A, asn

(* The tool compares the names and the known AS numbers with those wanted. *)
LEMMA DashboardSays ==
  ASSUME LabTyped, DashRight, dash # None
  PROVE  /\ dashboard(StateOf(files, dash.asn), TRUE, <<>>, <<>>) = 0
         /\ \A names, numbers :
              dashboard(StateOf(files, dash.asn), FALSE, names, numbers) = 0
                <=> /\ names # <<>> => Listed(files) = names
                    /\ numbers # <<>> => Select(ReadASNs, Range(ReadASNs) \ {None}) = numbers
<1> DEFINE asns == ReadASNs
           all == Listed(files)
           json == StateOf(files, dash.asn)
           n == Len(all)
<1>1. json # None
  BY DashIsKept
<1>2. all \in Seq(Routers)
  BY ListedIs DEF LabTyped
<1>3. n \in Nat /\ DOMAIN all = 1 .. n /\ all = [k \in 1 .. n |-> all[k]]
  BY <1>2
<1>4. json.ready = TRUE /\ json.nodes = [k \in DOMAIN all |-> [name |-> all[k], asn |-> dash.asn[all[k]]]]
  BY DEF StateOf
<1> HIDE DEF all, json, n
<1>5. /\ DOMAIN json.nodes = 1 .. n
      /\ \A k \in 1 .. n : json.nodes[k].name = all[k] /\ json.nodes[k].asn = dash.asn[all[k]]
  BY <1>3, <1>4
<1>0. asns = [k \in DOMAIN all |-> dash.asn[all[k]]]
  BY DEF ReadASNs, all
<1> HIDE DEF asns
<1>6. [k \in DOMAIN json.nodes |-> json.nodes[k].name] = all
  BY <1>3, <1>5
<1>7. [k \in DOMAIN json.nodes |-> json.nodes[k].asn] = asns
  BY <1>0, <1>3, <1>5
<1>8. \A ready \in BOOLEAN : \A names, numbers :
        dashboard(json, ready, names, numbers) = 0
          <=> /\ names # <<>> => all = names
              /\ numbers # <<>> => Select(asns, Range(asns) \ {None}) = numbers
  <2> SUFFICES ASSUME NEW ready \in BOOLEAN, NEW names, NEW numbers
               PROVE  dashboard(json, ready, names, numbers) = 0
                        <=> /\ names # <<>> => all = names
                            /\ numbers # <<>> => Select(asns, Range(asns) \ {None}) = numbers
    OBVIOUS
  <2> DEFINE told == [k \in DOMAIN json.nodes |-> json.nodes[k].name]
             known == [k \in DOMAIN json.nodes |-> json.nodes[k].asn]
             good == /\ ready => json.ready
                     /\ names # <<>> => told = names
                     /\ numbers # <<>> => Select(known, Range(known) \ {None}) = numbers
  <2>1. dashboard(json, ready, names, numbers) = IF good THEN 0 ELSE 1
    BY <1>1 DEF dashboard
  <2>2. told = all /\ known = asns
    BY <1>6, <1>7
  <2> HIDE DEF told, known
  <2> QED
    BY <1>4, <2>1, <2>2
<1> QED
  BY <1>8 DEF all, json, asns

-----------------------------------------------------------------------------
(* What the tool answers about one peer, one prefix, the events.           *)
LEMMA RequireOneSays ==
  ASSUME files \in Files, NEW r \in Routers, Conf(r) # None, NEW nested \in BOOLEAN, NEW ip \in PeerIPs(r)
  PROVE  summary_require(show_bgp_summary(r, nested), <<ip>>) = 0 <=> Session(ip) \in est
<1> DEFINE json == show_bgp_summary(r, nested)
<1>1. /\ json # None /\ DOMAIN peers_from(json) = PeerIPs(r)
      /\ \A i \in PeerIPs(r) : state_of(peers_from(json)[i]) = "Established" <=> Session(i) \in est
  BY SummarySays
<1>2. <<ip>> # <<>> /\ Range(<<ip>>) = {ip}
  BY DEF Range
<1> HIDE DEF json
<1>3. summary_require(json, <<ip>>) = 0 <=> Session(ip) \in est
  BY <1>1, <1>2 DEF summary_require
<1> QED
  BY <1>3 DEF json

LEMMA TableSays ==
  ASSUME files \in Files, NEW r, NEW nested \in BOOLEAN, NEW p
  PROVE  table_has(show_ip_bgp(r, nested), p) = 0 <=> p \in DOMAIN RoutesOf(files, Heard(r))
<1> DEFINE own == RoutesOf(files, Heard(r))
           json == Shaped(own, nested)
<1>1. Heard(r) \in SUBSET {q \in Routers : files.configs[q] # None}
  BY NodesAreRouters DEF Heard, Conf
<1>2. own # None /\ json # None
  BY <1>1, TableAssumption
<1>3. \A q \in DOMAIN own : own[q] = 1
  BY DEF RoutesOf
<1> HIDE DEF own
<1>4. DOMAIN Found(json) = DOMAIN own /\ \A q \in DOMAIN own : Found(json)[q] = own[q]
  BY <1>2, FoundIs
<1> HIDE DEF json
<1>5. table_has(json, p) = 0 <=> p \in DOMAIN own
  BY <1>2, <1>3, <1>4 DEF table_has, routes_from
<1> QED
  BY <1>5 DEF show_ip_bgp, json, own

(* The events kept are the last ones, from the first the ring and the call *)
(* let through.                                                            *)
LEMMA EventsSay ==
  ASSUME NEW last \in 0 .. MaxEventId, NEW since \in 0 .. MaxEventId, NEW m \in Nat, m < last,
         \A k \in 1 .. last : (k > last - EVENTS_RING /\ k > since) <=> m < k,
         NEW ready \in BOOLEAN, NEW first \in {0, m + 1}
  PROVE  events(EventsOf(last, since), ready, 1, first) = 0
<1> DEFINE recorded == [k \in 1 .. last |-> [id |-> k, stamped |-> TRUE]]
           S == {e \in Range(recorded) : e.id > last - EVENTS_RING /\ e.id > since}
           kept == Select(recorded, S)
           json == EventsOf(last, since)
           n == last - m
<1>0. last \in Nat /\ n \in Nat /\ n >= 1
  BY LabAssumption
<1>1. json # None
  BY DashboardAssumption
<1>2. json.ready = TRUE /\ json.events = kept
  BY DEF EventsOf
<1>3. /\ recorded \in Seq(Range(recorded)) /\ Len(recorded) = last
      /\ \A k \in 1 .. last : recorded[k].id = k /\ recorded[k].stamped = TRUE /\ recorded[k] \in Range(recorded)
  <2>1. recorded = [k \in 1 .. last |-> recorded[k]] /\ \A k \in 1 .. last : recorded[k] \in Range(recorded)
    BY DEF Range
  <2>2. \A k \in 1 .. last : recorded[k].id = k /\ recorded[k].stamped = TRUE
    OBVIOUS
  <2> HIDE DEF recorded
  <2>3. Len(recorded) = last
    BY <1>0, <2>1, LenIs
  <2> QED
    BY <1>0, <2>1, <2>2, <2>3
<1> HIDE DEF recorded, json
<1>4. \A k \in 1 .. Len(recorded) : recorded[k] \in S <=> m < k
  BY <1>3
<1> HIDE DEF S
<1>5. /\ kept \in Seq(Range(recorded)) /\ Len(kept) = n
      /\ \A k \in 1 .. n : kept[k] = recorded[m + k]
  <2> DEFINE A == Range(recorded)
  <2>1. recorded \in Seq(A) /\ m \in Nat /\ m <= Len(recorded)
    BY <1>0, <1>3
  <2> HIDE DEF A, kept
  <2>2. kept = Select(recorded, S)
    BY DEF kept
  <2>3. /\ kept \in Seq(A) /\ Len(kept) = Len(recorded) - m
        /\ \A k \in 1 .. Len(recorded) - m : kept[k] = recorded[m + k]
    BY <1>4, <2>1, <2>2, EndSelected
  <2> QED
    BY <1>3, <2>3 DEF A
<1> HIDE DEF kept
<1>6. DOMAIN kept = 1 .. n /\ \A k \in 1 .. n : kept[k].id = m + k /\ kept[k].stamped = TRUE
  <2>1. \A k \in 1 .. n : m + k \in 1 .. last
    BY <1>0
  <2>2. DOMAIN kept = 1 .. n
    BY <1>0, <1>5
  <2>3. \A k \in 1 .. n : kept[k] = recorded[m + k]
    BY <1>5
  <2> HIDE DEF n
  <2> QED
    BY <1>3, <2>1, <2>2, <2>3
<1> DEFINE ids == [k \in DOMAIN json.events |-> json.events[k].id]
<1>7. ids = [k \in 1 .. n |-> ids[k]] /\ \A k \in 1 .. n : ids[k] = m + k
  BY <1>2, <1>6
<1>8. Len(ids) = n
  BY <1>0, <1>7, LenIs
<1>9. events(json, ready, 1, first) =
        IF /\ ready => json.ready
           /\ Len(ids) >= 1
           /\ \A k \in DOMAIN ids : json.events[k].stamped
           /\ \A k \in 2 .. Len(ids) : ids[k] > ids[k - 1]
           /\ first # 0 => ids # <<>> /\ ids[1] = first
        THEN 0 ELSE 1
  BY <1>1 DEF events
<1>10. DOMAIN ids = 1 .. n
  BY <1>2, <1>6
<1> HIDE DEF ids, n
<1>11. \A k \in 2 .. n : ids[k] > ids[k - 1]
  <2>1. ASSUME NEW k \in 2 .. n PROVE ids[k] > ids[k - 1]
    <3>1. k \in 1 .. n /\ k - 1 \in 1 .. n
      BY <1>0
    <3>2. ids[k] = m + k /\ ids[k - 1] = m + (k - 1)
      BY <1>7, <3>1
    <3> QED
      BY <3>2
  <2> QED
    BY <2>1
<1>12. ids # <<>> /\ ids[1] = m + 1
  BY <1>0, <1>7, <1>8
<1>13. \A k \in DOMAIN ids : json.events[k].stamped = TRUE
  BY <1>2, <1>6, <1>10
<1>14. /\ ready => json.ready
       /\ Len(ids) >= 1
       /\ \A k \in DOMAIN ids : json.events[k].stamped
       /\ \A k \in 2 .. Len(ids) : ids[k] > ids[k - 1]
       /\ first # 0 => ids # <<>> /\ ids[1] = first
  BY <1>0, <1>2, <1>8, <1>11, <1>12, <1>13
<1>15. events(json, ready, 1, first) = 0
  BY <1>9, <1>14
<1> QED
  BY <1>15 DEF json

-----------------------------------------------------------------------------
(* What the rows are about changes with the lab alone.                     *)
LEMMA SameLook ==
  ASSUME UNCHANGED <<files, node, est, web>>,
         dash' = None <=> dash = None, dash # None => dash'.asn = dash.asn
  PROVE  /\ RoutersRun' <=> RoutersRun
         /\ SessionsStand' <=> SessionsStand
         /\ AddressesSit' <=> AddressesSit
         /\ PrefixesKnown' <=> PrefixesKnown
         /\ Answers' <=> Answers
         /\ NamesTold' <=> NamesTold
         /\ HasRead' <=> HasRead
<1>1. /\ NodeNames' = NodeNames /\ Expected' = Expected /\ \A r : Conf(r)' = Conf(r)
  BY SameFiles
<1>2. Nodes' = Nodes
  BY DEF Nodes
<1>3. \A r : Running(r)' <=> Running(r)
  BY DEF Running
<1>4. RoutersRun' <=> RoutersRun
  BY <1>2, <1>3 DEF RoutersRun
<1>5. SessionsStand' <=> SessionsStand
  BY <1>1, <1>3 DEF SessionsStand, Session
<1>6. AddressesSit' <=> AddressesSit
  BY <1>1, <1>3 DEF AddressesSit
<1>7. \A r : RoutesOf(files, Heard(r))' = RoutesOf(files, Heard(r))
  <2>1. \A r : Heard(r)' = Heard(r)
    BY <1>1 DEF Heard, Joined
  <2> QED
    BY <2>1 DEF RoutesOf
<1>8. PrefixesKnown' <=> PrefixesKnown
  <2>1. LookedFor' = LookedFor
    BY <1>1, <1>2 DEF LookedFor
  <2>2. \A r, p : Knows(r, p)' <=> Knows(r, p)
    BY <1>3, <1>7 DEF Knows
  <2> QED
    BY <1>1, <2>1, <2>2 DEF PrefixesKnown
<1>9. Answers' <=> Answers
  BY DEF Answers
<1>10. WantedASNs' = WantedASNs
  BY DEF WantedASNs, NodeNames, Conf, Nodes, SelectInSeq
<1>11. NamesTold' <=> NamesTold
  <2>1. dash # None => StateOf(files, dash.asn)' = StateOf(files, dash.asn)
    BY DEF StateOf, Listed
  <2>2. dash # None => dashboard(StateOf(files, dash.asn), FALSE, Nodes, WantedASNs)'
                         = dashboard(StateOf(files, dash.asn), FALSE, Nodes, WantedASNs)
    BY <1>2, <1>10, <2>1 DEF dashboard
  <2> QED
    BY <1>9, <2>2 DEF NamesTold, Answers
<1>12. HasRead' <=> HasRead
  BY <1>9 DEF HasRead, Answers
<1> QED
  BY <1>4, <1>5, <1>6, <1>8, <1>9, <1>11, <1>12

(* One row more is printed.                                                *)
Longer(n, ok) ==
  /\ DOMAIN check.printed = 1 .. n /\ DOMAIN check'.printed = 1 .. n + 1
  /\ check'.printed[n + 1].ok <=> ok
  /\ \A k \in 1 .. n : check'.printed[k] = check.printed[k]

LEMMA LongerIs ==
  ASSUME NEW n \in 0 .. 7, NEW row, NEW printed, NEW old, NEW id, Checking(row, printed, old, id), Owes(n, printed),
         NEW next, NEW what, NEW ok, NEW raw, NEW last,
         Holds(check', next, Append(printed, [what |-> what, ok |-> ok]), raw, last)
  PROVE  /\ Longer(n, ok) /\ check'.row = next /\ check'.dash_raw = raw /\ check'.last_id = last
         /\ check.last_id = id /\ check.dash_raw = old
<1> DEFINE x == [what |-> what, ok |-> ok]
           A == Range(printed) \cup {x}
           longer == Append(printed, x)
<1>1. x.ok = ok
  OBVIOUS
<1>2. printed \in Seq(A) /\ x \in A /\ Len(printed) = n
  <2>1. printed = [k \in 1 .. n |-> printed[k]] /\ \A k \in 1 .. n : printed[k] \in A
    BY DEF Owes, Range
  <2> HIDE DEF A
  <2> QED
    BY <2>1 DEF Owes, A
<1> HIDE DEF x, A
<1>3. /\ DOMAIN printed = 1 .. n /\ DOMAIN longer = 1 .. n + 1
      /\ longer[n + 1] = x /\ \A k \in 1 .. n : longer[k] = printed[k]
  BY <1>2
<1> HIDE DEF longer
<1>4. check'.printed = longer /\ check'.row = next /\ check'.dash_raw = raw /\ check'.last_id = last
  BY DEF Holds, longer, x
<1>5. check.printed = printed /\ check.last_id = id /\ check.dash_raw = old
  BY DEF Checking, Holds
<1> QED
  BY <1>1, <1>3, <1>4, <1>5 DEF Longer

(* Each of the first six rows is about one thing.                          *)
Right(n, ok) ==
  /\ n = 0 => (ok <=> RoutersRun)
  /\ n = 1 => (ok <=> SessionsStand)
  /\ n = 2 => (ok <=> AddressesSit)
  /\ n = 3 => (ok <=> PrefixesKnown)
  /\ n = 4 => (ok <=> Answers)
  /\ n = 5 => (ok <=> NamesTold)

LEMMA TellsMore ==
  ASSUME NEW n \in 0 .. 7, NEW ok, Longer(n, ok), Right(n, ok), Tells(check.printed)
  PROVE  Tells(check'.printed)
<1> DEFINE old == check.printed
           new == check'.printed
<1>1. /\ DOMAIN old = 1 .. n /\ DOMAIN new = 1 .. n + 1
      /\ new[n + 1].ok <=> ok
      /\ \A k \in 1 .. n : new[k] = old[k]
  BY DEF Longer
<1> HIDE DEF old, new
<1>2. \A k \in 1 .. 6 : k \in 1 .. n + 1 => k \in 1 .. n \/ k = n + 1
  OBVIOUS
<1>3. 1 \in DOMAIN new => (new[1].ok <=> RoutersRun)
  BY <1>1, <1>2 DEF Tells, Right, old
<1>4. 2 \in DOMAIN new => (new[2].ok <=> SessionsStand)
  BY <1>1, <1>2 DEF Tells, Right, old
<1>5. 3 \in DOMAIN new => (new[3].ok <=> AddressesSit)
  BY <1>1, <1>2 DEF Tells, Right, old
<1>6. 4 \in DOMAIN new => (new[4].ok <=> PrefixesKnown)
  BY <1>1, <1>2 DEF Tells, Right, old
<1>7. 5 \in DOMAIN new => (new[5].ok <=> Answers)
  BY <1>1, <1>2 DEF Tells, Right, old
<1>8. 6 \in DOMAIN new => (new[6].ok <=> NamesTold)
  BY <1>1, <1>2 DEF Tells, Right, old
<1> QED
  BY <1>3, <1>4, <1>5, <1>6, <1>7, <1>8 DEF Tells, new

LEMMA StepTells ==
  ASSUME Telling, NEW n \in 0 .. 7, NEW row, NEW printed, NEW old, NEW id, Checking(row, printed, old, id),
         Owes(n, printed), row # "idle", UNCHANGED <<labVars, upVars>>,
         NEW next, NEW what, NEW ok, NEW raw, NEW last,
         Holds(check', next, Append(printed, [what |-> what, ok |-> ok]), raw, last),
         calm => Right(n, ok),
         next = "nodes" /\ calm => raw = curl(IF dash = None THEN None ELSE api_state),
         n # 6 => last = id,
         n = 6 /\ calm /\ HasRead => ok /\ last \in 1 .. dash.last,
         n = 7 /\ calm /\ HasRead /\ dash.last < last + EVENTS_RING => ok
  PROVE  Telling'
<1>1. UNCHANGED <<files, node, est, dash, web, calm, up>>
  BY DEF labVars, upVars
<1>2. /\ RoutersRun' <=> RoutersRun
      /\ SessionsStand' <=> SessionsStand
      /\ AddressesSit' <=> AddressesSit
      /\ PrefixesKnown' <=> PrefixesKnown
      /\ Answers' <=> Answers
      /\ NamesTold' <=> NamesTold
      /\ HasRead' <=> HasRead
  BY <1>1, SameLook
<1>3. /\ Longer(n, ok) /\ check'.row = next /\ check'.dash_raw = raw /\ check'.last_id = last
      /\ check.last_id = id /\ check.row = row
  BY LongerIs DEF Checking, Holds
<1>4. DashRight'
  BY <1>1 DEF Telling, DashRight, Conf
<1>5. UpEnded'
  BY <1>1, <1>3 DEF Telling, UpEnded
<1>6. ASSUME calm PROVE Tells(check.printed)'
  <2>1. Tells(check'.printed)
    BY <1>3, <1>6, TellsMore DEF Telling
  <2> QED
    BY <1>2, <2>1 DEF Tells
<1>7. ASSUME calm PROVE TellsEvents(check.printed, check.last_id)'
  <2> DEFINE older == check.printed
             new == check'.printed
  <2>1. /\ DOMAIN older = 1 .. n /\ DOMAIN new = 1 .. n + 1
        /\ new[n + 1].ok <=> ok
        /\ \A k \in 1 .. n : new[k] = older[k]
    BY <1>3 DEF Longer
  <2>2. TellsEvents(older, id)
    BY <1>3, <1>7 DEF Telling
  <2> HIDE DEF older, new
  <2>3. /\ 7 \in DOMAIN new => 7 \in 1 .. n \/ n = 6
        /\ 8 \in DOMAIN new => n = 7
    BY <2>1
  <2>4. ASSUME 7 \in DOMAIN new, HasRead PROVE new[7].ok /\ last \in 1 .. dash.last
    BY <1>7, <2>1, <2>2, <2>3, <2>4 DEF TellsEvents
  <2>5. ASSUME 8 \in DOMAIN new, HasRead, dash.last < last + EVENTS_RING PROVE new[8].ok
    BY <1>7, <2>1, <2>3, <2>5
  <2>6. TellsEvents(new, last)
    BY <2>4, <2>5 DEF TellsEvents
  <2> QED
    BY <1>1, <1>2, <1>3, <2>6 DEF TellsEvents, new
<1>8. ASSUME calm, next = "nodes" PROVE check'.dash_raw = curl(IF dash = None THEN None ELSE api_state)'
  BY <1>1, <1>3, <1>8 DEF curl, api_state, StateOf, Listed
<1> QED
  BY <1>1, <1>3, <1>4, <1>5, <1>6, <1>7, <1>8 DEF Telling

LEMMA RowTells ==
  ASSUME CheckInv, Telling, NEW n \in {0, 1, 2, 3, 7}, NEW row, row # "idle", NEW what, NEW ok, NEW next,
         check.row = row, UNCHANGED <<labVars, upVars>>, Row(what, ok, next), next # "nodes",
         \A printed, last : Standing(row, printed, last) => Owes(n, printed),
         calm => Right(n, ok),
         n = 7 /\ calm /\ HasRead /\ dash.last < check.last_id + EVENTS_RING => ok
  PROVE  Telling'
<1>1. PICK printed, raw, last : Checking(row, printed, raw, last)
  BY CheckingAt
<1>2. Holds(check', next, Append(printed, [what |-> what, ok |-> ok]), raw, last)
  BY <1>1, RowPrints DEF Checking
<1>3. Owes(n, printed) /\ check.last_id = last
  BY <1>1 DEF Checking, Holds
<1>4. n \in 0 .. 7 /\ n # 6
  OBVIOUS
<1> QED
  BY <1>1, <1>2, <1>3, <1>4, StepTells

LEMMA RunningTells ==
  ASSUME CheckInv, Telling, CheckRunning
  PROVE  Telling'
<1>1. PICK ok : (ok <=> RoutersRun) /\ Row("routers", ok, "sessions")
  BY Zenon DEF CheckRunning, RoutersRun
<1>2. check.row = "running" /\ UNCHANGED <<labVars, upVars>>
  BY DEF CheckRunning, Looking
<1>3. Right(0, ok)
  BY <1>1 DEF Right
<1>4. \A printed, last : Standing("running", printed, last) => Owes(0, printed)
  BY DEF Standing
<1> QED
  BY <1>1, <1>2, <1>3, <1>4, RowTells

LEMMA SessionsTell ==
  ASSUME files \in Files, CheckInv, Telling, CheckSessions
  PROVE  Telling'
<1>1. PICK nested \in BOOLEAN :
        Row("sessions",
            /\ Expected # {}
            /\ \A r \in NodeNames : \A n \in Range(neighbors_of(Conf(r))) :
                 Running(r) /\ summary_require(show_bgp_summary(r, nested), <<n.ip>>) = 0,
            "interfaces")
  BY Zenon DEF CheckSessions
<1>2. \A r \in NodeNames : \A n \in Range(neighbors_of(Conf(r))) :
        summary_require(show_bgp_summary(r, nested), <<n.ip>>) = 0 <=> Session(n.ip) \in est
  BY NodesAreRouters, RequireOneSays DEF PeerIPs
<1>3. PICK ok : (ok <=> SessionsStand) /\ Row("sessions", ok, "interfaces")
  <2> DEFINE good == /\ Expected # {}
                     /\ \A r \in NodeNames : \A n \in Range(neighbors_of(Conf(r))) :
                          Running(r) /\ summary_require(show_bgp_summary(r, nested), <<n.ip>>) = 0
  <2>1. good <=> SessionsStand
    BY <1>2 DEF SessionsStand
  <2>2. Row("sessions", good, "interfaces")
    BY <1>1
  <2> HIDE DEF good
  <2> QED
    BY <2>1, <2>2
<1>4. check.row = "sessions" /\ UNCHANGED <<labVars, upVars>>
  BY DEF CheckSessions, Looking
<1>5. Right(1, ok)
  BY <1>3 DEF Right
<1>6. \A printed, last : Standing("sessions", printed, last) => Owes(1, printed)
  BY DEF Standing
<1> QED
  BY <1>3, <1>4, <1>5, <1>6, RowTells

LEMMA InterfacesTell ==
  ASSUME CheckInv, Telling, CheckInterfaces
  PROVE  Telling'
<1>1. PICK ok : (ok <=> AddressesSit) /\ Row("interfaces", ok, "prefixes")
  BY Zenon DEF CheckInterfaces, AddressesSit
<1>2. check.row = "interfaces" /\ UNCHANGED <<labVars, upVars>>
  BY DEF CheckInterfaces, Looking
<1>3. Right(2, ok)
  BY <1>1 DEF Right
<1>4. \A printed, last : Standing("interfaces", printed, last) => Owes(2, printed)
  BY DEF Standing
<1> QED
  BY <1>1, <1>2, <1>3, <1>4, RowTells

LEMMA PrefixesTell ==
  ASSUME files \in Files, CheckInv, Telling, CheckPrefixes
  PROVE  Telling'
<1>1. PICK nested \in BOOLEAN :
        Row("prefixes",
            /\ LookedFor # {}
            /\ \A a \in LookedFor : \A p \in Range(originated_of(Conf(a[1]))) :
                 a[2] \in Routers /\ Running(a[2]) /\ table_has(show_ip_bgp(a[2], nested), p) = 0,
            "ready")
  BY Zenon DEF CheckPrefixes, LookedFor
<1>2. \A r, p : table_has(show_ip_bgp(r, nested), p) = 0 <=> p \in DOMAIN RoutesOf(files, Heard(r))
  BY TableSays
<1>3. PICK ok : (ok <=> PrefixesKnown) /\ Row("prefixes", ok, "ready")
  <2> DEFINE good == /\ LookedFor # {}
                     /\ \A a \in LookedFor : \A p \in Range(originated_of(Conf(a[1]))) :
                          a[2] \in Routers /\ Running(a[2]) /\ table_has(show_ip_bgp(a[2], nested), p) = 0
  <2>1. good <=> PrefixesKnown
    BY <1>2 DEF PrefixesKnown, Knows
  <2>2. Row("prefixes", good, "ready")
    BY <1>1
  <2> HIDE DEF good
  <2> QED
    BY <2>1, <2>2
<1>4. check.row = "prefixes" /\ UNCHANGED <<labVars, upVars>>
  BY DEF CheckPrefixes, Looking
<1>5. Right(3, ok)
  BY <1>3 DEF Right
<1>6. \A printed, last : Standing("prefixes", printed, last) => Owes(3, printed)
  BY DEF Standing
<1> QED
  BY <1>3, <1>4, <1>5, <1>6, RowTells

(* The two rows about /api/state, of one answer.                           *)
LEMMA ReadySays ==
  ASSUME LabTyped, DashRight, NEW raw, raw = curl(IF dash = None THEN None ELSE api_state)
  PROVE  /\ raw.rc = 0 /\ dashboard(raw.json, TRUE, <<>>, <<>>) = 0 <=> Answers
         /\ raw.rc = 0 /\ dashboard(raw.json, FALSE, Nodes, WantedASNs) = 0 <=> NamesTold
<1>1. CASE Answers
  <2>1. raw = Answer(StateOf(files, dash.asn))
    BY <1>1 DEF Answers, curl, api_state
  <2>2. raw.rc = 0 /\ raw.json = StateOf(files, dash.asn)
    BY <2>1 DEF Answer
  <2>3. dashboard(StateOf(files, dash.asn), TRUE, <<>>, <<>>) = 0
    BY <1>1, DashboardSays DEF Answers
  <2> QED
    BY <1>1, <2>2, <2>3 DEF NamesTold
<1>2. CASE ~ Answers
  <2>1. raw = Dead \/ raw = Answer(None)
    BY <1>2 DEF Answers, curl, DashRight
  <2>2. raw.rc # 0 \/ raw.json = None
    BY <2>1 DEF Dead, Answer
  <2>3. ASSUME NEW ready, NEW names, NEW numbers, raw.json = None
        PROVE  dashboard(raw.json, ready, names, numbers) # 0
    BY <2>3 DEF dashboard
  <2>4. ~ NamesTold
    BY <1>2 DEF NamesTold
  <2> QED
    BY <1>2, <2>2, <2>3, <2>4
<1> QED
  BY <1>1, <1>2

LEMMA ReadyTells ==
  ASSUME LabTyped, CheckInv, Telling, CheckReady
  PROVE  Telling'
<1> DEFINE raw == curl(IF dash = None THEN None ELSE api_state)
           good == raw.rc = 0 /\ dashboard(raw.json, TRUE, <<>>, <<>>) = 0
<1>1. check' = [Printed("ready", good) EXCEPT !.row = "nodes", !.dash_raw = raw]
  BY Zenon DEF CheckReady
<1>2. good <=> Answers
  BY ReadySays DEF Telling
<1>3. check.row = "ready" /\ UNCHANGED <<labVars, upVars>>
  BY DEF CheckReady, Looking
<1>4. PICK printed, old, last : Checking("ready", printed, old, last)
  BY <1>3, CheckingAt
<1> HIDE DEF good, raw
<1>5. Holds(check', "nodes", Append(printed, [what |-> "ready", ok |-> good]), raw, last)
  BY <1>1, <1>4, RawPrints, Zenon DEF Checking
<1>6. Owes(4, printed) /\ 4 \in 0 .. 7
  BY <1>4 DEF Checking, Standing
<1>7. Right(4, good)
  BY <1>2 DEF Right
<1> QED
  BY <1>3, <1>4, <1>5, <1>6, <1>7, StepTells DEF raw

LEMMA NodesTell ==
  ASSUME LabTyped, CheckInv, Telling, CheckNodes
  PROVE  Telling'
<1> DEFINE kept == check.dash_raw
           good == kept.rc = 0 /\ dashboard(kept.json, FALSE, Nodes, WantedASNs) = 0
<1>1. check' = [Printed("nodes", good) EXCEPT !.row = "history", !.dash_raw = Dead]
  BY Zenon DEF CheckNodes
<1>2. check.row = "nodes" /\ UNCHANGED <<labVars, upVars>>
  BY DEF CheckNodes, Looking
<1>3. calm => (good <=> NamesTold)
  BY <1>2, ReadySays DEF Telling
<1>4. PICK printed, old, last : Checking("nodes", printed, old, last)
  BY <1>2, CheckingAt
<1> HIDE DEF good, kept
<1>5. Holds(check', "history", Append(printed, [what |-> "nodes", ok |-> good]), Dead, last)
  BY <1>1, <1>4, RawPrints, Zenon DEF Checking
<1>6. Owes(5, printed) /\ 5 \in 0 .. 7
  BY <1>4 DEF Checking, Standing
<1>7. calm => Right(5, good)
  BY <1>3 DEF Right
<1> QED
  BY <1>2, <1>4, <1>5, <1>6, <1>7, StepTells

(* The two rows about /api/events.                                         *)
LEMMA EventsTold ==
  ASSUME LabTyped, DashRight, HasRead, NEW since \in 0 .. MaxEventId, NEW raw,
         raw = curl(IF dash = None THEN None ELSE api_events(since))
  PROVE  /\ dash.last \in 1 .. MaxEventId
         /\ raw.rc = 0 /\ raw.json = EventsOf(dash.last, since) /\ raw.json # None
<1>1. dash # None /\ web = "dashboard" /\ \E r \in Routers : dash.asn[r] # None
  BY DEF HasRead, Answers
<1>2. dash.last \in 1 .. MaxEventId
  BY <1>1, LabAssumption DEF LabTyped, DashRight
<1>3. raw = Answer(EventsOf(dash.last, since))
  BY <1>1 DEF curl, api_events
<1>4. EventsOf(dash.last, since) # None
  BY <1>2, DashboardAssumption, LabAssumption
<1> QED
  BY <1>2, <1>3, <1>4 DEF Answer

LEMMA HistoryTells ==
  ASSUME LabTyped, CheckInv, Telling, CheckHistory
  PROVE  Telling'
<1> DEFINE raw == curl(IF dash = None THEN None ELSE api_events(0))
           good == raw.rc = 0 /\ events(raw.json, TRUE, 1, 0) = 0
           after == AfterHistory(raw)
<1>1. check' = [Printed("history", good) EXCEPT !.row = after.row, !.last_id = after.last_id]
  BY Zenon DEF CheckHistory
<1>2. check.row = "history" /\ UNCHANGED <<labVars, upVars>>
  BY DEF CheckHistory, Looking
<1>3. PICK printed, old, last : Checking("history", printed, old, last)
  BY <1>2, CheckingAt
<1>4. PICK to, id : to = after.row /\ id = after.last_id
  OBVIOUS
<1>5. to # "nodes"
  BY <1>4 DEF AfterHistory
<1>6. ASSUME HasRead PROVE good /\ id \in 1 .. dash.last
  <2> DEFINE last0 == dash.last
             m == IF last0 > EVENTS_RING THEN last0 - EVENTS_RING ELSE 0
  <2>1. 0 \in 0 .. MaxEventId
    BY LabAssumption
  <2>2. /\ last0 \in 1 .. MaxEventId
        /\ raw.rc = 0 /\ raw.json = EventsOf(last0, 0) /\ raw.json # None
    BY <1>6, <2>1, EventsTold DEF Telling
  <2>3. EventsOf(last0, 0).lastId = last0
    BY DEF EventsOf
  <2> HIDE DEF last0, raw
  <2>4. m \in Nat /\ m < last0 /\ \A k \in 1 .. last0 : (k > last0 - EVENTS_RING /\ k > 0) <=> m < k
    BY <2>2, LabAssumption
  <2>5. last0 \in 0 .. MaxEventId /\ TRUE \in BOOLEAN /\ 0 \in {0, m + 1}
    BY <2>2
  <2> HIDE DEF m
  <2>6. events(EventsOf(last0, 0), TRUE, 1, 0) = 0
    BY <2>1, <2>4, <2>5, EventsSay
  <2>7. after.last_id = last0
    BY <2>2, <2>3 DEF AfterHistory
  <2>8. last0 \in 1 .. last0
    BY <2>2
  <2> QED
    BY <1>4, <2>2, <2>6, <2>7, <2>8 DEF last0
<1> HIDE DEF good, raw, after
<1>7. Holds(check', to, Append(printed, [what |-> "history", ok |-> good]), old, id)
  BY <1>1, <1>3, <1>4, LastPrints, Zenon DEF Checking
<1>8. Owes(6, printed) /\ 6 \in 0 .. 7
  BY <1>3 DEF Checking, Standing
<1>9. Right(6, good)
  BY DEF Right
<1> QED
  BY <1>2, <1>3, <1>5, <1>6, <1>7, <1>8, <1>9, StepTells

LEMMA SinceTells ==
  ASSUME LabTyped, CheckInv, Telling, CheckSince
  PROVE  Telling'
<1> DEFINE c == check.last_id
           since == IF c > 0 THEN c - 1 ELSE 0
           raw == curl(IF dash = None THEN None ELSE api_events(since))
           good == raw.rc = 0 /\ events(raw.json, FALSE, 1, c) = 0
<1>1. Row("since", good, "exit")
  BY Zenon DEF CheckSince
<1>2. check.row = "since" /\ UNCHANGED <<labVars, upVars>>
  BY DEF CheckSince, Looking
<1>3. ASSUME calm, HasRead, dash.last < c + EVENTS_RING PROVE good
  <2> DEFINE last0 == dash.last
             m == c - 1
  <2>1. PICK printed, old, last : Checking("since", printed, old, last)
    BY <1>2, CheckingAt
  <2>2. 7 \in DOMAIN check.printed
    <3>1. Owes(7, printed) /\ check.printed = printed
      BY <2>1 DEF Checking, Standing, Holds
    <3>2. DOMAIN printed = 1 .. 7
      BY <3>1 DEF Owes
    <3> QED
      BY <3>1, <3>2
  <2>3. c \in 1 .. last0
    BY <1>2, <1>3, <2>2 DEF Telling, TellsEvents
  <2>4. last0 \in 0 .. MaxEventId
    BY <1>3 DEF LabTyped, HasRead, Answers
  <2>5. m \in Nat /\ m < last0 /\ m + 1 = c /\ since = m /\ m \in 0 .. MaxEventId
    BY <2>3, <2>4, LabAssumption
  <2>6. raw.rc = 0 /\ raw.json = EventsOf(last0, m)
    BY <1>3, <2>5, EventsTold DEF Telling
  <2>7. last0 < m + 1 + EVENTS_RING
    BY <1>3, <2>5
  <2> HIDE DEF last0, m, raw, c
  <2>8. \A k \in 1 .. last0 : (k > last0 - EVENTS_RING /\ k > m) <=> m < k
    BY <2>4, <2>5, <2>7, LabAssumption
  <2>9. events(EventsOf(last0, m), FALSE, 1, c) = 0
    <3>1. FALSE \in BOOLEAN /\ c \in {0, m + 1}
      BY <2>5
    <3> QED
      BY <2>4, <2>5, <2>8, <3>1, EventsSay
  <2> QED
    BY <2>6, <2>9
<1> HIDE DEF good
<1>4. Right(7, good) /\ 7 \in {0, 1, 2, 3, 7}
  BY DEF Right
<1>5. \A printed, last : Standing("since", printed, last) => Owes(7, printed)
  BY DEF Standing
<1> QED
  BY <1>1, <1>2, <1>3, <1>4, <1>5, RowTells

-----------------------------------------------------------------------------
(* What the dashboard has, whatever happens to the lab.                    *)
LEMMA DashStays ==
  ASSUME LabTyped, DashRight, [Next]_vars
  PROVE  DashRight'
<1>1. CASE UNCHANGED <<files, dash>> /\ web' \in {"dead", "html", "dashboard"}
  BY <1>1 DEF DashRight, Conf
<1>2. CASE ComposeUp
  <2>1. UNCHANGED <<files, web>>
    BY <1>2 DEF ComposeUp
  <2>2. CASE dash' = dash
    BY <2>1, <2>2 DEF DashRight, Conf
  <2>3. CASE dash' = [asn |-> [r \in Routers |-> None], last |-> 0] /\ \A r \in Routers : Healthy(node'[r])
    <3>1. ASSUME NEW r \in Routers PROVE Conf(r) # None
      <4>1. Starts[files][r] = {Started(files.configs[r], links, files.env[r], fault) :
                                  links \in Attachments(r), fault \in Faults}
        BY DEF LabTyped, Starts
      <4>2. PICK links \in Attachments(r), fault \in Faults :
              node'[r] = Started(files.configs[r], links, files.env[r], fault)
        BY <1>2, <4>1 DEF ComposeUp
      <4>3. node'[r].agent = "listens"
        BY <2>3 DEF Healthy
      <4>4. files.configs[r] = None => node'[r].agent = "none"
        BY <4>2 DEF Started
      <4> QED
        BY <4>3, <4>4 DEF Conf
    <3>2. \A r \in Routers : Conf(r)' # None
      BY <2>1, <3>1 DEF Conf
    <3>3. /\ dash'.asn = [r \in Routers |-> None] /\ \A r \in Routers : dash'.asn[r] = None
      BY <2>3
    <3>4. dash'.asn = [r \in Routers |-> dash'.asn[r]]
      BY <3>3
    <3> QED
      BY <2>1, <3>2, <3>3, <3>4 DEF DashRight
  <2> QED
    BY <1>2, <2>2, <2>3 DEF ComposeUp
<1>3. CASE DashPolls
  <2>1. UNCHANGED <<files, web>> /\ dash # None
    BY <1>3 DEF DashPolls
  <2>2. PICK last \in {dash.last, dash.last + 1} \cap 1 .. MaxEventId :
          dash' = [asn |-> [r \in Routers |-> IF node[r].agent = "listens" /\ Running(r)
                                              THEN asn_of(Conf(r)) ELSE dash.asn[r]],
                   last |-> last]
    BY <1>3 DEF DashPolls
  <2>3. \A r \in Routers : Conf(r) # None /\ dash.asn[r] \in {None, asn_of(Conf(r))}
    BY <2>1 DEF DashRight
  <2>4. /\ \A r \in Routers : dash'.asn[r] \in {dash.asn[r], asn_of(Conf(r))}
        /\ dash'.asn = [r \in Routers |-> dash'.asn[r]]
        /\ dash'.last # 0
    BY <2>2
  <2>5. \A r \in Routers : Conf(r)' = Conf(r)
    BY <2>1 DEF Conf
  <2>6. \A r \in Routers : Conf(r)' # None /\ dash'.asn[r] \in {None, asn_of(Conf(r)')}
    BY <2>3, <2>4, <2>5
  <2> QED
    BY <2>1, <2>4, <2>6 DEF DashRight
<1>4. CASE DashRestarts
  <2>1. UNCHANGED <<files, web>> /\ dash # None /\ dash' = [asn |-> [r \in Routers |-> None], last |-> 0]
    BY <1>4 DEF DashRestarts
  <2>2. /\ dash'.asn = [r \in Routers |-> None] /\ \A r \in Routers : dash'.asn[r] = None
    BY <2>1
  <2>3. dash'.asn = [r \in Routers |-> dash'.asn[r]]
    BY <2>2
  <2>4. \A r \in Routers : Conf(r)' = Conf(r) /\ Conf(r) # None
    BY <2>1 DEF Conf, DashRight
  <2> QED
    BY <2>1, <2>2, <2>3, <2>4 DEF DashRight
<1> QED
  BY <1>1, <1>2, <1>3, <1>4
  DEF DashRight, Next, vars, labVars, UpScript, OwnStep, BeginRound, ReadNode, EndRound, Slept, Tick,
      Meanwhile, Environment, Establish, Lose, RouterExits, PortChanges, Begin,
      CheckScript, CheckRunning, CheckSessions, CheckInterfaces, CheckPrefixes, CheckReady,
      CheckNodes, CheckHistory, CheckSince, Looking

(* What may happen between two rows of a calm lab: the dashboard polls and *)
(* reads what it had read.                                                 *)
Quiet ==
  /\ calm /\ UNCHANGED <<files, node, est, web>>
  /\ dash' = None <=> dash = None
  /\ dash # None => /\ dash'.asn = dash.asn
                    /\ dash.last \in Nat /\ dash'.last \in Nat /\ dash.last <= dash'.last

LEMMA QuietTells ==
  ASSUME CheckInv, Telling, DashRight', check' = check, check.row # "idle" => UpEnded', calm' => Quiet
  PROVE  Telling'
<1> SUFFICES ASSUME check.row # "idle", calm'
             PROVE  /\ Tells(check.printed)' /\ TellsEvents(check.printed, check.last_id)'
                    /\ check.row = "nodes" => check.dash_raw = curl(IF dash = None THEN None ELSE api_state)'
  BY DEF Telling
<1>1. /\ calm /\ UNCHANGED <<files, node, est, web>>
      /\ dash' = None <=> dash = None
      /\ dash # None => /\ dash'.asn = dash.asn
                        /\ dash.last \in Nat /\ dash'.last \in Nat /\ dash.last <= dash'.last
  BY DEF Quiet
<1>2. /\ RoutersRun' <=> RoutersRun
      /\ SessionsStand' <=> SessionsStand
      /\ AddressesSit' <=> AddressesSit
      /\ PrefixesKnown' <=> PrefixesKnown
      /\ Answers' <=> Answers
      /\ NamesTold' <=> NamesTold
      /\ HasRead' <=> HasRead
  BY <1>1, SameLook
<1>3. /\ Tells(check.printed) /\ TellsEvents(check.printed, check.last_id)
      /\ check.row = "nodes" => check.dash_raw = curl(IF dash = None THEN None ELSE api_state)
  BY <1>1 DEF Telling
<1>4. Tells(check.printed)'
  BY <1>2, <1>3 DEF Tells
<1>5. TellsEvents(check.printed, check.last_id)'
  <2> DEFINE printed == check.printed
             last == check.last_id
  <2>1. ASSUME HasRead, 7 \in DOMAIN printed PROVE printed[7].ok /\ last \in 1 .. dash'.last
    <3>1. printed[7].ok /\ last \in 1 .. dash.last /\ dash # None
      BY <1>3, <2>1 DEF TellsEvents, HasRead, Answers
    <3> QED
      BY <1>1, <3>1
  <2>2. ASSUME HasRead, 8 \in DOMAIN printed, dash'.last < last + EVENTS_RING, 7 \in DOMAIN printed PROVE printed[8].ok
    <3>1. last \in 1 .. dash.last /\ dash # None
      BY <1>3, <2>2 DEF TellsEvents, HasRead, Answers
    <3>2. dash.last < last + EVENTS_RING
      BY <1>1, <2>2, <3>1, LabAssumption
    <3> QED
      BY <1>3, <2>2, <3>2 DEF TellsEvents
  <2>3. 8 \in DOMAIN printed => 7 \in DOMAIN printed
    <3>1. PICK row, list, raw, id : Checking(row, list, raw, id)
      BY DEF CheckInv
    <3>2. PICK n \in 0 .. 8 : Owes(n, list)
      BY <3>1 DEF Checking, Standing
    <3>3. DOMAIN printed = 1 .. n
      BY <3>1, <3>2 DEF Checking, Holds, Owes
    <3> QED
      BY <3>3
  <2> QED
    BY <1>2, <2>1, <2>2, <2>3 DEF TellsEvents
<1>6. curl(IF dash = None THEN None ELSE api_state)' = curl(IF dash = None THEN None ELSE api_state)
  BY <1>1 DEF curl, api_state, StateOf, Listed
<1> QED
  BY <1>3, <1>4, <1>5, <1>6

LEMMA TellingStays ==
  ASSUME IInv, Telling, [Next]_vars
  PROVE  Telling'
<1>1. DashRight'
  BY DashStays DEF IInv, Telling
<1>2. LabTyped /\ CheckInv /\ files \in Files
  BY DEF IInv, LabTyped
<1>3. CASE UNCHANGED vars
  <2>1. UNCHANGED <<files, node, est, dash, web, calm, up, check>>
    BY <1>3 DEF vars, labVars, upVars
  <2>2. dash # None => dash.last \in Nat
    BY <1>2, LabAssumption DEF LabTyped
  <2>3. UpEnded' <=> UpEnded
    BY <2>1 DEF UpEnded
  <2>4. calm' => Quiet
    BY <2>1, <2>2 DEF Quiet
  <2>5. check.row # "idle" => UpEnded'
    BY <2>3 DEF Telling
  <2> QED
    BY <1>1, <1>2, <2>1, <2>4, <2>5, QuietTells
<1>4. CASE (UpScript \/ Tick) /\ UNCHANGED check
  <2>1. ~ UpEnded
    BY <1>4 DEF UpScript, OwnStep, ComposeUp, BeginRound, ReadNode, EndRound, Slept, Tick, UpEnded
  <2>2. check'.row = "idle"
    BY <1>4, <2>1 DEF Telling
  <2> QED
    BY <1>1, <2>2 DEF Telling
<1>5. CASE Meanwhile /\ UNCHANGED check
  <2>1. up' = up /\ Environment
    BY <1>5 DEF Meanwhile
  <2>2. check.row # "idle" => UpEnded'
    BY <2>1 DEF Telling, UpEnded
  <2>3. calm' => DashPolls
    BY <2>1 DEF Environment, Establish, Lose, RouterExits, DashRestarts, PortChanges, Adopt
  <2>4. ASSUME calm', DashPolls PROVE Quiet
    <3>1. /\ dash # None /\ UNCHANGED <<files, node, est, web>>
          /\ calm /\ dash'.asn = dash.asn
      BY <2>4 DEF DashPolls
    <3>2. PICK last \in {dash.last, dash.last + 1} \cap 1 .. MaxEventId :
            dash' = [asn |-> [r \in Routers |-> IF node[r].agent = "listens" /\ Running(r)
                                                THEN asn_of(Conf(r)) ELSE dash.asn[r]],
                     last |-> last]
      BY <2>4 DEF DashPolls
    <3>3. dash'.last = last /\ dash.last \in Nat /\ MaxEventId \in Nat
      BY <1>2, <3>1, <3>2, LabAssumption DEF LabTyped
    <3>4. dash.last <= dash'.last /\ dash'.last \in Nat
      BY <3>2, <3>3
    <3>5. dash' # None
      <4>1. dash' = [asn |-> dash.asn, last |-> last]
        BY <3>1, <3>2
      <4>2. last \in 0 .. MaxEventId
        BY <3>2, <3>3
      <4> QED
        BY <1>2, <3>1, <4>1, <4>2, DashIsKept DEF Telling
    <3> QED
      BY <3>1, <3>3, <3>4, <3>5 DEF Quiet
  <2>5. calm' => Quiet
    BY <2>3, <2>4
  <2> QED
    BY <1>1, <1>2, <1>5, <2>2, <2>5, QuietTells
<1>6. CASE Begin
  <2>1. /\ check.row = "idle" /\ UpEnded /\ check' = [check EXCEPT !.row = "running"]
    BY <1>6 DEF Begin
  <2>2. UpEnded'
    <3>1. up'.pc = up.pc
      BY <1>6, BeginKeeps
    <3> QED
      BY <2>1, <3>1 DEF UpEnded
  <2>3. PICK printed, raw, last : Checking("idle", printed, raw, last)
    BY <1>2, <2>1, CheckingAt
  <2>4. Holds(check', "running", printed, raw, last)
    BY <2>1, <2>3, FieldsSet, Zenon DEF Checking
  <2>5. check'.row = "running" /\ check'.printed = printed /\ DOMAIN printed = {}
    BY <2>3, <2>4 DEF Checking, Holds, Standing, Owes
  <2> QED
    BY <1>1, <2>2, <2>5 DEF Telling, Tells, TellsEvents
<1>7. CASE CheckScript
  BY <1>2, <1>7, RunningTells, SessionsTell, InterfacesTell, PrefixesTell, ReadyTells, NodesTell,
     HistoryTells, SinceTells DEF CheckScript
<1> QED
  BY <1>3, <1>4, <1>5, <1>6, <1>7 DEF Next

LEMMA TellingBegins ==
  ASSUME Init
  PROVE  Telling
BY DEF Init, LabInit, UpInit, Telling, DashRight

-----------------------------------------------------------------------------
(* What all rows together say of the lab.                                  *)
LEMMA SpokenFor ==
  ASSUME LabTyped, Sessions, NEW s \in est, NEW addr \in s, NEW r \in Routers, addr \in Attached[r]
  PROVE  /\ asn_of(Conf(r)) # None
         /\ r \in NodeNames /\ ifaces_of(Conf(r)) # <<>>
<1>1. Speaks(addr)
  BY DEF Sessions, Possible
<1>2. PICK q \in NodeNames :
        /\ q \in Routers /\ addr \in Attached[q] /\ Running(q)
        /\ asn_of(Conf(q)) # None /\ Session(addr) \in ExpectedOf(q)
        /\ \E w \in Range(ifaces_of(Conf(q))) :
             w.addr = addr /\ [name |-> w.iface, addr |-> addr] \in node[q].links
  BY <1>1, SpeakerHasIt
<1>3. q = r
  BY <1>2, LabAssumption
<1>4. ifaces_of(Conf(q)) # <<>>
  BY <1>2 DEF Range
<1> QED
  BY <1>2, <1>3, <1>4

(* An Established session has a router with an AS and an interface.        *)
LEMMA SomeoneSpeaks ==
  ASSUME LabTyped, Sessions, Expected # {}, Expected \subseteq est
  PROVE  \E r \in NodeNames : r \in Routers /\ asn_of(Conf(r)) # None /\ ifaces_of(Conf(r)) # <<>>
<1>1. PICK r \in NodeNames : \E n \in Range(neighbors_of(Conf(r))) : Session(n.ip) \in est
  BY DEF Expected, ExpectedOf
<1>2. PICK n \in Range(neighbors_of(Conf(r))) : Session(n.ip) \in est
  BY <1>1
<1>3. r \in Routers /\ Conf(r) # None
  BY NodesAreRouters
<1>4. Opposite[n.ip] \in Attached[r]
  BY <1>2, <1>3, FilesAssumption DEF LabTyped, Conf
<1>5. Opposite[n.ip] \in Session(n.ip)
  BY DEF Session
<1> QED
  BY <1>2, <1>3, <1>4, <1>5, SpokenFor

LEMMA RowsSayUp ==
  ASSUME NoneAside, LabTyped, Sessions, DashRight,
         RoutersRun, SessionsStand, AddressesSit, PrefixesKnown, Answers, NamesTold
  PROVE  LabUp
<1>1. /\ files \in Files /\ dash # None /\ web = "dashboard"
      /\ \A r \in Routers : Conf(r) # None /\ dash.asn[r] \in {None, asn_of(Conf(r))}
      /\ dash.last = 0 => \A r \in Routers : dash.asn[r] = None
      /\ dash.last \in Nat
  BY LabAssumption DEF LabTyped, DashRight, Answers
<1>2. NodeNames = Routers
  BY <1>1, LabAssumption DEF NodeNames
<1> DEFINE n == Len(Nodes)
           asns == [k \in 1 .. n |-> dash.asn[Nodes[k]]]
           wants == ToldASNs
           S == Range(asns) \ {None}
<1>3. Nodes # <<>>
  BY DEF PrefixesKnown, LookedFor, Range
<1>4. /\ Nodes = Listed(files) /\ Nodes \in Seq(Routers) /\ Range(Nodes) = Routers
      /\ Nodes \in Seq(Range(Nodes))
      /\ WantedASNs # <<>> => Select(asns, S) = WantedASNs
  <2>1. Listed(files) \in Seq(Routers) /\ Routers \subseteq Range(Listed(files))
    BY <1>1, ListedIs
  <2>2. /\ Listed(files) = Nodes
        /\ WantedASNs # <<>> => Select(ReadASNs, Range(ReadASNs) \ {None}) = WantedASNs
    BY <1>1, <1>3, DashboardSays DEF NamesTold
  <2>3. n \in Nat /\ DOMAIN Nodes = 1 .. n
    BY <2>1, <2>2
  <2>4. ReadASNs = asns
    BY <2>2, <2>3 DEF ReadASNs
  <2>5. Range(Nodes) \subseteq Routers
    BY <2>1, <2>2, <2>3 DEF Range
  <2>6. Nodes \in Seq(Range(Nodes))
    BY <1>1, NodesListed DEF Nodes
  <2> HIDE DEF asns, n
  <2> QED
    BY <2>1, <2>2, <2>4, <2>5, <2>6
<1>5. n \in Nat /\ DOMAIN Nodes = 1 .. n /\ \A k \in 1 .. n : Nodes[k] \in Routers
  BY <1>4
<1>6. \A r \in Routers : \E k \in 1 .. n : r = Nodes[k]
  BY <1>4, <1>5 DEF Range
<1>7. Expected # {} /\ Expected \subseteq est /\ \A r \in Routers : Running(r)
  <2>1. Expected \subseteq est
    BY DEF SessionsStand, Expected, ExpectedOf
  <2> QED
    BY <1>4, <2>1 DEF SessionsStand, RoutersRun
<1>8. /\ \A k \in 1 .. n : wants[k] = asn_of(Conf(Nodes[k])) /\ asns[k] = dash.asn[Nodes[k]]
      /\ \A k \in 1 .. n : asns[k] \in {None, wants[k]}
  BY <1>1, <1>2, <1>5 DEF ToldASNs
<1>9. PICK m \in 0 .. n :
        /\ \A k \in 1 .. m : wants[k] = None
        /\ m < n => wants[m + 1] # None
        /\ Len(WantedASNs) = n - m
  BY <1>4, <1>5, WantedIs
<1>10. asns \in Seq(Range(asns)) /\ Len(asns) = n
  <2>1. asns = [k \in 1 .. n |-> asns[k]] /\ \A k \in 1 .. n : asns[k] \in Range(asns)
    BY DEF Range
  <2> HIDE DEF asns, n
  <2>2. Len(asns) = n
    BY <1>5, <2>1, LenIs
  <2> QED
    BY <1>5, <2>1, <2>2
<1> HIDE DEF wants, asns, n
<1>11. PICK r \in Routers : asn_of(Conf(r)) # None
  BY <1>7, SomeoneSpeaks
<1>12. m < n
  <2>1. PICK k \in 1 .. n : r = Nodes[k]
    BY <1>6
  <2>2. wants[k] # None
    BY <1>8, <1>11, <2>1
  <2> QED
    BY <1>5, <1>9, <2>2
<1>13. Select(asns, S) = WantedASNs
  <2>1. Len(<<>>) = 0 /\ n - m # 0
    BY <1>5, <1>12
  <2> QED
    BY <1>4, <1>9, <2>1
<1>14. m = 0
  <2> SUFFICES ASSUME m > 0 PROVE FALSE
    BY <1>5
  <2>1. 1 \in 1 .. m /\ 1 \in 1 .. n
    BY <1>5, <1>12
  <2>2. Nodes[1] \in Routers /\ asn_of(Conf(Nodes[1])) = None
    BY <1>5, <1>8, <1>9, <2>1
  <2>3. PICK first \in Routers : first = Nodes[1]
    BY <2>2
  <2>4. PICK q \in Routers : \E l \in Range(neighbors_of(Conf(q))) : Session(l.ip) \cap Attached[first] # {}
    BY <1>1, <2>2, <2>3 DEF NoneAside, Conf
  <2>5. PICK l \in Range(neighbors_of(Conf(q))) : Session(l.ip) \cap Attached[first] # {}
    BY <2>4
  <2>6. Session(l.ip) \in est
    BY <1>2, <1>7 DEF Expected, ExpectedOf
  <2> QED
    BY <2>2, <2>3, <2>5, <2>6, SpokenFor
<1>15. \A k \in 1 .. n : asns[k] # None
  <2>1. \A k \in 1 .. m : asns[k] \notin S
    BY <1>14
  <2>2. Len(Select(asns, S)) = Len(asns) - m /\ m \in Nat /\ m <= Len(asns)
    BY <1>5, <1>9, <1>10, <1>13
  <2>3. \A k \in m + 1 .. Len(asns) : asns[k] \in S
    BY <1>10, <2>1, <2>2, LongSelected
  <2> QED
    BY <1>5, <1>10, <1>14, <2>3
<1>16. \A q \in Routers : dash.asn[q] = asn_of(Conf(q)) /\ dash.asn[q] # None
  <2> SUFFICES ASSUME NEW q \in Routers PROVE dash.asn[q] = asn_of(Conf(q)) /\ dash.asn[q] # None
    OBVIOUS
  <2>1. PICK k \in 1 .. n : q = Nodes[k]
    BY <1>6
  <2> QED
    BY <1>8, <1>15, <2>1
<1>17. dash.last > 0
  BY <1>1, <1>11, <1>16
<1>18. \E q \in Routers, o \in Routers \ Isps : q # o /\ originated_of(Conf(q)) # <<>>
  BY <1>2, <1>4 DEF PrefixesKnown, LookedFor
<1>19. ASSUME NEW q \in Routers, NEW o \in Routers \ Isps, q # o
       PROVE  Range(originated_of(Conf(q))) \subseteq DOMAIN RoutesOf(files, Heard(o))
  <2>1. CASE originated_of(Conf(q)) = <<>>
    BY <2>1 DEF Range
  <2>2. CASE originated_of(Conf(q)) # <<>>
    <3> DEFINE a == <<q, o>>
    <3>1. a \in LookedFor /\ a[1] = q /\ a[2] = o
      BY <1>2, <1>4, <1>19, <2>2 DEF LookedFor
    <3> HIDE DEF a
    <3> QED
      BY <3>1 DEF PrefixesKnown, Knows
  <2> QED
    BY <2>1, <2>2
<1> QED
  BY <1>1, <1>2, <1>4, <1>7, <1>16, <1>17, <1>18, <1>19 DEF LabUp, AddressesSit

LEMMA UpSaysRows ==
  ASSUME LabTyped, Sessions, DashRight, LabUp
  PROVE  RoutersRun /\ SessionsStand /\ AddressesSit /\ PrefixesKnown /\ Answers /\ NamesTold /\ HasRead
<1>1. /\ files \in Files /\ dash # None /\ web = "dashboard"
      /\ Range(Nodes) = Routers /\ NodeNames = Routers
      /\ Expected # {} /\ Expected \subseteq est
      /\ \A r \in Routers : dash.asn[r] = asn_of(Conf(r)) /\ dash.asn[r] # None
      /\ \A r \in Routers : Running(r)
  BY DEF LabUp, LabTyped
<1>2. PICK r0 \in Routers : ifaces_of(Conf(r0)) # <<>>
  BY <1>1, SomeoneSpeaks
<1>3. RoutersRun
  BY <1>1 DEF RoutersRun
<1>4. SessionsStand
  BY <1>1 DEF SessionsStand, Expected, ExpectedOf
<1>5. AddressesSit
  BY <1>1, <1>2 DEF AddressesSit, LabUp
<1>6. PrefixesKnown
  <2>1. LookedFor # {}
    <3>1. PICK q \in Routers, r \in Routers \ Isps : q # r /\ originated_of(Conf(q)) # <<>>
      BY DEF LabUp
    <3>2. <<q, r>> \in LookedFor
      BY <1>1, <3>1 DEF LookedFor
    <3> QED
      BY <3>2
  <2>2. ASSUME NEW a \in LookedFor, NEW p \in Range(originated_of(Conf(a[1]))) PROVE Knows(a[2], p)
    <3>1. a[1] \in Routers /\ a[2] \in Routers \ Isps /\ a[1] # a[2]
      BY <1>1 DEF LookedFor
    <3> QED
      BY <1>1, <3>1 DEF LabUp, Knows
  <2> QED
    BY <2>1, <2>2 DEF PrefixesKnown
<1>7. Answers /\ HasRead
  BY <1>1, <1>2 DEF Answers, HasRead
<1>8. NamesTold
  <2> DEFINE n == Len(Nodes)
             asns == [k \in 1 .. n |-> dash.asn[Nodes[k]]]
             wants == ToldASNs
             S == Range(asns) \ {None}
  <2>1. Listed(files) = Nodes /\ Nodes \in Seq(Range(Nodes))
    BY <1>1, ListedIs, NodesListed DEF Nodes
  <2>2. n \in Nat /\ DOMAIN Nodes = 1 .. n /\ \A k \in 1 .. n : Nodes[k] \in Routers
    BY <1>1, <2>1 DEF Range
  <2>3. asns = wants /\ \A k \in 1 .. n : wants[k] # None
    BY <1>1, <2>2 DEF ToldASNs
  <2>4. PICK m \in 0 .. n :
          /\ \A k \in 1 .. m : wants[k] = None
          /\ Len(WantedASNs) = n - m
          /\ \A k \in 1 .. n - m : WantedASNs[k] = wants[m + k]
    BY <2>1, <2>2, WantedIs
  <2>5. WantedASNs \in Seq(Range(wants))
    BY <2>1, <2>2, WantedIs
  <2>6. asns \in Seq(Range(asns)) /\ Range(asns) \subseteq S
    <3>1. asns = [k \in 1 .. n |-> asns[k]] /\ \A k \in 1 .. n : asns[k] \in Range(asns)
      BY DEF Range
    <3>2. DOMAIN asns = 1 .. n
      OBVIOUS
    <3> HIDE DEF asns, wants, n
    <3>3. \A x \in Range(asns) : x # None
      BY <2>3, <3>2 DEF Range
    <3> QED
      BY <2>2, <3>1, <3>3
  <2>7. wants = [k \in 1 .. n |-> wants[k]]
    BY <2>2 DEF ToldASNs
  <2> HIDE DEF asns, wants, S
  <2>8. Select(asns, S) = asns
    BY <2>6, SelectAll
  <2>9. m = 0
    <3>1. m > 0 => 1 \in 1 .. m /\ 1 \in 1 .. n
      BY <2>2
    <3> QED
      BY <2>2, <2>3, <2>4, <3>1
  <2>10. WantedASNs = wants
    <3> HIDE DEF n
    <3>1. Len(WantedASNs) = n /\ \A k \in 1 .. n : WantedASNs[k] = wants[k]
      BY <2>2, <2>4, <2>9
    <3>2. WantedASNs = [k \in 1 .. n |-> WantedASNs[k]]
      BY <2>5, <3>1
    <3> QED
      BY <2>7, <3>1, <3>2
  <2>11. ReadASNs = asns
    BY <2>1, <2>2 DEF asns, ReadASNs
  <2>12. dashboard(StateOf(files, dash.asn), FALSE, Nodes, WantedASNs) = 0
    BY <1>1, <2>1, <2>3, <2>8, <2>10, <2>11, DashboardSays DEF S
  <2> QED
    BY <1>7, <2>12 DEF NamesTold
<1> QED
  BY <1>3, <1>4, <1>5, <1>6, <1>7, <1>8

-----------------------------------------------------------------------------
(* No FAIL is the same as all rows PASS.                                   *)
LEMMA NoneFails ==
  ASSUME NEW n \in Nat, DOMAIN check.printed = 1 .. n
  PROVE  fails = 0 <=> \A k \in 1 .. n : check.printed[k].ok
<1> DEFINE S == {k \in DOMAIN check.printed : ~ check.printed[k].ok}
<1>1. IsFiniteSet(1 .. n)
  BY FS_Interval
<1>2. IsFiniteSet(S)
  <2>1. S \subseteq 1 .. n
    OBVIOUS
  <2> HIDE DEF S
  <2> QED
    BY <1>1, <2>1, FS_Subset
<1>3. fails = Cardinality(S)
  BY DEF fails
<1>4. S = {} <=> \A k \in 1 .. n : check.printed[k].ok
  OBVIOUS
<1> HIDE DEF S
<1>5. Cardinality(S) = 0 <=> S = {}
  BY <1>2, FS_EmptySet
<1> QED
  BY <1>3, <1>4, <1>5

LEMMA ExitTells ==
  ASSUME NoneAside, IInv, Telling
  PROVE  CheckTellsTheLab
<1> DEFINE printed == check.printed
           last == check.last_id
           overtaken == last # None /\ dash # None /\ dash.last >= last + EVENTS_RING
<1> SUFFICES ASSUME check.row = "exit", calm, ~ overtaken
             PROVE  fails = 0 <=> LabUp
  BY DEF CheckTellsTheLab
<1>1. LabTyped /\ Sessions /\ DashRight /\ CheckInv
  BY DEF IInv, Telling
<1>2. Tells(printed) /\ TellsEvents(printed, last)
  BY DEF Telling
<1>3. PICK n \in {7, 8} : DOMAIN printed = 1 .. n /\ (n = 8 => last # None)
  <2>1. PICK list, raw, id : Checking("exit", list, raw, id)
    BY <1>1, CheckingAt
  <2>2. check.printed = list /\ check.last_id = id
    BY <2>1 DEF Checking, Holds
  <2>3. Owes(7, list) \/ (Owes(8, list) /\ id # None)
    BY <2>1 DEF Checking, Standing
  <2> QED
    BY <2>2, <2>3 DEF Owes
<1>4. n \in Nat /\ 1 .. 6 \subseteq 1 .. n /\ 7 \in 1 .. n /\ (8 \in 1 .. n => n = 8)
      /\ \A k \in 1 .. n : k \in 1 .. 6 \/ k = 7 \/ k = 8
  BY <1>3
<1>5. fails = 0 <=> \A k \in 1 .. n : printed[k].ok
  BY <1>3, <1>4, NoneFails
<1>6. /\ printed[1].ok <=> RoutersRun
      /\ printed[2].ok <=> SessionsStand
      /\ printed[3].ok <=> AddressesSit
      /\ printed[4].ok <=> PrefixesKnown
      /\ printed[5].ok <=> Answers
      /\ printed[6].ok <=> NamesTold
  BY <1>2, <1>3, <1>4 DEF Tells
<1> HIDE DEF printed, last
<1>7. ASSUME fails = 0 PROVE LabUp
  <2>1. \A k \in 1 .. 6 : printed[k].ok
    BY <1>4, <1>5, <1>7
  <2>2. printed[1].ok /\ printed[2].ok /\ printed[3].ok /\ printed[4].ok /\ printed[5].ok /\ printed[6].ok
    BY <2>1
  <2> QED
    BY <1>1, <1>6, <2>2, RowsSayUp
<1>8. ASSUME LabUp PROVE fails = 0
  <2>1. RoutersRun /\ SessionsStand /\ AddressesSit /\ PrefixesKnown /\ Answers /\ NamesTold /\ HasRead
    BY <1>1, <1>8, UpSaysRows
  <2>2. \A k \in 1 .. 6 : printed[k].ok
    <3>1. printed[1].ok /\ printed[2].ok /\ printed[3].ok /\ printed[4].ok /\ printed[5].ok /\ printed[6].ok
      BY <1>6, <2>1
    <3> QED
      BY <3>1
  <2>3. printed[7].ok /\ last \in 1 .. dash.last
    BY <1>2, <1>3, <1>4, <2>1 DEF TellsEvents
  <2>4. n = 8 => printed[8].ok
    <3> SUFFICES ASSUME n = 8 PROVE printed[8].ok
      OBVIOUS
    <3>1. last # None /\ dash # None /\ 8 \in DOMAIN printed
      BY <1>3, <2>1 DEF HasRead, Answers
    <3>2. dash.last \in Nat
      BY <1>1, <3>1, LabAssumption DEF LabTyped
    <3>3. dash.last < last + EVENTS_RING
      BY <2>3, <3>1, <3>2, LabAssumption
    <3> QED
      BY <1>2, <2>1, <3>1, <3>3 DEF TellsEvents
  <2>5. \A k \in 1 .. n : printed[k].ok
    BY <1>4, <2>2, <2>3, <2>4
  <2> QED
    BY <1>5, <2>5
<1> QED
  BY <1>7, <1>8

(* Of a lab that does not change meanwhile, check.sh prints no FAIL if the *)
(* lab is up and only then, unless the configurations leave a router aside *)
(* that has neither an AS nor a session.                                   *)
THEOREM CheckAlwaysTellsTheLab == NoneAside => (Spec => []CheckTellsTheLab)
<1> SUFFICES ASSUME NoneAside PROVE Spec => []CheckTellsTheLab
  OBVIOUS
<1>1. Init => Telling
  BY TellingBegins
<1>2. IInv /\ Telling /\ [Next]_vars => Telling'
  BY TellingStays
<1>3. IInv /\ Telling => CheckTellsTheLab
  BY ExitTells
<1> QED
  BY <1>1, <1>2, <1>3, IInvAlways, PTL DEF Spec
=============================================================================

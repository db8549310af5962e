----------------------------- MODULE StreamProofs -----------------------------
(***************************************************************************)
(* Safety of TcpChat and EpollServer, as Concurrent runs them.             *)
(*                                                                         *)
(* TcpChat, for any connections, table, file and chunks: the invariant     *)
(* ties the array the loop polls to the connections and their descriptors. *)
(*                                                                         *)
(* EpollServer, for any clients, table, buffer and files: the invariant    *)
(* places the parser of each connection at a unit of the stream of the     *)
(* client's last request, with what was sent of that stream divided        *)
(* between the parser's buffer, the socket and the network.                *)
(***************************************************************************)
EXTENDS Concurrent, TLAPS, SequenceTheorems, FiniteSetTheorems, WellFoundedInduction

-----------------------------------------------------------------------------
(* Induction over the natural numbers *)

\* A set of natural numbers has a least element.
LEMMA NatMin ==
  ASSUME NEW T \in SUBSET Nat, T # {}
  PROVE  \E n \in T : \A m \in T : n <= m
<1>1. \E n \in T : \A m \in T : ~ (<<m, n>> \in OpToRel(<, Nat))
  BY WFMin, NatLessThanWellFounded
<1>2. PICK n \in T : \A m \in T : ~ (<<m, n>> \in OpToRel(<, Nat))
  BY <1>1
<1>3. ASSUME NEW m \in T PROVE ~ (m < n)
  <2>1. m \in Nat /\ n \in Nat
    OBVIOUS
  <2>2. <<m, n>> \notin OpToRel(<, Nat)
    BY <1>2
  <2>. QED
    BY <2>1, <2>2, Zenon DEF OpToRel
<1>. QED
  BY <1>3

-----------------------------------------------------------------------------
(* The poll loop of the chat server *)

\* Induction up to a bound.
LEMMA UpTo ==
  ASSUME NEW L \in Nat, NEW T, 0 \in T, \A n \in 0 .. L : n \in T /\ n < L => n + 1 \in T
  PROVE  \A n \in 0 .. L : n \in T
<1>. DEFINE U == {n \in 0 .. L : n \notin T}
<1>1. SUFFICES ASSUME U # {} PROVE FALSE
  OBVIOUS
<1>2. PICK n \in U : \A m \in U : n <= m
  <2>1. U \in SUBSET Nat
    OBVIOUS
  <2>. QED
    BY <1>1, <2>1, NatMin
<1>3. n - 1 \in 0 .. L /\ n - 1 \in T /\ n - 1 < L /\ n - 1 + 1 = n
  BY <1>2
<1>. QED
  BY <1>2, <1>3

\* The function the loop over new_nfds computes, up to the m-th entry.
KeptTo(s, m, f) ==
    f = [n \in 0 .. m |-> IF n = 0 THEN <<>>
                          ELSE IF s[n] = 0 THEN f[n - 1] ELSE Append(f[n - 1], s[n])]

LEMMA KeptExists ==
  ASSUME NEW s, NEW L \in Nat
  PROVE  \E f : KeptTo(s, L, f)
<1>. DEFINE T == {m \in Nat : \E f : KeptTo(s, m, f)}
<1>1. 0 \in T
  <2>. DEFINE f == [n \in 0 .. 0 |-> <<>>]
  <2>1. f = [n \in 0 .. 0 |-> IF n = 0 THEN <<>>
                          ELSE IF s[n] = 0 THEN f[n - 1] ELSE Append(f[n - 1], s[n])]
    OBVIOUS
  <2>2. KeptTo(s, 0, f)
    BY <2>1, Zenon DEF KeptTo
  <2>. QED
    BY <2>2
<1>2. ASSUME NEW m \in Nat, m \in T PROVE m + 1 \in T
  <2>1. PICK f : KeptTo(s, m, f)
    BY <1>2
  <2>2. \A n \in 0 .. m : f[n] = IF n = 0 THEN <<>>
                          ELSE IF s[n] = 0 THEN f[n - 1] ELSE Append(f[n - 1], s[n])
    BY <2>1 DEF KeptTo
  <2>. DEFINE g == [n \in 0 .. m + 1 |->
                      IF n <= m THEN f[n]
                      ELSE IF s[m + 1] = 0 THEN f[m] ELSE Append(f[m], s[m + 1])]
  <2>3. \A n \in 0 .. m + 1 : g[n] = IF n = 0 THEN <<>>
                          ELSE IF s[n] = 0 THEN g[n - 1] ELSE Append(g[n - 1], s[n])
    <3>. SUFFICES ASSUME NEW n \in 0 .. m + 1
                  PROVE  g[n] = IF n = 0 THEN <<>>
                          ELSE IF s[n] = 0 THEN g[n - 1] ELSE Append(g[n - 1], s[n])
      OBVIOUS
    <3>1. CASE n = 0
      BY <2>2, <3>1
    <3>2. CASE n # 0 /\ n <= m
      <4>1. n - 1 \in 0 .. m /\ n \in 0 .. m
        BY <3>2
      <4>2. g[n] = f[n] /\ g[n - 1] = f[n - 1]
        BY <3>2, <4>1
      <4>. QED
        BY <2>2, <3>2, <4>1, <4>2
    <3>3. CASE n = m + 1
      BY <3>3
    <3>. QED
      BY <3>1, <3>2, <3>3
  <2>. HIDE DEF g
  <2>4. g = [n \in 0 .. m + 1 |-> g[n]]
    BY DEF g
  <2>5. KeptTo(s, m + 1, g)
    BY <2>3, <2>4 DEF KeptTo
  <2>. QED
    BY <2>5
<1>. HIDE DEF T
<1>3. \A n \in 0 .. L : n \in T
  BY <1>1, <1>2, UpTo
<1>. QED
  BY <1>3 DEF T

Distinct(s) == \A i, j \in 1 .. Len(s) : s[i] # 0 /\ s[i] = s[j] => i = j

\* The nonzero entries stay, each once if it was there once.
SameEntries(s, r) ==
    /\ r \in Seq(Nat)
    /\ \A e \in Nat : (\E j \in 1 .. Len(r) : r[j] = e)
                        <=> e # 0 /\ \E i \in 1 .. Len(s) : s[i] = e
    /\ Distinct(s) => \A i, j \in 1 .. Len(r) : r[i] = r[j] => i = j

LEMMA KeptEntries ==
  ASSUME NEW s \in Seq(Nat), NEW r, r = Chat!Kept(s)
  PROVE  SameEntries(s, r)
<1>. DEFINE c == CHOOSE f : KeptTo(s, Len(s), f)
<1>1. Len(s) \in Nat /\ \A i \in 1 .. Len(s) : s[i] \in Nat
  BY LenProperties, ElementOfSeq
<1>2. KeptTo(s, Len(s), c)
  BY <1>1, KeptExists
<1>3. r = c[Len(s)]
  BY Zenon DEF Chat!Kept, KeptTo
<1>. HIDE DEF c
<1>4. \A n \in 0 .. Len(s) : c[n] = IF n = 0 THEN <<>>
                          ELSE IF s[n] = 0 THEN c[n - 1] ELSE Append(c[n - 1], s[n])
  BY <1>2 DEF KeptTo
<1>. DEFINE Good(n) ==
       /\ c[n] \in Seq(Nat)
       /\ \A e \in Nat : (\E j \in 1 .. Len(c[n]) : c[n][j] = e)
                           <=> e # 0 /\ \E i \in 1 .. n : s[i] = e
       /\ Distinct(s) => \A i, j \in 1 .. Len(c[n]) : c[n][i] = c[n][j] => i = j
     T == {n \in 0 .. Len(s) : Good(n)}
<1>5. 0 \in T
  <2>1. c[0] = <<>> /\ 0 \in 0 .. Len(s)
    BY <1>1, <1>4
  <2>2. <<>> \in Seq(Nat) /\ Len(<<>>) = 0
    BY EmptySeq
  <2>3. \A i \in 1 .. 0 : FALSE
    OBVIOUS
  <2>4. Good(0)
    BY <2>1, <2>2, <2>3
  <2>. HIDE DEF Good
  <2>. QED
    BY <2>1, <2>4
<1>6. ASSUME NEW n \in 0 .. Len(s), n \in T, n < Len(s) PROVE n + 1 \in T
  <2>0. Good(n)
    <3>. HIDE DEF Good
    <3>. QED
      BY <1>6
  <2>1. n + 1 \in 1 .. Len(s) /\ n + 1 \in 0 .. Len(s) /\ (n + 1) - 1 = n
    BY <1>1, <1>6
  <2>. DEFINE d == c[n]
  <2>2. c[n + 1] = IF s[n + 1] = 0 THEN d ELSE Append(d, s[n + 1])
    <3>1. c[n + 1] = IF n + 1 = 0 THEN <<>>
                     ELSE IF s[n + 1] = 0 THEN c[(n + 1) - 1] ELSE Append(c[(n + 1) - 1], s[n + 1])
      BY <1>4, <2>1
    <3>. QED
      BY <2>1, <3>1
  <2>3. /\ d \in Seq(Nat) /\ Len(d) \in Nat
        /\ \A e \in Nat : (\E j \in 1 .. Len(d) : d[j] = e) <=> e # 0 /\ \E i \in 1 .. n : s[i] = e
        /\ Distinct(s) => \A i, j \in 1 .. Len(d) : d[i] = d[j] => i = j
        /\ \A i \in 1 .. Len(d) : d[i] \in Nat
    BY <2>0, LenProperties, ElementOfSeq
  <2>. HIDE DEF d
  <2>4. CASE s[n + 1] = 0
    <3>1. \A e \in Nat : e # 0 => ((\E i \in 1 .. n : s[i] = e) <=> \E i \in 1 .. n + 1 : s[i] = e)
      BY <1>1, <2>1, <2>4
    <3>2. c[n + 1] = d
      BY <2>2, <2>4
    <3>3. Good(n + 1)
      BY <2>3, <3>1, <3>2
    <3>. HIDE DEF Good
    <3>. QED
      BY <2>1, <3>3
  <2>5. CASE s[n + 1] # 0
    <3>. DEFINE x == s[n + 1]
                a == Append(d, x)
    <3>1. /\ x \in Nat /\ x # 0
          /\ a \in Seq(Nat) /\ Len(a) = Len(d) + 1
          /\ \A i \in 1 .. Len(d) : a[i] = d[i]
          /\ a[Len(d) + 1] = x
      BY <1>1, <2>1, <2>3, <2>5, AppendProperties
    <3>2. Distinct(s) => \A i \in 1 .. n : s[i] # x
      BY <1>1, <2>1, <2>5 DEF Distinct
    <3>3. Distinct(s) => \A j \in 1 .. Len(d) : d[j] # x
      BY <2>3, <3>1, <3>2
    <3>. HIDE DEF x, a
    <3>4. \A i \in 1 .. n + 1 : i \in 1 .. n \/ (i = n + 1 /\ s[i] = x)
      BY <1>1 DEF x
    <3>5. \A j \in 1 .. Len(a) : j \in 1 .. Len(d) \/ j = Len(d) + 1
      BY <2>3, <3>1
    <3>6. \A e \in Nat : (\E j \in 1 .. Len(a) : a[j] = e) <=> e # 0 /\ \E i \in 1 .. n + 1 : s[i] = e
      <4>. SUFFICES ASSUME NEW e \in Nat
                    PROVE  (\E j \in 1 .. Len(a) : a[j] = e) <=> e # 0 /\ \E i \in 1 .. n + 1 : s[i] = e
        OBVIOUS
      <4>1. (\E j \in 1 .. Len(a) : a[j] = e) <=> (\E j \in 1 .. Len(d) : d[j] = e) \/ e = x
        <5>1. ASSUME NEW j \in 1 .. Len(a), a[j] = e PROVE (\E i \in 1 .. Len(d) : d[i] = e) \/ e = x
          BY <3>1, <3>5, <5>1
        <5>2. ASSUME NEW j \in 1 .. Len(d), d[j] = e PROVE j \in 1 .. Len(a) /\ a[j] = e
          BY <2>3, <3>1, <5>2
        <5>3. Len(d) + 1 \in 1 .. Len(a) /\ a[Len(d) + 1] = x
          BY <2>3, <3>1
        <5>. QED
          BY <5>1, <5>2, <5>3
      <4>2. (\E i \in 1 .. n + 1 : s[i] = e) <=> (\E i \in 1 .. n : s[i] = e) \/ e = x
        BY <2>1, <3>4 DEF x
      <4>. QED
        BY <2>3, <3>1, <4>1, <4>2
    <3>7. Distinct(s) => \A i, j \in 1 .. Len(a) : a[i] = a[j] => i = j
      <4>. SUFFICES ASSUME Distinct(s), NEW i \in 1 .. Len(a), NEW j \in 1 .. Len(a), a[i] = a[j]
                    PROVE  i = j
        OBVIOUS
      <4>1. /\ (i \in 1 .. Len(d) /\ a[i] = d[i]) \/ (i = Len(d) + 1 /\ a[i] = x)
            /\ (j \in 1 .. Len(d) /\ a[j] = d[j]) \/ (j = Len(d) + 1 /\ a[j] = x)
        BY <3>1, <3>5
      <4>. QED
        BY <2>3, <3>3, <4>1
    <3>8. c[n + 1] = a
      BY <2>2, <2>5 DEF a, x
    <3>9. Good(n + 1)
      BY <3>1, <3>6, <3>7, <3>8
    <3>. HIDE DEF Good
    <3>. QED
      BY <2>1, <3>9
  <2>. QED
    BY <2>4, <2>5
<1>. HIDE DEF T
<1>7. \A n \in 0 .. Len(s) : n \in T
  BY <1>1, <1>5, <1>6, UpTo
<1>8. Good(Len(s))
  <2>1. Len(s) \in 0 .. Len(s)
    BY <1>1
  <2>. HIDE DEF Good
  <2>. QED
    BY <1>7, <2>1 DEF T
<1>. QED
  BY <1>3, <1>8 DEF SameEntries


Parts == [k : {"text", "nl", "data"}, n : Nat, i : Nat]
Peers == {"none", "backlog", "open", "fin", "rst", "rst_fin", "closed"}

ChatTypes ==
    /\ peer \in [ChatConns -> Peers] /\ fd \in [ChatConns -> Nat]
    /\ up \in [ChatConns -> Seq(Parts)] /\ tcUser \in [ChatConns -> {"new", "in", "out"}]
    /\ said \in Seq([by : ChatConns, size : Nat])
    /\ pollfds \in Seq(Nat) /\ todo \subseteq 1 .. Len(pollfds)

\* A connection has a descriptor of its own from accept to the end.
DescriptorInv == \A c \in ChatConns :
    /\ tcUser[c] = "new" => peer[c] = "none"
    /\ peer[c] \in {"none", "backlog", "closed"} => fd[c] = 0
    /\ peer[c] = "backlog" => up[c] # <<>>
    /\ \A d \in ChatConns : fd[c] # 0 /\ fd[c] = fd[d] => c = d

\* The entries of pollfds that are not cleared are the descriptors, each once.
Polled(fds) ==
    /\ \A c \in ChatConns : fd[c] # 0 => \E i \in 1 .. Len(fds) : fds[i] = fd[c]
    /\ \A i \in 1 .. Len(fds) : fds[i] # 0 => \E c \in ChatConns : fd[c] = fds[i]
    /\ \A i, j \in 1 .. Len(fds) : fds[i] # 0 /\ fds[i] = fds[j] => i = j

RoundInv == ~dropped /\ server # "down" =>
    /\ Polled(pollfds)
    /\ server = "poll" => todo = {} /\ \A i \in 1 .. Len(pollfds) : pollfds[i] # 0
    /\ \A i \in todo, c \in ChatConns : fd[c] # 0 /\ fd[c] = pollfds[i] => Chat!Pending(c)

ChatInv == ChatTypes /\ DescriptorInv /\ RoundInv

LEMMA ChatInit ==
  ASSUME Chat!Init
  PROVE  ChatInv
<1>1. <<>> \in Seq(Parts) /\ <<>> \in Seq(Nat) /\ <<>> \in Seq([by : ChatConns, size : Nat]) /\ Len(<<>>) = 0
  BY EmptySeq
<1>2. ChatTypes
  BY <1>1 DEF Chat!Init, ChatTypes, Peers
<1>3. DescriptorInv
  BY DEF Chat!Init, DescriptorInv
<1>4. RoundInv
  BY <1>1 DEF Chat!Init, RoundInv, Polled
<1>. QED
  BY <1>2, <1>3, <1>4 DEF ChatInv

\* A step that leaves the tables alone and takes nothing out of the streams.
LEMMA ChatQuiet ==
  ASSUME ChatInv, UNCHANGED <<fd, pollfds, todo, server, dropped>>, ChatTypes',
         \A c \in ChatConns : /\ tcUser'[c] = "new" => tcUser[c] = "new" /\ peer'[c] = peer[c]
                              /\ peer'[c] \in {"none", "backlog", "closed"} => fd[c] = 0
                              /\ peer'[c] = "backlog" => up'[c] # <<>>
                              /\ fd[c] # 0 /\ Chat!Pending(c) => Chat!Pending(c)'
  PROVE  ChatInv'
<1>1. DescriptorInv'
  BY DEF ChatInv, DescriptorInv
<1>2. RoundInv'
  BY DEF ChatInv, RoundInv, Polled
<1>. QED
  BY <1>1, <1>2 DEF ChatInv

LEMMA ClientPreserves ==
  ASSUME ChatInv, NEW c \in ChatConns,
         Chat!Join(c) \/ Chat!Say(c) \/ Chat!Listen(c) \/ Chat!ListenFile(c) \/ Chat!Leave(c)
  PROVE  ChatInv'
<1>. USE DEF ChatInv
<1>1. CASE Chat!Join(c)
  <2>1. /\ tcUser[c] = "new" /\ tcUser' = [tcUser EXCEPT ![c] = "in"]
        /\ peer' = [peer EXCEPT ![c] = "backlog"] /\ up' = [up EXCEPT ![c] = Chat!Greeting]
        /\ UNCHANGED <<said, fd, pollfds, todo, server, dropped>>
    BY <1>1 DEF Chat!Join
  <2>2. Chat!Greeting \in Seq(Parts) /\ Chat!Greeting # <<>>
    BY DEF Chat!Greeting, Chat!NL, Parts
  <2>3. ChatTypes'
    BY <2>1, <2>2 DEF ChatTypes, Peers
  <2>4. fd[c] = 0
    BY <2>1 DEF DescriptorInv
  <2>5. /\ peer'[c] = "backlog" /\ up'[c] # <<>> /\ tcUser'[c] = "in"
        /\ \A d \in ChatConns : d # c => peer'[d] = peer[d] /\ up'[d] = up[d] /\ tcUser'[d] = tcUser[d]
    BY <2>1, <2>2 DEF ChatTypes
  <2>. QED
    BY <2>1, <2>3, <2>4, <2>5, ChatQuiet DEF DescriptorInv, Chat!Pending
<1>2. CASE Chat!Say(c)
  <2>1. PICK size \in 0 .. ChatFile :
          /\ said' = Append(said, [by |-> c, size |-> size])
          /\ up' = [up EXCEPT ![c] = @ \o Chat!Stream(Len(said'), size)]
          /\ UNCHANGED <<tcUser, peer, fd, pollfds, todo, server, dropped>>
    BY <1>2 DEF Chat!Say, tcVars, Chat!tables
  <2>2. size \in Nat
    BY ConcurrentAssumption DEF ConcurrentAssumption
  <2>3. said' \in Seq([by : ChatConns, size : Nat]) /\ Len(said') \in Nat
    BY <2>1, <2>2, AppendProperties, LenProperties DEF ChatTypes
  <2>. DEFINE s == Chat!Stream(Len(said'), size)
  <2>4. s \in Seq(Parts) /\ Len(s) \in Nat \ {0}
    <3>. DEFINE line == <<Chat!Text(Len(said')), Chat!NL>>
                pieces == [i \in 1 .. size |-> Chat!Piece(Len(said'), i)]
    <3>1. line \in Seq(Parts) /\ Len(line) = 2
      BY <2>3 DEF Chat!Text, Chat!NL, Parts
    <3>2. \A i \in 1 .. size : Chat!Piece(Len(said'), i) \in Parts
      BY <2>2, <2>3 DEF Chat!Piece, Parts
    <3>3. pieces \in Seq(Parts)
      <4>. HIDE DEF line
      <4>. QED
        BY <2>2, <3>2, IsASeq
    <3>4. s = line \o pieces
      BY DEF Chat!Stream
    <3>. HIDE DEF s, line, pieces
    <3>. QED
      BY <3>1, <3>3, <3>4, ConcatProperties, LenProperties
  <2>. HIDE DEF s
  <2>5. up[c] \in Seq(Parts) /\ up[c] \o s \in Seq(Parts) /\ up[c] \o s # <<>>
    <3>1. up[c] \in Seq(Parts)
      BY DEF ChatTypes
    <3>2. up[c] \o s \in Seq(Parts) /\ Len(up[c] \o s) = Len(up[c]) + Len(s) /\ Len(up[c]) \in Nat
      BY <2>4, <3>1, ConcatProperties, LenProperties
    <3>3. Len(up[c] \o s) # 0
      BY <2>4, <3>2
    <3>. QED
      BY <3>1, <3>2, <3>3, EmptySeq
  <2>6. up' = [up EXCEPT ![c] = up[c] \o s]
    BY <2>1 DEF s
  <2>7. ChatTypes'
    BY <2>1, <2>3, <2>5, <2>6 DEF ChatTypes
  <2>8. up'[c] # <<>> /\ \A d \in ChatConns : d # c => up'[d] = up[d]
    BY <2>5, <2>6 DEF ChatTypes
  <2>. QED
    BY <2>1, <2>7, <2>8, ChatQuiet DEF DescriptorInv, Chat!Pending
<1>3. CASE Chat!Listen(c) \/ Chat!ListenFile(c)
  <2>1. UNCHANGED <<tcUser, said, peer, up, fd, pollfds, todo, server, dropped>>
    BY <1>3 DEF Chat!Listen, Chat!ListenFile, Chat!tables, Chat!people
  <2>2. ChatTypes'
    BY <2>1 DEF ChatTypes
  <2>. QED
    BY <2>1, <2>2, ChatQuiet DEF DescriptorInv, Chat!Pending
<1>4. CASE Chat!Leave(c)
  <2>1. /\ tcUser[c] = "in" /\ tcUser' = [tcUser EXCEPT ![c] = "out"]
        /\ peer' = IF peer[c] # "open" THEN peer
                   ELSE [peer EXCEPT ![c] = IF tcDown[c] = <<>> THEN "fin" ELSE "rst"]
        /\ UNCHANGED <<said, up, fd, pollfds, todo, server, dropped>>
    BY <1>4 DEF Chat!Leave
  <2>2. /\ peer' \in [ChatConns -> Peers]
        /\ \A d \in ChatConns : peer'[d] = peer[d] \/ (peer[d] = "open" /\ peer'[d] \in {"fin", "rst"})
    BY <2>1 DEF ChatTypes, Peers
  <2>3. ChatTypes' /\ \A d \in ChatConns : tcUser'[d] = "new" => tcUser[d] = "new" /\ d # c
    BY <2>1, <2>2 DEF ChatTypes
  <2>4. \A d \in ChatConns : d # c => peer'[d] = peer[d]
    BY <2>1 DEF ChatTypes
  <2>. QED
    BY <2>1, <2>2, <2>3, <2>4, ChatQuiet DEF DescriptorInv, Chat!Pending
<1>. QED
  BY <1>1, <1>2, <1>3, <1>4

\* After the end of the server nothing is left to keep.
LEMMA ShutdownPreserves ==
  ASSUME ChatInv, Chat!Shutdown, UNCHANGED <<tcUser, said, pollfds>>
  PROVE  ChatInv'
<1>1. <<>> \in Seq(Parts)
  BY EmptySeq
<1>2. /\ server' = "down" /\ todo' = {}
      /\ peer' = [c \in ChatConns |-> IF peer[c] = "none" THEN "none" ELSE "closed"]
      /\ fd' = [c \in ChatConns |-> 0] /\ up' = [c \in ChatConns |-> <<>>]
  BY DEF Chat!Shutdown
<1>3. ChatTypes'
  BY <1>1, <1>2 DEF ChatInv, ChatTypes, Peers
<1>4. DescriptorInv'
  BY <1>2 DEF ChatInv, DescriptorInv
<1>. QED
  BY <1>2, <1>3, <1>4 DEF ChatInv, RoundInv

\* Among as many numbers as there are connections one is free for a new one.
LEMMA FreeDescriptor ==
  ASSUME ChatTypes, NEW c \in ChatConns, fd[c] = 0,
         NEW free, free = 1 .. Chat!Cardinality(ChatConns) \ {fd[d] : d \in ChatConns}
  PROVE  \E f \in free : \A g \in free : f <= g
<1>1. IsFiniteSet(ChatConns) /\ Cardinality(ChatConns) \in Nat
  BY ConcurrentAssumption, FS_CardinalityType DEF ConcurrentAssumption
<1>2. Chat!Cardinality(ChatConns) = Cardinality(ChatConns)
  BY Zenon DEF Chat!Cardinality, Cardinality
<1>. DEFINE N == Cardinality(ChatConns)
            others == ChatConns \ {c}
            inUse == {fd[d] : d \in others}
<1>3. IsFiniteSet(others) /\ Cardinality(others) = N - 1
  BY <1>1, FS_RemoveElement
<1>4. IsFiniteSet(inUse) /\ Cardinality(inUse) <= N - 1
  <2>1. [d \in others |-> fd[d]] \in Surjection(others, inUse)
    BY DEF Surjection
  <2>. HIDE DEF others, inUse
  <2>. QED
    BY <1>3, <2>1, FS_Surjection
<1>5. Cardinality(1 .. N) = N
  BY <1>1, FS_Interval
<1>6. ASSUME 1 .. N \subseteq inUse PROVE FALSE
  <2>1. Cardinality(1 .. N) <= Cardinality(inUse)
    BY <1>4, <1>6, FS_Subset
  <2>2. Cardinality(inUse) \in Nat
    BY <1>4, FS_CardinalityType
  <2>. QED
    BY <1>1, <1>4, <1>5, <2>1, <2>2
<1>7. PICK f \in 1 .. N : f \notin inUse
  BY <1>6
<1>8. f \in free
  BY <1>2, <1>7
<1>9. free \in SUBSET Nat
  BY <1>1, <1>2
<1>. QED
  BY <1>8, <1>9, NatMin

LEMMA RoundPreserves ==
  ASSUME ChatInv, Chat!Round
  PROVE  ChatInv'
<1>. USE DEF ChatInv
<1>. DEFINE ready   == {i \in DOMAIN pollfds : \E c \in Chat!Listed :
                          fd[c] = pollfds[i] /\ Chat!Pending(c)}
            waiting == {c \in ChatConns : peer[c] = "backlog"}
            oldest  == CHOOSE d \in waiting : \A e \in waiting : d <= e
            free    == 1 .. Chat!Cardinality(ChatConns) \ {fd[d] : d \in ChatConns}
            lowest  == CHOOSE f \in free : \A g \in free : f <= g
<1>1. /\ server = "poll" /\ server' = "round"
      /\ \/ waiting = {} /\ ready # {} /\ todo' = ready
            /\ UNCHANGED <<peer, fd, pollfds, up, mixed>>
         \/ waiting # {} /\ todo' = ready /\ peer' = [peer EXCEPT ![oldest] = "closed"]
            /\ up' = [up EXCEPT ![oldest] = <<>>]
            /\ UNCHANGED <<fd, pollfds, mixed>>
         \/ waiting # {}
            /\ fd' = [fd EXCEPT ![oldest] = lowest]
            /\ peer' = [peer EXCEPT ![oldest] = IF tcUser[oldest] = "out" THEN "fin" ELSE "open"]
            /\ pollfds' = Append(pollfds, lowest)
            /\ todo' \in {ready, ready \union {Len(pollfds')}}
            /\ UNCHANGED up
      /\ UNCHANGED <<tcUser, said, dropped>>
  BY Zenon DEF Chat!Round
<1>2. /\ DOMAIN pollfds = 1 .. Len(pollfds) /\ Len(pollfds) \in Nat
      /\ \A i \in 1 .. Len(pollfds) : pollfds[i] \in Nat
  BY LenProperties, ElementOfSeq DEF ChatTypes
<1>3. /\ ready \subseteq 1 .. Len(pollfds)
      /\ ~dropped => \A i \in ready, c \in ChatConns :
           fd[c] # 0 /\ fd[c] = pollfds[i] => Chat!Pending(c)
  BY <1>2 DEF Chat!Listed, DescriptorInv
<1>. HIDE DEF ready
<1>4. CASE waiting = {} /\ todo' = ready /\ UNCHANGED <<peer, fd, pollfds, up>>
  <2>1. ChatTypes' /\ DescriptorInv'
    BY <1>1, <1>3, <1>4 DEF ChatTypes, DescriptorInv
  <2>2. RoundInv'
    BY <1>1, <1>3, <1>4 DEF RoundInv, Polled, Chat!Pending
  <2>. QED
    BY <2>1, <2>2
<1>5. CASE waiting # {}
  <2>1. oldest \in waiting
    <3>1. waiting \in SUBSET Nat
      BY ConcurrentAssumption DEF ConcurrentAssumption
    <3>2. \E d \in waiting : \A e \in waiting : d <= e
      BY <1>5, <3>1, NatMin
    <3>. QED
      BY <3>2
  <2>. HIDE DEF oldest
  <2>2. PICK c : c = oldest /\ c \in ChatConns /\ peer[c] = "backlog" /\ fd[c] = 0 /\ up[c] # <<>>
    BY <2>1 DEF DescriptorInv
  <2>3. lowest \in free
    <3>1. \E f \in free : \A g \in free : f <= g
      BY <2>2, FreeDescriptor
    <3>. QED
      BY <3>1
  <2>. HIDE DEF lowest
  <2>4. PICK f : f = lowest /\ f \in Nat /\ f # 0 /\ \A d \in ChatConns : fd[d] # f
    BY <2>3
  <2>. HIDE DEF waiting, free
  <2>5. CASE /\ todo' = ready /\ peer' = [peer EXCEPT ![oldest] = "closed"]
             /\ up' = [up EXCEPT ![oldest] = <<>>]
             /\ UNCHANGED <<fd, pollfds>>
    <3>1. <<>> \in Seq(Parts)
      BY EmptySeq
    <3>2. /\ peer'[c] = "closed"
          /\ \A d \in ChatConns : d # c => peer'[d] = peer[d] /\ up'[d] = up[d]
      BY <2>2, <2>5 DEF ChatTypes
    <3>3. ChatTypes'
      BY <1>1, <1>3, <2>2, <2>5, <3>1 DEF ChatTypes, Peers
    <3>4. DescriptorInv'
      BY <1>1, <2>2, <2>5, <3>2 DEF DescriptorInv
    <3>5. RoundInv'
      <4>1. \A d \in ChatConns : fd[d] # 0 => d # c
        BY <2>2
      <4>2. \A d \in ChatConns : fd[d] # 0 /\ Chat!Pending(d) => Chat!Pending(d)'
        BY <3>2, <4>1 DEF Chat!Pending
      <4>. QED
        BY <1>1, <1>3, <2>5, <4>2 DEF RoundInv, Polled
    <3>. QED
      BY <3>3, <3>4, <3>5
  <2>6. CASE /\ fd' = [fd EXCEPT ![oldest] = lowest]
             /\ peer' = [peer EXCEPT ![oldest] = IF tcUser[oldest] = "out" THEN "fin" ELSE "open"]
             /\ pollfds' = Append(pollfds, lowest)
             /\ todo' \in {ready, ready \union {Len(pollfds')}}
             /\ UNCHANGED up
    <3>1. /\ fd' \in [ChatConns -> Nat] /\ fd'[c] = f
          /\ peer' \in [ChatConns -> Peers] /\ peer'[c] \in {"fin", "open"}
          /\ \A d \in ChatConns : d # c => peer'[d] = peer[d] /\ fd'[d] = fd[d]
      BY <2>2, <2>4, <2>6 DEF ChatTypes, Peers
    <3>2. /\ pollfds' \in Seq(Nat) /\ Len(pollfds') = Len(pollfds) + 1
          /\ \A i \in 1 .. Len(pollfds) : pollfds'[i] = pollfds[i]
          /\ pollfds'[Len(pollfds) + 1] = f
      BY <2>4, <2>6, AppendProperties DEF ChatTypes
    <3>7. /\ todo' \subseteq 1 .. Len(pollfds')
          /\ \A i \in todo' : i \in ready \/ i = Len(pollfds) + 1
      <4>1. todo' \subseteq ready \union {Len(pollfds) + 1}
        BY <2>6, <3>2
      <4>2. \A i \in ready : i \in 1 .. Len(pollfds')
        BY <1>2, <1>3, <3>2
      <4>3. Len(pollfds) + 1 \in 1 .. Len(pollfds')
        BY <1>2, <3>2
      <4>. QED
        BY <4>1, <4>2, <4>3
    <3>3. ChatTypes'
      BY <1>1, <2>6, <3>1, <3>2, <3>7 DEF ChatTypes
    <3>4. DescriptorInv'
      <4>. SUFFICES ASSUME NEW d \in ChatConns
                    PROVE  /\ tcUser'[d] = "new" => peer'[d] = "none"
                           /\ peer'[d] \in {"none", "backlog", "closed"} => fd'[d] = 0
                           /\ peer'[d] = "backlog" => up'[d] # <<>>
                           /\ \A e \in ChatConns : fd'[d] # 0 /\ fd'[d] = fd'[e] => d = e
        BY DEF DescriptorInv
      <4>. QED
        BY <1>1, <2>2, <2>4, <2>6, <3>1 DEF DescriptorInv
    <3>5. ASSUME ~dropped PROVE RoundInv'
      <4>1. /\ Polled(pollfds) /\ \A i \in 1 .. Len(pollfds) : pollfds[i] # 0
        BY <1>1, <3>5 DEF RoundInv
      <4>2. \A i \in 1 .. Len(pollfds) : pollfds[i] # f
        BY <2>4, <4>1 DEF Polled
      <4>3. \A i \in 1 .. Len(pollfds') :
              (i \in 1 .. Len(pollfds) /\ pollfds'[i] = pollfds[i]) \/ (i = Len(pollfds) + 1 /\ pollfds'[i] = f)
        BY <1>2, <3>2
      <4>4. \A i \in 1 .. Len(pollfds) : i \in 1 .. Len(pollfds')
        BY <1>2, <3>2
      <4>5. \A d \in ChatConns : fd'[d] # 0 => \E i \in 1 .. Len(pollfds') : pollfds'[i] = fd'[d]
        <5>1. Len(pollfds) + 1 \in 1 .. Len(pollfds')
          BY <1>2, <3>2
        <5>2. ASSUME NEW d \in ChatConns, fd'[d] # 0, d # c
              PROVE  \E i \in 1 .. Len(pollfds') : pollfds'[i] = fd'[d]
          BY <3>1, <3>2, <4>1, <4>4, <5>2 DEF Polled
        <5>. QED
          BY <3>1, <3>2, <5>1, <5>2
      <4>6. \A i \in 1 .. Len(pollfds') : \E d \in ChatConns : fd'[d] = pollfds'[i]
        <5>1. ASSUME NEW i \in 1 .. Len(pollfds)
              PROVE  \E d \in ChatConns : fd'[d] = pollfds[i]
          <6>1. PICK d \in ChatConns : fd[d] = pollfds[i]
            BY <4>1 DEF Polled
          <6>2. d # c
            BY <2>2, <4>1, <6>1
          <6>. QED
            BY <3>1, <6>1, <6>2
        <5>. QED
          BY <2>2, <3>1, <4>3, <5>1
      <4>7. \A i, j \in 1 .. Len(pollfds') : pollfds'[i] # 0 /\ pollfds'[i] = pollfds'[j] => i = j
        <5>. SUFFICES ASSUME NEW i \in 1 .. Len(pollfds'), NEW j \in 1 .. Len(pollfds'),
                             pollfds'[i] # 0, pollfds'[i] = pollfds'[j]
                      PROVE  i = j
          OBVIOUS
        <5>. QED
          BY <4>1, <4>2, <4>3 DEF Polled
      <4>8. \A i \in todo', d \in ChatConns : fd'[d] # 0 /\ fd'[d] = pollfds'[i] => Chat!Pending(d)'
        <5>. SUFFICES ASSUME NEW i \in todo', NEW d \in ChatConns, fd'[d] # 0, fd'[d] = pollfds'[i]
                      PROVE  Chat!Pending(d)'
          OBVIOUS
        <5>1. CASE d = c
          BY <2>2, <2>6, <5>1 DEF Chat!Pending
        <5>2. CASE d # c
          <6>1. fd[d] # 0 /\ fd'[d] = fd[d] /\ peer'[d] = peer[d]
            BY <3>1, <5>2
          <6>2. i # Len(pollfds) + 1
            BY <2>4, <3>2, <6>1
          <6>3. i \in ready /\ i \in 1 .. Len(pollfds) /\ pollfds'[i] = pollfds[i]
            BY <1>3, <3>2, <3>7, <6>2
          <6>. QED
            BY <1>3, <2>6, <3>5, <6>1, <6>3 DEF Chat!Pending
        <5>. QED
          BY <5>1, <5>2
      <4>. QED
        BY <1>1, <4>5, <4>6, <4>7, <4>8 DEF RoundInv, Polled
    <3>6. ASSUME dropped PROVE RoundInv'
      BY <1>1, <3>6 DEF RoundInv
    <3>. QED
      BY <3>3, <3>4, <3>5, <3>6
  <2>. QED
    BY <1>1, <1>5, <2>5, <2>6
<1>. HIDE DEF waiting, oldest, free, lowest
<1>. QED
  BY <1>1, <1>4, <1>5


LEMMA CurrentServed ==
  ASSUME ChatInv, server = "round", todo # {}
  PROVE  Chat!Current \in todo /\ \A j \in todo : Chat!Current <= j
<1>1. todo \in SUBSET Nat
  <2>1. Len(pollfds) \in Nat
    BY LenProperties DEF ChatInv, ChatTypes
  <2>. QED
    BY <2>1 DEF ChatInv, ChatTypes
<1>2. \E i \in todo : \A j \in todo : i <= j
  BY <1>1, NatMin
<1>. QED
  BY <1>2 DEF Chat!Current

\* Data of a client: what is sent on and to whom it fails.
LEMMA ProcessPreserves ==
  ASSUME ChatInv, server = "round", todo # {}, NEW c \in ChatConns, fd[c] # 0,
         fd[c] = pollfds[Chat!Current], Chat!Process(c)
  PROVE  ChatInv'
<1>. USE DEF ChatInv
<1>0. PICK i : i = Chat!Current /\ i \in todo /\ i \in 1 .. Len(pollfds)
  BY CurrentServed DEF ChatTypes
<1>5. PICK k \in 1 .. Len(up[c]) : \E p : Chat!Broadcast(c, k, p)
  BY DEF Chat!Process
<1>6. PICK p : Chat!Broadcast(c, k, p)
  BY <1>5
<1>. DEFINE targets == IF p.out = <<>> THEN {} ELSE Chat!Listed \ {c}
            lost    == {d \in targets : peer[d] = "rst"}
            fins    == {d \in targets : peer[d] = "fin"}
<1>1. PICK lateReset \in {FALSE, fins # {}} :
         /\ IF \E d \in targets : \/ peer[d] = "rst_fin"
                                  \/ d \in fins /\ Len(p.out) > 1 /\ ~lateReset
            THEN Chat!Shutdown /\ UNCHANGED <<tcDown, dropped>>
            ELSE /\ up' = [up EXCEPT ![c] = SubSeq(@, k + 1, Len(@))]
                 /\ tcDown' = [d \in ChatConns |-> IF d \in targets /\ peer[d] = "open"
                                 THEN tcDown[d] \o Chat!FlattenSeq(p.out) ELSE tcDown[d]]
                 /\ peer' = [d \in ChatConns |->
                               CASE d \in lost -> "closed"
                                 [] d \in fins -> IF lateReset THEN "fin" ELSE "rst_fin"
                                 [] OTHER     -> peer[d]]
                 /\ fd' = [d \in ChatConns |-> IF d \in lost THEN 0 ELSE fd[d]]
                 /\ sbuf' = [d \in ChatConns |-> IF d = c THEN p.buf
                                               ELSE IF d \in lost THEN <<>> ELSE sbuf[d]]
                 /\ dropped' = (dropped \/ lost # {})
                 /\ todo' = todo \ {Chat!Current} /\ UNCHANGED server
         /\ sfile' = [sfile EXCEPT ![c] = p.file]
         /\ UNCHANGED <<Chat!people, Chat!readers, pollfds>>
  BY <1>6, Zenon DEF Chat!Broadcast
<1>2. UNCHANGED <<tcUser, said, pollfds>>
  BY <1>1 DEF Chat!people
<1>3. CASE Chat!Shutdown
  BY <1>2, <1>3, ShutdownPreserves
<1>4. CASE /\ up' = [up EXCEPT ![c] = SubSeq(@, k + 1, Len(@))]
           /\ peer' = [d \in ChatConns |->
                         CASE d \in lost -> "closed"
                           [] d \in fins -> IF lateReset THEN "fin" ELSE "rst_fin"
                           [] OTHER     -> peer[d]]
           /\ fd' = [d \in ChatConns |-> IF d \in lost THEN 0 ELSE fd[d]]
           /\ dropped' = (dropped \/ lost # {})
           /\ todo' = todo \ {Chat!Current} /\ UNCHANGED server
  <2>1. /\ \A d \in lost : peer[d] = "rst" /\ d \in ChatConns
        /\ \A d \in fins : peer[d] = "fin" /\ d \in ChatConns
    BY DEF Chat!Listed
  <2>2. \A d \in ChatConns :
          /\ d \in lost => peer'[d] = "closed" /\ fd'[d] = 0
          /\ d \notin lost => /\ fd'[d] = fd[d]
                              /\ peer'[d] = peer[d] \/ (peer[d] = "fin" /\ peer'[d] \in {"fin", "rst_fin"})
    BY <1>4, <2>1
  <2>3. fd' \in [ChatConns -> Nat] /\ peer' \in [ChatConns -> Peers]
    <3>. HIDE DEF targets, fins, lost
    <3>1. \A d \in ChatConns : fd'[d] \in Nat /\ peer'[d] \in Peers
      BY <2>2 DEF ChatTypes, Peers
    <3>2. fd' = [d \in ChatConns |-> fd'[d]] /\ peer' = [d \in ChatConns |-> peer'[d]]
      BY <1>4
    <3>. QED
      BY <3>1, <3>2
  <2>4. /\ todo' = todo \ {i} /\ dropped' = (dropped \/ lost # {})
        /\ UNCHANGED <<server, tcUser, said, pollfds>>
    BY <1>0, <1>2, <1>4
  <2>. HIDE DEF targets, fins, lost
  <2>5. up' \in [ChatConns -> Seq(Parts)] /\ \A d \in ChatConns : d # c => up'[d] = up[d]
    <3>1. up[c] \in Seq(Parts) /\ \A j \in 1 .. Len(up[c]) : up[c][j] \in Parts
      BY ElementOfSeq DEF ChatTypes
    <3>2. k + 1 \in Nat /\ \A j \in k + 1 .. Len(up[c]) : up[c][j] \in Parts
      BY <3>1
    <3>3. SubSeq(up[c], k + 1, Len(up[c])) \in Seq(Parts)
      <4>1. k + 1 \in 1 .. Len(up[c]) + 1 /\ Len(up[c]) \in 0 .. Len(up[c])
        BY <3>1, LenProperties
      <4>. QED
        BY <3>1, <3>2, <4>1, SubSeqProperties
    <3>. QED
      BY <1>4, <3>3 DEF ChatTypes
  <2>6. ChatTypes'
    BY <2>3, <2>4, <2>5 DEF ChatTypes
  <2>7. DescriptorInv'
    <3>. SUFFICES ASSUME NEW d \in ChatConns
                  PROVE  /\ tcUser'[d] = "new" => peer'[d] = "none"
                         /\ peer'[d] \in {"none", "backlog", "closed"} => fd'[d] = 0
                         /\ peer'[d] = "backlog" => up'[d] # <<>>
                         /\ \A e \in ChatConns : fd'[d] # 0 /\ fd'[d] = fd'[e] => d = e
      BY DEF DescriptorInv
    <3>1. tcUser'[d] = "new" => peer'[d] = "none"
      BY <2>1, <2>2, <2>4 DEF DescriptorInv
    <3>2. peer'[d] \in {"none", "backlog", "closed"} => fd'[d] = 0
      BY <2>1, <2>2 DEF DescriptorInv
    <3>3. peer'[d] = "backlog" => up'[d] # <<>>
      BY <2>1, <2>2, <2>5 DEF DescriptorInv
    <3>4. \A e \in ChatConns : fd'[d] # 0 /\ fd'[d] = fd'[e] => d = e
      BY <2>2 DEF DescriptorInv
    <3>. QED
      BY <3>1, <3>2, <3>3, <3>4
  <2>8. CASE lost = {} /\ ~dropped
    <3>1. \A d \in ChatConns :
            /\ fd'[d] = fd[d] /\ (peer[d] # "open" => peer'[d] # "open")
      BY <2>2, <2>8
    <3>2. ASSUME NEW j \in todo', NEW d \in ChatConns, fd[d] # 0, fd[d] = pollfds[j]
          PROVE  Chat!Pending(d)'
      <4>1. Polled(pollfds) /\ j \in todo /\ j # i /\ j \in 1 .. Len(pollfds)
        BY <2>4, <2>8, <3>2 DEF RoundInv, ChatTypes
      <4>2. d # c
        BY <1>0, <3>2, <4>1 DEF Polled
      <4>3. Chat!Pending(d)
        BY <2>8, <3>2, <4>1 DEF RoundInv
      <4>. QED
        BY <2>5, <3>1, <4>2, <4>3 DEF Chat!Pending
    <3>. QED
      BY <2>4, <2>6, <2>7, <2>8, <3>1, <3>2 DEF RoundInv, Polled
  <2>9. CASE lost # {} \/ dropped
    BY <2>4, <2>6, <2>7, <2>9 DEF RoundInv
  <2>. QED
    BY <2>8, <2>9
<1>. HIDE DEF targets, lost, fins
<1>. QED
  BY <1>1, <1>3, <1>4

LEMMA HangupPreserves ==
  ASSUME ChatInv, server = "round", todo # {}, NEW c \in ChatConns, fd[c] # 0,
         fd[c] = pollfds[Chat!Current], Chat!Hangup(c)
  PROVE  ChatInv'
<1>. USE DEF ChatInv
<1>0. PICK i : i = Chat!Current /\ i \in todo /\ i \in 1 .. Len(pollfds)
  BY CurrentServed DEF ChatTypes
<1>1. /\ peer' = [peer EXCEPT ![c] = "closed"] /\ fd' = [fd EXCEPT ![c] = 0]
      /\ todo' = todo \ {i} /\ pollfds' = [pollfds EXCEPT ![i] = 0]
      /\ UNCHANGED <<tcUser, said, up, server, dropped>>
  BY <1>0 DEF Chat!Hangup, Chat!people, Chat!streams
<1>2. /\ pollfds' \in Seq(Nat) /\ Len(pollfds') = Len(pollfds) /\ pollfds'[i] = 0
      /\ \A j \in 1 .. Len(pollfds) : j # i => pollfds'[j] = pollfds[j]
  BY <1>0, <1>1, ExceptSeq DEF ChatTypes
<1>3. /\ peer' \in [ChatConns -> Peers] /\ fd' \in [ChatConns -> Nat]
      /\ peer'[c] = "closed" /\ fd'[c] = 0
      /\ \A d \in ChatConns : d # c => peer'[d] = peer[d] /\ fd'[d] = fd[d]
  BY <1>1 DEF ChatTypes, Peers
<1>4. ChatTypes'
  BY <1>1, <1>2, <1>3 DEF ChatTypes
<1>5. DescriptorInv'
  <2>. SUFFICES ASSUME NEW d \in ChatConns
                PROVE  /\ tcUser'[d] = "new" => peer'[d] = "none"
                       /\ peer'[d] \in {"none", "backlog", "closed"} => fd'[d] = 0
                       /\ peer'[d] = "backlog" => up'[d] # <<>>
                       /\ \A e \in ChatConns : fd'[d] # 0 /\ fd'[d] = fd'[e] => d = e
    BY DEF DescriptorInv
  <2>. QED
    BY <1>1, <1>3 DEF DescriptorInv
<1>6. ASSUME ~dropped PROVE RoundInv'
  <2>1. Polled(pollfds) /\ \A j \in todo, d \in ChatConns : fd[d] # 0 /\ fd[d] = pollfds[j] => Chat!Pending(d)
    BY <1>6 DEF RoundInv
  <2>2. \A j \in 1 .. Len(pollfds) : pollfds[j] = fd[c] => j = i
    BY <1>0, <2>1 DEF Polled
  <2>3. \A d \in ChatConns : fd'[d] # 0 => \E j \in 1 .. Len(pollfds) : pollfds'[j] = fd'[d]
    <3>1. ASSUME NEW d \in ChatConns, fd'[d] # 0
          PROVE  \E j \in 1 .. Len(pollfds) : pollfds'[j] = fd'[d]
      <4>1. d # c /\ fd'[d] = fd[d]
        BY <1>3, <3>1
      <4>2. PICK j \in 1 .. Len(pollfds) : pollfds[j] = fd[d]
        BY <2>1, <3>1, <4>1 DEF Polled
      <4>3. j # i
        BY <1>0, <3>1, <4>1, <4>2 DEF DescriptorInv
      <4>. QED
        BY <1>2, <4>1, <4>2, <4>3
    <3>. QED
      BY <3>1
  <2>4. \A j \in 1 .. Len(pollfds) : pollfds'[j] # 0 => \E d \in ChatConns : fd'[d] = pollfds'[j]
    <3>1. ASSUME NEW j \in 1 .. Len(pollfds), pollfds'[j] # 0
          PROVE  \E d \in ChatConns : fd'[d] = pollfds'[j]
      <4>1. j # i /\ pollfds'[j] = pollfds[j]
        BY <1>2, <3>1
      <4>2. PICK d \in ChatConns : fd[d] = pollfds[j]
        BY <2>1, <3>1, <4>1 DEF Polled
      <4>3. d # c
        BY <2>2, <4>1, <4>2
      <4>. QED
        BY <1>3, <4>1, <4>2, <4>3
    <3>. QED
      BY <3>1
  <2>5. \A j, l \in 1 .. Len(pollfds) : pollfds'[j] # 0 /\ pollfds'[j] = pollfds'[l] => j = l
    BY <1>2, <2>1 DEF Polled
  <2>6. ASSUME NEW j \in todo', NEW d \in ChatConns, fd'[d] # 0, fd'[d] = pollfds'[j]
        PROVE  Chat!Pending(d)'
    <3>1. d # c /\ j # i /\ j \in todo /\ j \in 1 .. Len(pollfds)
      BY <1>1, <1>3, <2>6 DEF ChatTypes
    <3>2. Chat!Pending(d)
      BY <1>2, <1>3, <2>1, <2>6, <3>1
    <3>. QED
      BY <1>1, <1>3, <3>1, <3>2 DEF Chat!Pending
  <2>. QED
    BY <1>1, <1>2, <2>3, <2>4, <2>5, <2>6 DEF RoundInv, Polled
<1>7. ASSUME dropped PROVE RoundInv'
  BY <1>1, <1>7 DEF RoundInv
<1>. QED
  BY <1>4, <1>5, <1>6, <1>7

LEMMA ServePreserves ==
  ASSUME ChatInv, Chat!Serve
  PROVE  ChatInv'
<1>1. server = "round" /\ todo # {}
  BY DEF Chat!Serve
<1>2. ASSUME NEW c \in Chat!Listed, fd[c] = pollfds[Chat!Current], Chat!Process(c) \/ Chat!Hangup(c)
      PROVE  ChatInv'
  BY <1>1, <1>2, ProcessPreserves, HangupPreserves DEF Chat!Listed
<1>3. CASE todo' = todo \ {Chat!Current}
           /\ UNCHANGED <<tcUser, said, up, peer, fd, pollfds, server, dropped>>
  <2>1. ChatTypes' /\ DescriptorInv'
    BY <1>3 DEF ChatInv, ChatTypes, DescriptorInv
  <2>2. RoundInv'
    BY <1>1, <1>3 DEF ChatInv, RoundInv, Polled, Chat!Pending
  <2>. QED
    BY <2>1, <2>2 DEF ChatInv
<1>. QED
  BY <1>2, <1>3 DEF Chat!Serve, Chat!people, Chat!streams, Chat!tables

LEMMA EndRoundPreserves ==
  ASSUME ChatInv, Chat!EndRound
  PROVE  ChatInv'
<1>. USE DEF ChatInv
<1>1. /\ server = "round" /\ todo = {} /\ server' = "poll" /\ pollfds' = Chat!Kept(pollfds)
      /\ UNCHANGED <<tcUser, said, up, peer, fd, todo, dropped>>
  BY DEF Chat!EndRound, Chat!people, Chat!streams, Chat!tables
<1>2. CASE ~dropped
  <2>1. Polled(pollfds) /\ pollfds \in Seq(Nat)
    BY <1>1, <1>2 DEF RoundInv, ChatTypes
  <2>2. /\ pollfds' \in Seq(Nat)
        /\ \A e \in Nat : (\E j \in 1 .. Len(pollfds') : pollfds'[j] = e)
                             <=> e # 0 /\ \E i \in 1 .. Len(pollfds) : pollfds[i] = e
        /\ \A i, j \in 1 .. Len(pollfds') : pollfds'[i] = pollfds'[j] => i = j
    <3>1. Distinct(pollfds)
      BY <2>1 DEF Polled, Distinct
    <3>. QED
      <4>1. PICK r : r = pollfds' /\ r = Chat!Kept(pollfds)
        BY <1>1
      <4>2. SameEntries(pollfds, r)
        BY <2>1, <4>1, KeptEntries
      <4>. QED
        BY <3>1, <4>1, <4>2 DEF SameEntries
  <2>3. ChatTypes' /\ DescriptorInv'
    BY <1>1, <2>2 DEF ChatTypes, DescriptorInv
  <2>4. \A j \in 1 .. Len(pollfds') : pollfds'[j] \in Nat /\ pollfds'[j] # 0
    BY <2>2, ElementOfSeq
  <2>5. Polled(pollfds)'
    <3>1. \A c \in ChatConns : fd[c] # 0 => \E i \in 1 .. Len(pollfds') : pollfds'[i] = fd[c]
      BY <2>1, <2>2 DEF Polled, ChatTypes
    <3>2. ASSUME NEW i \in 1 .. Len(pollfds') PROVE \E c \in ChatConns : fd[c] = pollfds'[i]
      <4>1. PICK j \in 1 .. Len(pollfds) : pollfds[j] = pollfds'[i]
        BY <2>2, <2>4
      <4>. QED
        BY <2>1, <2>4, <4>1 DEF Polled
    <3>. QED
      BY <1>1, <2>2, <3>1, <3>2 DEF Polled
  <2>. QED
    BY <1>1, <2>3, <2>4, <2>5 DEF RoundInv
<1>3. CASE dropped
  <2>1. pollfds' \in Seq(Nat)
    BY <1>1, KeptEntries DEF ChatTypes, SameEntries
  <2>. QED
    BY <1>1, <1>3, <2>1 DEF ChatTypes, DescriptorInv, RoundInv
<1>. QED
  BY <1>2, <1>3

LEMMA ChatNext ==
  ASSUME ChatInv, [Next]_vars
  PROVE  ChatInv'
<1>1. CASE Chat!Next
  <2>1. ASSUME Chat!Stop PROVE ChatInv'
    BY <2>1, ShutdownPreserves DEF Chat!Stop, Chat!people
  <2>. QED
    BY <1>1, <2>1, ClientPreserves, RoundPreserves, ServePreserves, EndRoundPreserves DEF Chat!Next
<1>2. CASE UNCHANGED tcVars
  <2>1. UNCHANGED <<tcUser, said, up, peer, fd, pollfds, todo, server, dropped>>
    BY <1>2 DEF tcVars
  <2>2. ChatTypes' /\ DescriptorInv'
    BY <2>1 DEF ChatInv, ChatTypes, DescriptorInv
  <2>3. RoundInv'
    BY <2>1 DEF ChatInv, RoundInv, Polled, Chat!Pending
  <2>. QED
    BY <2>2, <2>3 DEF ChatInv
<1>. QED
  BY <1>1, <1>2 DEF Next, vars

\* For any connections, table and files of module1/task7: until a broadcast closes a
\* descriptor, the loop polls the connected clients and nobody else, each once, and every
\* entry it is still to serve has something to read.
THEOREM LoopPollsTheConnected == Spec => []PollsTheConnected
<1>1. ASSUME ChatInv PROVE PollsTheConnected
  <2>. SUFFICES ASSUME ~dropped, server # "down"
                PROVE  /\ server = "poll" =>
                            /\ Chat!Range(pollfds) = {fd[c] : c \in Chat!Listed}
                            /\ Len(pollfds) = Chat!Cardinality(Chat!Listed)
                       /\ \A i \in todo, c \in Chat!Listed : fd[c] = pollfds[i] => Chat!Pending(c)
    BY DEF PollsTheConnected, Chat!PollsTheConnected
  <2>1. \A i \in todo, c \in Chat!Listed : fd[c] = pollfds[i] => Chat!Pending(c)
    BY <1>1 DEF ChatInv, RoundInv, Chat!Listed
  <2>2. ASSUME server = "poll"
        PROVE  /\ Chat!Range(pollfds) = {fd[c] : c \in Chat!Listed}
               /\ Len(pollfds) = Chat!Cardinality(Chat!Listed)
    <3>1. /\ \A i \in 1 .. Len(pollfds) : pollfds[i] # 0 /\ \E c \in Chat!Listed : fd[c] = pollfds[i]
          /\ \A c \in Chat!Listed : \E i \in 1 .. Len(pollfds) : pollfds[i] = fd[c]
          /\ \A i, j \in 1 .. Len(pollfds) : pollfds[i] = pollfds[j] => i = j
      BY <1>1, <2>2 DEF ChatInv, RoundInv, Polled, Chat!Listed
    <3>2. DOMAIN pollfds = 1 .. Len(pollfds) /\ Len(pollfds) \in Nat
      BY <1>1, LenProperties DEF ChatInv, ChatTypes
    <3>3. Chat!Range(pollfds) = {fd[c] : c \in Chat!Listed}
      BY <3>1, <3>2 DEF Chat!Range
    <3>. DEFINE whose == [i \in 1 .. Len(pollfds) |-> CHOOSE c \in Chat!Listed : fd[c] = pollfds[i]]
    <3>4. \A i \in 1 .. Len(pollfds) : whose[i] \in Chat!Listed /\ fd[whose[i]] = pollfds[i]
      BY <3>1
    <3>5. whose \in [1 .. Len(pollfds) -> Chat!Listed]
      BY <3>4
    <3>. HIDE DEF whose
    <3>6. \A i, j \in 1 .. Len(pollfds) : whose[i] = whose[j] => i = j
      BY <3>1, <3>4
    <3>7. \A c \in Chat!Listed : \E i \in 1 .. Len(pollfds) : whose[i] = c
      <4>1. \A c, d \in Chat!Listed : fd[c] = fd[d] => c = d
        BY <1>1 DEF ChatInv, DescriptorInv, Chat!Listed
      <4>. QED
        BY <3>1, <3>4, <4>1
    <3>8. whose \in Bijection(1 .. Len(pollfds), Chat!Listed)
      BY <3>5, <3>6, <3>7 DEF Bijection, Injection, Surjection, IsInjective
    <3>9. Cardinality(Chat!Listed) = Cardinality(1 .. Len(pollfds))
      <4>1. IsFiniteSet(1 .. Len(pollfds)) /\ ExistsBijection(1 .. Len(pollfds), Chat!Listed)
        BY <3>2, <3>8, FS_Interval DEF ExistsBijection
      <4>. QED
        BY <4>1, FS_Bijection
    <3>10. Cardinality(1 .. Len(pollfds)) = Len(pollfds)
      <4>1. \A k \in Nat : Cardinality(1 .. k) = k
        BY FS_Interval
      <4>. QED
        BY <3>2, <4>1
    <3>11. Chat!Cardinality(Chat!Listed) = Cardinality(Chat!Listed)
      BY Zenon DEF Chat!Cardinality, Cardinality
    <3>. QED
      BY <3>3, <3>9, <3>10, <3>11
  <2>. QED
    BY <2>1, <2>2
<1>2. ChatInv /\ [Next]_vars => ChatInv'
  BY ChatNext
<1>3. Init => ChatInv
  BY ChatInit DEF Init
<1>. QED
  BY <1>1, <1>2, <1>3, PTL DEF Spec

-----------------------------------------------------------------------------
(* The epoll server *)

Units   == [k : {"text", "nl", "size", "data", "fin"}, n : Nat \X Nat, nl : BOOLEAN]
Entries == [fd : {"closed", "backlog", "open"}, state : {"IDLE", "SIZE", "DATA"}, file : Nat,
            received : Nat, output : {"none", "open", "closed"}, buffer : Seq(Units)]
Answers == Seq(Nat \X {"answer", "OK", "ERR"})

Empty(r) == r.kind = "file" /\ r.size = 0

\* What the client is told when its n-th request r has been served.
Answer(r, n) == IF r.kind = "calc" THEN Epoll!Long(n) ELSE <<<<n, "OK">>>>

\* The parser has taken q units of the n-th request r; f is what it wrote for it.
Taking(e, f, r, n, q) ==
    /\ q # 1
    /\ q = 0 \/ r.kind = "calc" \/ (q = 4 + r.size /\ r.size > 0) => e.state = "IDLE"
    /\ q = 2 /\ r.kind = "file" => e.state = "SIZE" /\ e.received = 0 /\ e.file = n
    /\ q = 3 => e.state = "SIZE" /\ e.received = 1 /\ e.file = n
    /\ q >= 4 /\ (q < 4 + r.size \/ r.size = 0) =>
          e.state = "DATA" /\ e.received = q - 4 /\ e.file = n
    /\ f = IF q <= 4 THEN <<>> ELSE SubSeq(Epoll!Data(r, n), 1, q - 4)

\* p units of the request have left the socket, the buffer holds those after q.
Parsed(r, n, e, f, p, q) ==
    LET str == Epoll!Stream(r, n)
    IN /\ p \in 0 .. Len(str) /\ q \in 0 .. p
       /\ p = q \/ (q = 0 /\ p = 1)
       /\ Taking(e, f, r, n, q)
       /\ e.buffer = SubSeq(str, q + 1, p)

\* The last request of a client that waits, when the server has its connection.
Served(r, n, e, f, s, w, d) ==
    \E p, q \in 0 .. Len(Epoll!Stream(r, n)) :
       /\ Parsed(r, n, e, f, p, q)
       /\ s \o w = SubSeq(Epoll!Stream(r, n), p + 1, Len(Epoll!Stream(r, n)))
       /\ d = IF p = Len(Epoll!Stream(r, n)) /\ ~Empty(r) THEN Answer(r, n) ELSE <<>>

\* The client was told what it asked, and its files are stored.
Told(a, st, h, last) == \A i \in DOMAIN h :
    \E n \in 1 .. last : /\ h[i] = <<n, Answer(a[n], n)>>
                         /\ a[n].kind = "file" => st[n] = Epoll!Data(a[n], n)

\* What a client's user, requests, wire, socket, answers, entry and files have to
\* do with each other.
Agrees(u, a, w, s, d, e, st) ==
    LET n == Len(a)
        live == e.fd # "closed"
    IN /\ ~live => e = Epoll!Closed /\ w = <<>> /\ s = <<>>
       /\ e.fd = "backlog" => e = [Epoll!Closed EXCEPT !.fd = "backlog"]
       /\ u = "away" => ~live /\ d = <<>> /\ a = <<>>
       /\ u = "prompt" => d = <<>> /\ (live => s \o w = <<>> /\ e.state = "IDLE" /\ e.buffer = <<>>)
       /\ u = "wait" =>
            /\ n > 0
            /\ d # <<>> => d = Answer(a[n], n) /\ (a[n].kind = "file" => st[n] = Epoll!Data(a[n], n))
            /\ live => Served(a[n], n, e, st[n], s, w, d)
       /\ u = "gone" => d = <<>> /\ (live => s \o w = <<Epoll!Fin>>)

ClientTypes(a, w, s, h, e, st) ==
    /\ w \in Seq(Units) /\ s \in Seq(Units) /\ e \in Entries
    /\ h \in Seq(Nat \X Answers)
    /\ st \in Seq(Seq(Units)) /\ Len(st) = Len(a)

Clean(a) == \A n \in DOMAIN a : a[n].opens
Fits(a)  == \A n \in DOMAIN a : Len(Epoll!Stream(a[n], n)) <= EpollRoom

\* Until a file cannot be opened; and, if no request is larger than the buffer,
\* what is in the socket is reported.
Good(u, a, w, s, g, d, h, e, st) ==
    Clean(a) => /\ ClientTypes(a, w, s, h, e, st)
                /\ Agrees(u, a, w, s, d, e, st)
                /\ Told(a, st, h, IF u = "wait" THEN Len(a) - 1 ELSE Len(a))
                /\ Fits(a) /\ e.fd # "closed" /\ s # <<>> => g

EpollTypes ==
    /\ epUser \in [EpollClients -> {"away", "prompt", "wait", "gone"}]
    /\ asked \in [EpollClients -> Seq(Epoll!Requests)]
    /\ wire = [c \in EpollClients |-> wire[c]] /\ sock = [c \in EpollClients |-> sock[c]]
    /\ epDown = [c \in EpollClients |-> epDown[c]] /\ heard = [c \in EpollClients |-> heard[c]]
    /\ info = [c \in EpollClients |-> info[c]] /\ stored = [c \in EpollClients |-> stored[c]]

ClientGood(c) == Good(epUser[c], asked[c], wire[c], sock[c], c \in edge, epDown[c], heard[c],
                      info[c], stored[c])

EpollInv == EpollTypes /\ \A c \in EpollClients : ClientGood(c)

LEMMA DataFacts ==
  ASSUME NEW r \in Epoll!Requests, NEW n \in Nat
  PROVE  /\ r.size \in Nat /\ r.kind \in {"calc", "file"}
         /\ Epoll!Data(r, n) \in Seq(Units) /\ Len(Epoll!Data(r, n)) = r.size
         /\ \A i \in 1 .. r.size : Epoll!Data(r, n)[i].k = "data"
<1>. DEFINE D == Epoll!Data(r, n)
<1>1. r.size \in Nat /\ r.kind \in {"calc", "file"} /\ r.line \in BOOLEAN
  <2>1. EpollFile \in Nat
    BY ConcurrentAssumption DEF ConcurrentAssumption
  <2>2. \/ r.kind \in {"calc"} /\ r.size \in {0} /\ r.line \in {FALSE}
        \/ r.kind \in {"file"} /\ r.size \in 0 .. EpollFile /\ r.line \in {FALSE}
        \/ r.kind \in {"file"} /\ r.size \in 0 .. EpollFile /\ r.line \in BOOLEAN
    BY DEF Epoll!Requests
  <2>3. r.size = 0 \/ r.size \in 0 .. EpollFile
    BY <2>2, Zenon
  <2>4. r.kind \in {"calc", "file"} /\ r.line \in BOOLEAN
    BY <2>2, Zenon
  <2>. QED
    BY <2>1, <2>3, <2>4
<1>2. D = [i \in 1 .. r.size |-> Epoll!Unit("data", <<n, i>>, r.line /\ i = r.size)]
  BY DEF Epoll!Data
<1>3. \A i \in 1 .. r.size : D[i] \in Units /\ D[i].k = "data"
  <2>. SUFFICES ASSUME NEW i \in 1 .. r.size PROVE D[i] \in Units /\ D[i].k = "data"
    OBVIOUS
  <2>1. i \in Nat /\ (r.line /\ i = r.size) \in BOOLEAN
    BY <1>1
  <2>2. <<n, i>> \in Nat \X Nat
    BY <2>1
  <2>. DEFINE last == r.line /\ i = r.size
  <2>. HIDE DEF last
  <2>3. D[i] = [k |-> "data", n |-> <<n, i>>, nl |-> last]
    BY <1>2 DEF Epoll!Unit, last
  <2>4. last \in BOOLEAN
    BY <2>1 DEF last
  <2>. QED
    BY <2>2, <2>3, <2>4 DEF Units
<1>. HIDE DEF D
<1>4. D \in [1 .. r.size -> Units]
  <2>1. D = [i \in 1 .. r.size |-> D[i]]
    BY <1>2
  <2>. QED
    BY <1>3, <2>1
<1>5. D \in Seq(Units) /\ Len(D) = r.size
  BY <1>1, <1>4
<1>. QED
  BY <1>1, <1>3, <1>5 DEF D

\* How many units a request is.
Size(r) == IF r.kind = "calc" THEN 2 ELSE 4 + r.size

LEMMA StreamFacts ==
  ASSUME NEW r \in Epoll!Requests, NEW n \in Nat, NEW str, str = Epoll!Stream(r, n)
  PROVE  /\ str \in Seq(Units) /\ Len(str) = Size(r) /\ Size(r) \in Nat
         /\ \A i \in 1 .. Size(r) : str[i] \in Units /\ str[i].k # "fin"
         /\ str[1] = [k |-> "text", n |-> <<n, 0>>, nl |-> FALSE] /\ str[2].nl = TRUE
         /\ r.kind = "file" => \A i \in 1 .. r.size : str[4 + i] = Epoll!Data(r, n)[i]
<1>1. /\ r.size \in Nat /\ r.kind \in {"calc", "file"}
      /\ Epoll!Data(r, n) \in Seq(Units) /\ Len(Epoll!Data(r, n)) = r.size
      /\ \A i \in 1 .. r.size : Epoll!Data(r, n)[i].k = "data"
  BY DataFacts
<1>. DEFINE u == Epoll!Unit("text", <<n, 0>>, FALSE)
            v == Epoll!Unit("nl", <<n, 0>>, TRUE)
            x == Epoll!Unit("size", <<n, 0>>, FALSE)
            y == Epoll!Unit("size", <<n, 1>>, FALSE)
            D == Epoll!Data(r, n)
            tail == IF r.kind = "calc" THEN <<>> ELSE <<x, y>> \o D
<1>2. str = <<u, v>> \o tail
  BY DEF Epoll!Stream
<1>3. /\ u \in Units /\ v \in Units /\ x \in Units /\ y \in Units
      /\ u.k = "text" /\ v.k = "nl" /\ x.k = "size" /\ y.k = "size" /\ v.nl = TRUE
      /\ u = [k |-> "text", n |-> <<n, 0>>, nl |-> FALSE]
  BY DEF Epoll!Unit, Units
<1>. HIDE DEF u, v, x, y, D
<1>4. <<u, v>> \in Seq(Units) /\ <<x, y>> \in Seq(Units) /\ <<>> \in Seq(Units)
  BY <1>3
<1>5. D \in Seq(Units) /\ Len(D) = r.size /\ \A i \in 1 .. r.size : D[i] \in Units /\ D[i].k = "data"
  BY <1>1, ElementOfSeq DEF D
<1>6. /\ <<x, y>> \o D \in Seq(Units) /\ Len(<<x, y>> \o D) = 2 + r.size
      /\ \A i \in 1 .. 2 + r.size : (<<x, y>> \o D)[i] = IF i <= 2 THEN <<x, y>>[i] ELSE D[i - 2]
  BY <1>1, <1>4, <1>5, ConcatProperties
<1>7. tail \in Seq(Units) /\ Len(tail) = Size(r) - 2 /\ Size(r) \in Nat /\ Size(r) >= 2
  BY <1>1, <1>4, <1>6 DEF Size
<1>8. /\ str \in Seq(Units) /\ Len(str) = Size(r)
      /\ \A i \in 1 .. Size(r) : str[i] = IF i <= 2 THEN <<u, v>>[i] ELSE tail[i - 2]
  <2>. HIDE DEF tail
  <2>1. Len(<<u, v>>) = 2
    OBVIOUS
  <2>. QED
    BY <1>2, <1>4, <1>7, <2>1, ConcatProperties
<1>9. str[1] = u /\ str[2] = v
  BY <1>7, <1>8
<1>10. ASSUME r.kind = "file"
       PROVE  /\ str[3] = x /\ str[4] = y
              /\ \A i \in 1 .. r.size : str[4 + i] = D[i]
  <2>1. Size(r) = 4 + r.size /\ tail = <<x, y>> \o D
    BY <1>10 DEF Size
  <2>. HIDE DEF tail
  <2>2. \A i \in 3 .. Size(r) : str[i] = tail[i - 2] /\ i - 2 \in 1 .. 2 + r.size
    <3>. SUFFICES ASSUME NEW i \in 3 .. Size(r) PROVE str[i] = tail[i - 2] /\ i - 2 \in 1 .. 2 + r.size
      OBVIOUS
    <3>1. i \in 1 .. Size(r) /\ ~(i <= 2) /\ i - 2 \in 1 .. 2 + r.size
      BY <1>1, <2>1
    <3>. QED
      BY <1>8, <3>1
  <2>3. tail[1] = x /\ tail[2] = y
    BY <1>1, <1>6, <2>1
  <2>4. \A i \in 1 .. r.size : 4 + i \in 3 .. Size(r) /\ (4 + i) - 2 = 2 + i
    BY <1>1, <2>1
  <2>5. \A i \in 1 .. r.size : tail[2 + i] = D[i]
    <3>. SUFFICES ASSUME NEW i \in 1 .. r.size PROVE tail[2 + i] = D[i]
      OBVIOUS
    <3>1. 2 + i \in 1 .. 2 + r.size /\ ~(2 + i <= 2) /\ (2 + i) - 2 = i
      BY <1>1
    <3>. QED
      BY <1>6, <2>1, <3>1
  <2>6. \A i \in 1 .. r.size : str[4 + i] = D[i]
    BY <2>2, <2>4, <2>5
  <2>7. 3 \in 3 .. Size(r) /\ 4 \in 3 .. Size(r) /\ 3 - 2 = 1 /\ 4 - 2 = 2
    BY <1>1, <2>1
  <2>8. str[3] = x /\ str[4] = y
    BY <2>2, <2>3, <2>7
  <2>. QED
    BY <2>6, <2>8
<1>11. \A i \in 1 .. Size(r) : str[i] \in Units /\ str[i].k # "fin"
  <2>. SUFFICES ASSUME NEW i \in 1 .. Size(r) PROVE str[i].k # "fin" /\ str[i] \in Units
    OBVIOUS
  <2>1. CASE i <= 2
    <3>1. i = 1 \/ i = 2
      BY <2>1
    <3>. QED
      BY <1>3, <1>9, <3>1
  <2>2. CASE i > 2
    <3>1. r.kind = "file" /\ Size(r) = 4 + r.size
      BY <1>1, <2>2 DEF Size
    <3>2. i = 3 \/ i = 4 \/ (i - 4 \in 1 .. r.size /\ 4 + (i - 4) = i)
      BY <1>1, <2>2, <3>1
    <3>3. CASE i = 3 \/ i = 4
      BY <1>3, <1>10, <3>1, <3>3
    <3>4. CASE i - 4 \in 1 .. r.size /\ 4 + (i - 4) = i
      <4>1. str[4 + (i - 4)] = D[i - 4]
        BY <1>10, <3>1, <3>4
      <4>2. D[i - 4] \in Units /\ D[i - 4].k = "data"
        BY <1>5, <3>4
      <4>3. str[i] = D[i - 4]
        BY <4>1, <3>4
      <4>4. "data" # "fin"
        OBVIOUS
      <4>. QED
        BY <4>2, <4>3, <4>4
    <3>. QED
      BY <3>2, <3>3, <3>4
  <2>. QED
    BY <2>1, <2>2
<1>. QED
  BY <1>3, <1>7, <1>8, <1>9, <1>10, <1>11 DEF D

\* Part of a segment of a stream leaves the socket.
LEMMA CutSegment ==
  ASSUME NEW str \in Seq(Units), NEW p \in 0 .. Len(str),
         NEW s \in Seq(Units), NEW w \in Seq(Units), s \o w = SubSeq(str, p + 1, Len(str)),
         NEW m \in 0 .. Len(s)
  PROVE  /\ p + m \in 0 .. Len(str)
         /\ SubSeq(s, 1, m) = SubSeq(str, p + 1, p + m)
         /\ SubSeq(s, m + 1, Len(s)) \in Seq(Units)
         /\ SubSeq(s, m + 1, Len(s)) \o w = SubSeq(str, p + m + 1, Len(str))
<1>1. Len(str) \in Nat /\ Len(s) \in Nat /\ Len(w) \in Nat
  BY LenProperties
<1>. DEFINE a == SubSeq(str, p + 1, Len(str))
            t == SubSeq(s, m + 1, Len(s))
            b == SubSeq(str, p + m + 1, Len(str))
<1>2. \A i \in 1 .. Len(str) : str[i] \in Units
  BY ElementOfSeq
<1>3. /\ a \in Seq(Units) /\ Len(a) = Len(str) - p
      /\ \A i \in 1 .. Len(str) - p : a[i] = str[p + i]
  <2>1. \A i \in p + 1 .. Len(str) : str[i] \in Units
    BY <1>1, <1>2
  <2>2. p + 1 \in Int /\ Len(str) \in Int
    BY <1>1
  <2>3. /\ a \in Seq(Units) /\ Len(a) = IF p + 1 <= Len(str) THEN Len(str) - (p + 1) + 1 ELSE 0
        /\ \A i \in 1 .. Len(str) - (p + 1) + 1 : a[i] = str[(p + 1) + i - 1]
    BY <2>1, <2>2, SubSeqProperties
  <2>. HIDE DEF a
  <2>. QED
    BY <1>1, <2>3
<1>4. Len(s) + Len(w) = Len(str) - p
  BY <1>3, ConcatProperties
<1>5. p + m \in 0 .. Len(str)
  BY <1>1, <1>4
<1>6. \A i \in 1 .. Len(str) - p : a[i] = IF i <= Len(s) THEN s[i] ELSE w[i - Len(s)]
  BY <1>4, ConcatProperties
<1>7. \A i \in 1 .. Len(s) : s[i] \in Units
  BY ElementOfSeq
<1>8. /\ t \in Seq(Units) /\ Len(t) = Len(s) - m
      /\ \A i \in 1 .. Len(s) - m : t[i] = s[m + i]
  <2>1. \A i \in m + 1 .. Len(s) : s[i] \in Units
    BY <1>1, <1>7
  <2>2. m + 1 \in Int /\ Len(s) \in Int
    BY <1>1
  <2>3. /\ t \in Seq(Units) /\ Len(t) = IF m + 1 <= Len(s) THEN Len(s) - (m + 1) + 1 ELSE 0
        /\ \A i \in 1 .. Len(s) - (m + 1) + 1 : t[i] = s[(m + 1) + i - 1]
    BY <2>1, <2>2, SubSeqProperties
  <2>. HIDE DEF t
  <2>. QED
    BY <1>1, <2>3
<1>9. /\ b \in Seq(Units) /\ Len(b) = Len(str) - p - m
      /\ \A i \in 1 .. Len(str) - p - m : b[i] = str[p + m + i]
  <2>. DEFINE k == p + m + 1
  <2>1. k \in Nat /\ k >= 1
    BY <1>1
  <2>. HIDE DEF k
  <2>2. \A i \in k .. Len(str) : str[i] \in Units
    BY <1>1, <1>2, <2>1
  <2>3. b = SubSeq(str, k, Len(str))
    BY DEF b, k
  <2>4. k \in Int /\ Len(str) \in Int
    BY <1>1, <2>1
  <2>. HIDE DEF b
  <2>5. /\ SubSeq(str, k, Len(str)) \in Seq(Units)
        /\ Len(SubSeq(str, k, Len(str))) = IF k <= Len(str) THEN Len(str) - k + 1 ELSE 0
        /\ \A i \in 1 .. Len(str) - k + 1 : SubSeq(str, k, Len(str))[i] = str[k + i - 1]
    BY <2>2, <2>4, SubSeqProperties
  <2>6. /\ b \in Seq(Units) /\ Len(b) = IF k <= Len(str) THEN Len(str) - k + 1 ELSE 0
        /\ \A i \in 1 .. Len(str) - k + 1 : b[i] = str[k + i - 1]
    BY <2>3, <2>5
  <2>7. Len(b) = Len(str) - p - m
    BY <1>1, <1>5, <2>6 DEF k
  <2>8. \A i \in 1 .. Len(str) - p - m : b[i] = str[p + m + i]
    <3>. SUFFICES ASSUME NEW i \in 1 .. Len(str) - p - m PROVE b[i] = str[p + m + i]
      OBVIOUS
    <3>1. i \in 1 .. Len(str) - k + 1 /\ k + i - 1 = p + m + i
      BY <1>1 DEF k
    <3>. QED
      BY <2>6, <3>1
  <2>. QED
    BY <2>6, <2>7, <2>8
<1>10. SubSeq(s, 1, m) = SubSeq(str, p + 1, p + m)
  <2>. DEFINE x == SubSeq(s, 1, m)
              y == SubSeq(str, p + 1, p + m)
  <2>1. \A i \in 1 .. m : s[i] \in Units
    BY <1>1, <1>7
  <2>2. \A i \in p + 1 .. p + m : str[i] \in Units
    BY <1>1, <1>2, <1>5
  <2>3. m \in Int /\ 1 \in Int /\ p + 1 \in Int /\ p + m \in Int
    BY <1>1
  <2>4. x \in Seq(Units) /\ Len(x) = (IF 1 <= m THEN m - 1 + 1 ELSE 0)
        /\ \A i \in 1 .. m - 1 + 1 : x[i] = s[1 + i - 1]
    BY <2>1, <2>3, SubSeqProperties
  <2>5. y \in Seq(Units) /\ Len(y) = (IF p + 1 <= p + m THEN p + m - (p + 1) + 1 ELSE 0)
        /\ \A i \in 1 .. p + m - (p + 1) + 1 : y[i] = str[(p + 1) + i - 1]
    BY <2>2, <2>3, SubSeqProperties
  <2>. HIDE DEF x, y, a
  <2>6. Len(x) = m /\ Len(y) = m
    BY <1>1, <2>4, <2>5
  <2>7. \A i \in 1 .. m : x[i] = y[i]
    <3>. SUFFICES ASSUME NEW i \in 1 .. m PROVE x[i] = y[i]
      OBVIOUS
    <3>1. x[i] = s[i]
      BY <1>1, <2>4
    <3>2. y[i] = str[p + i]
      BY <1>1, <2>5
    <3>3. i \in 1 .. Len(str) - p /\ i <= Len(s)
      BY <1>1, <1>4
    <3>. QED
      BY <1>3, <1>6, <3>1, <3>2, <3>3
  <2>8. x = y
    BY <2>4, <2>5, <2>6, <2>7, SeqEqual
  <2>. QED
    BY <2>8 DEF x, y
<1>. HIDE DEF a, t, b
<1>11. t \o w = b
  <2>1. /\ t \o w \in Seq(Units) /\ Len(t \o w) = Len(t) + Len(w)
        /\ \A i \in 1 .. Len(t) + Len(w) : (t \o w)[i] = IF i <= Len(t) THEN t[i] ELSE w[i - Len(t)]
    BY <1>8, ConcatProperties
  <2>. DEFINE x == t \o w
  <2>. HIDE DEF x
  <2>2. Len(x) = Len(b)
    BY <1>1, <1>4, <1>8, <1>9, <2>1 DEF x
  <2>3. \A i \in 1 .. Len(b) : x[i] = b[i]
    <3>. SUFFICES ASSUME NEW i \in 1 .. Len(b) PROVE x[i] = b[i]
      OBVIOUS
    <3>1. /\ i \in 1 .. Len(str) - p - m /\ m + i \in 1 .. Len(str) - p
          /\ i \in 1 .. Len(t) + Len(w)
      BY <1>1, <1>4, <1>8, <1>9
    <3>2. b[i] = a[m + i]
      <4>1. p + (m + i) = p + m + i
        BY <1>1, <3>1
      <4>. QED
        BY <1>3, <1>9, <3>1, <4>1
    <3>3. CASE i <= Len(t)
      <4>1. x[i] = t[i] /\ t[i] = s[m + i]
        BY <1>8, <2>1, <3>1, <3>3 DEF x
      <4>2. m + i <= Len(s)
        BY <1>1, <1>8, <3>1, <3>3
      <4>. QED
        BY <1>6, <3>1, <3>2, <4>1, <4>2
    <3>4. CASE ~(i <= Len(t))
      <4>1. x[i] = w[i - Len(t)]
        BY <2>1, <3>1, <3>4 DEF x
      <4>2. ~(m + i <= Len(s)) /\ (m + i) - Len(s) = i - Len(t)
        BY <1>1, <1>8, <3>1, <3>4
      <4>. QED
        BY <1>6, <3>1, <3>2, <4>1, <4>2
    <3>. QED
      BY <3>3, <3>4
  <2>4. x = b
    BY <1>9, <2>1, <2>2, <2>3, SeqEqual DEF x
  <2>. QED
    BY <2>4 DEF x
<1>. QED
  BY <1>5, <1>8, <1>10, <1>11 DEF t, b

\* A segment of a sequence.
LEMMA Segment ==
  ASSUME NEW S, NEW str \in Seq(S), NEW p \in 0 .. Len(str), NEW q \in 0 .. p,
         NEW b, b = SubSeq(str, q + 1, p)
  PROVE  /\ b \in Seq(S) /\ Len(b) = p - q
         /\ \A i \in 1 .. p - q : b[i] = str[q + i]
<1>1. Len(str) \in Nat
  BY LenProperties
<1>2. \A i \in q + 1 .. p : str[i] \in S
  BY <1>1, ElementOfSeq
<1>3. q + 1 \in Int /\ p \in Int
  BY <1>1
<1>4. /\ b \in Seq(S) /\ Len(b) = IF q + 1 <= p THEN p - (q + 1) + 1 ELSE 0
      /\ \A i \in 1 .. p - (q + 1) + 1 : b[i] = str[(q + 1) + i - 1]
  BY <1>2, <1>3, SubSeqProperties
<1>5. \A i \in 1 .. p - q : b[i] = str[q + i]
  <2>. SUFFICES ASSUME NEW i \in 1 .. p - q PROVE b[i] = str[q + i]
    OBVIOUS
  <2>1. i \in 1 .. p - (q + 1) + 1 /\ (q + 1) + i - 1 = q + i
    BY <1>1
  <2>. QED
    BY <1>4, <2>1
<1>. QED
  BY <1>1, <1>4, <1>5

\* The head and the rest of a segment are segments.
LEMMA SegmentParts ==
  ASSUME NEW S, NEW str \in Seq(S), NEW p \in 0 .. Len(str), NEW q \in 0 .. p,
         NEW b, b = SubSeq(str, q + 1, p), NEW j \in 0 .. p - q
  PROVE  /\ SubSeq(b, 1, j) = SubSeq(str, q + 1, q + j)
         /\ SubSeq(b, j + 1, Len(b)) = SubSeq(str, q + j + 1, p)
<1>0. \A t \in Seq(S) : \A u \in 0 .. Len(t) : \A o \in 0 .. u : \A a :
        a = SubSeq(t, o + 1, u) =>
          a \in Seq(S) /\ Len(a) = u - o /\ \A i \in 1 .. u - o : a[i] = t[o + i]
  BY Segment
<1>1. Len(str) \in Nat
  BY LenProperties
<1>2. /\ b \in Seq(S) /\ Len(b) = p - q
      /\ \A i \in 1 .. p - q : b[i] = str[q + i]
  BY Segment
<1>3. PICK z \in 0 .. j : z = 0
  BY <1>1
<1>4. PICK m \in q .. p : m = q + j
  BY <1>1
<1>5. /\ j \in 0 .. Len(b) /\ Len(b) \in 0 .. Len(b) /\ m \in 0 .. Len(str)
      /\ m \in 0 .. p /\ q \in 0 .. m /\ p \in 0 .. Len(str)
  BY <1>1, <1>2
<1>6. PICK x, y, v, w : /\ x = SubSeq(b, z + 1, j) /\ y = SubSeq(str, q + 1, m)
                        /\ v = SubSeq(b, j + 1, Len(b)) /\ w = SubSeq(str, m + 1, p)
  OBVIOUS
<1>7. x \in Seq(S) /\ Len(x) = j - z /\ \A i \in 1 .. j - z : x[i] = b[z + i]
  BY <1>0, <1>2, <1>5, <1>6
<1>8. y \in Seq(S) /\ Len(y) = m - q /\ \A i \in 1 .. m - q : y[i] = str[q + i]
  BY <1>0, <1>5, <1>6
<1>9. v \in Seq(S) /\ Len(v) = Len(b) - j /\ \A i \in 1 .. Len(b) - j : v[i] = b[j + i]
  BY <1>0, <1>2, <1>5, <1>6
<1>10. w \in Seq(S) /\ Len(w) = p - m /\ \A i \in 1 .. p - m : w[i] = str[m + i]
  BY <1>0, <1>5, <1>6
<1>11. x = y
  <2>1. Len(x) = Len(y) /\ Len(x) = j
    BY <1>1, <1>3, <1>4, <1>7, <1>8
  <2>2. \A i \in 1 .. j : x[i] = y[i]
    <3>. SUFFICES ASSUME NEW i \in 1 .. j PROVE x[i] = y[i]
      OBVIOUS
    <3>1. i \in 1 .. j - z /\ i \in 1 .. m - q /\ i \in 1 .. p - q /\ z + i = i
      BY <1>1, <1>3, <1>4
    <3>. QED
      BY <1>2, <1>7, <1>8, <3>1
  <2>. QED
    BY <1>7, <1>8, <2>1, <2>2, SeqEqual
<1>12. v = w
  <2>1. Len(v) = Len(w) /\ Len(v) = p - q - j
    BY <1>1, <1>2, <1>4, <1>9, <1>10
  <2>2. \A i \in 1 .. Len(v) : v[i] = w[i]
    <3>. SUFFICES ASSUME NEW i \in 1 .. Len(v) PROVE v[i] = w[i]
      OBVIOUS
    <3>1. /\ i \in 1 .. Len(b) - j /\ i \in 1 .. p - m /\ j + i \in 1 .. p - q
          /\ m + i = q + (j + i)
      BY <1>1, <1>2, <1>4, <2>1
    <3>. QED
      BY <1>2, <1>9, <1>10, <3>1
  <2>. QED
    BY <1>9, <1>10, <2>1, <2>2, SeqEqual
<1>13. z + 1 = 1 /\ m = q + j /\ m + 1 = q + j + 1
  BY <1>1, <1>3, <1>4
<1>. QED
  BY <1>6, <1>11, <1>12, <1>13, Zenon

LoopStates == [e : Entries, out : Answers, files : Seq(Seq(Units))]

\* The parser's loop at unit q of the p there are; files was written before.
Stands(s, a, n, files, q, p) ==
    /\ s \in LoopStates /\ s.e.fd = "open" /\ q \in 0 .. p
    /\ s.e.buffer = SubSeq(Epoll!Stream(a[n], n), q + 1, p)
    /\ Taking(s.e, s.files[n], a[n], n, q)
    /\ Len(s.files) = Len(files) /\ \A i \in 1 .. Len(files) : i # n => s.files[i] = files[i]
    /\ s.out = IF q = Size(a[n]) /\ ~Empty(a[n]) THEN Answer(a[n], n) ELSE <<>>

LEMMA LineTurn ==
  ASSUME NEW a \in Seq(Epoll!Requests), NEW n \in 1 .. Len(a),
         NEW files, n \in 1 .. Len(files), NEW p \in 1 .. Size(a[n]), NEW s,
         Stands(s, a, n, files, 0, p)
  PROVE  IF p = 1 THEN Epoll!Turn(s, a) = s ELSE Stands(Epoll!Turn(s, a), a, n, files, 2, p)
<1>. DEFINE r == a[n]
            str == Epoll!Stream(r, n)
            b == s.e.buffer
            nl == {i \in DOMAIN b : b[i].nl}
            k == CHOOSE i \in nl : \A j \in nl : i <= j
            m == b[1].n[1]
            e == [s.e EXCEPT !.buffer = SubSeq(b, k + 1, Len(b))]
            t == Epoll!Turn(s, a)
<1>1. r \in Epoll!Requests /\ n \in Nat /\ Len(a) \in Nat
  BY ElementOfSeq, LenProperties
<1>2. /\ str \in Seq(Units) /\ Len(str) = Size(r) /\ Size(r) \in Nat
      /\ str[1] = [k |-> "text", n |-> <<n, 0>>, nl |-> FALSE] /\ str[2].nl = TRUE
      /\ r.kind \in {"calc", "file"} /\ r.size \in Nat
  <2>1. r.kind \in {"calc", "file"} /\ r.size \in Nat
    BY <1>1, DataFacts
  <2>2. str = Epoll!Stream(r, n)
    OBVIOUS
  <2>. HIDE DEF r, str
  <2>. QED
    BY <1>1, <2>1, <2>2, StreamFacts
<1>3. /\ s \in LoopStates /\ s.e \in Entries /\ s.e.fd = "open" /\ s.e.state = "IDLE"
      /\ b = SubSeq(str, 0 + 1, p) /\ s.files[n] = <<>>
      /\ s.out = <<>> /\ Len(s.files) = Len(files)
      /\ \A i \in 1 .. Len(files) : i # n => s.files[i] = files[i]
  BY <1>2 DEF Stands, Taking, LoopStates
<1>4. b \in Seq(Units) /\ Len(b) = p /\ DOMAIN b = 1 .. p /\ \A i \in 1 .. p : b[i] = str[i]
  <2>1. p \in 0 .. Len(str) /\ 0 \in 0 .. p /\ p - 0 = p
    BY <1>2
  <2>2. b \in Seq(Units) /\ Len(b) = p - 0 /\ \A i \in 1 .. p - 0 : b[i] = str[0 + i]
    <3>1. str \in Seq(Units) /\ b = SubSeq(str, 0 + 1, p)
      BY <1>2, <1>3
    <3>. HIDE DEF str, b
    <3>. QED
      BY <2>1, <3>1, Segment
  <2>3. \A i \in 1 .. p : 0 + i = i
    BY <1>2
  <2>. QED
    BY <2>1, <2>2, <2>3, LenProperties
<1>5. b # <<>> /\ b[1].k = "text" /\ m = n /\ b[1].nl = FALSE
  BY <1>2, <1>4
<1>. HIDE DEF b
<1>6. t = Epoll!TakeLine(s, a)
  BY <1>3, <1>5 DEF Epoll!Turn, b
<1>7. t = CASE nl = {} -> s
            [] nl # {} /\ b[1].k = "text" /\ a[m].kind = "file" ->
                 [s EXCEPT !.e = [e EXCEPT !.state = "SIZE", !.file = m, !.received = 0]]
            [] nl # {} /\ b[1].k = "text" /\ a[m].kind = "calc" ->
                 [s EXCEPT !.e = e, !.out = @ \o Epoll!Long(m)]
            [] OTHER -> [s EXCEPT !.e = e, !.out = @ \o Epoll!Long(0)]
  BY <1>6, Zenon DEF Epoll!TakeLine, b
<1>8. CASE p = 1
  <2>1. nl = {}
    BY <1>4, <1>5, <1>8
  <2>. HIDE DEF nl, k, e, m, t
  <2>2. t = s
    BY <1>7, <2>1
  <2>. QED
    BY <1>8, <2>2 DEF t
<1>9. CASE p # 1
  <2>1. p >= 2 /\ b[2].nl = TRUE /\ 2 \in nl /\ 1 \notin nl /\ nl \subseteq 1 .. p
    BY <1>2, <1>4, <1>5, <1>9
  <2>2. k = 2
    <3>. HIDE DEF nl
    <3>1. \A j \in nl : 2 <= j
      BY <1>2, <2>1
    <3>2. \E i \in nl : \A j \in nl : i <= j
      BY <2>1, <3>1
    <3>3. k \in nl /\ \A j \in nl : k <= j
      BY <3>2
    <3>4. 2 <= k /\ k <= 2 /\ k \in 1 .. p
      BY <2>1, <3>1, <3>3
    <3>. QED
      BY <3>4
  <2>. DEFINE rest2 == SubSeq(str, 2 + 1, p)
  <2>3. SubSeq(b, k + 1, Len(b)) = rest2
    <3>1. p \in 0 .. Len(str) /\ 0 \in 0 .. p /\ 2 \in 0 .. p - 0 /\ 0 + 2 + 1 = 2 + 1
      BY <1>2, <2>1
    <3>2. SubSeq(b, 2 + 1, Len(b)) = SubSeq(str, 0 + 2 + 1, p)
      BY <1>2, <1>3, <3>1, SegmentParts DEF b
    <3>. QED
      BY <2>2, <3>1, <3>2
  <2>4. e = [s.e EXCEPT !.buffer = rest2]
    BY <2>3
  <2>5. rest2 \in Seq(Units)
    <3>1. p \in 0 .. Len(str) /\ 2 \in 0 .. p
      BY <1>2, <2>1
    <3>. QED
      BY <1>2, <3>1, Segment
  <2>6. nl # {}
    BY <2>1
  <2>. HIDE DEF nl, k, rest2
  <2>7. /\ e \in Entries /\ e.fd = "open" /\ e.state = "IDLE" /\ e.buffer = rest2
    BY <1>3, <2>4, <2>5 DEF Entries
  <2>. HIDE DEF e, m, t
  <2>8. CASE r.kind = "file"
    <3>. DEFINE x == [e EXCEPT !.state = "SIZE", !.file = n, !.received = 0]
    <3>1. t = [s EXCEPT !.e = x]
      BY <1>5, <1>7, <2>6, <2>8
    <3>2. /\ x \in Entries /\ x.fd = "open" /\ x.state = "SIZE" /\ x.file = n /\ x.received = 0
          /\ x.buffer = rest2
      BY <1>1, <2>7 DEF Entries
    <3>. HIDE DEF x
    <3>3. t \in LoopStates /\ t.e = x /\ t.out = <<>> /\ t.files = s.files
      BY <1>3, <3>1, <3>2 DEF LoopStates
    <3>4. Taking(t.e, t.files[n], r, n, 2)
      BY <1>2, <1>3, <2>8, <3>2, <3>3 DEF Taking
    <3>5. 2 # Size(r)
      BY <1>2, <2>8 DEF Size
    <3>6. 2 \in 0 .. p
      BY <2>1
    <3>7. Stands(t, a, n, files, 2, p)
      BY <1>3, <3>2, <3>3, <3>4, <3>5, <3>6 DEF Stands, rest2
    <3>. QED
      BY <1>9, <3>7 DEF t
  <2>9. CASE r.kind = "calc"
    <3>1. t = [s EXCEPT !.e = e, !.out = @ \o Epoll!Long(n)]
      BY <1>5, <1>7, <2>6, <2>9
    <3>2. Epoll!Long(n) \in Answers
      BY <1>1 DEF Epoll!Long, Answers
    <3>3. <<>> \o Epoll!Long(n) = Epoll!Long(n)
      BY <3>2, ConcatEmptySeq DEF Answers
    <3>4. t \in LoopStates /\ t.e = e /\ t.out = Epoll!Long(n) /\ t.files = s.files
      BY <1>3, <2>7, <3>1, <3>2, <3>3 DEF LoopStates
    <3>5. Taking(t.e, t.files[n], r, n, 2)
      BY <1>2, <1>3, <2>7, <2>9, <3>4 DEF Taking
    <3>6. 2 = Size(r) /\ ~Empty(r) /\ Answer(r, n) = Epoll!Long(n)
      BY <2>9 DEF Size, Empty, Answer
    <3>7. 2 \in 0 .. p
      BY <2>1
    <3>8. Stands(t, a, n, files, 2, p)
      BY <1>3, <2>7, <3>4, <3>5, <3>6, <3>7 DEF Stands, rest2
    <3>. QED
      BY <1>9, <3>8 DEF t
  <2>. QED
    BY <1>2, <2>8, <2>9
<1>. QED
  BY <1>8, <1>9

LEMMA SizeTurn ==
  ASSUME NEW a \in Seq(Epoll!Requests), NEW n \in 1 .. Len(a), a[n].kind = "file", a[n].opens,
         NEW files, n \in 1 .. Len(files), NEW p \in 1 .. Size(a[n]), NEW s,
         NEW q \in {2, 3}, q < p, Stands(s, a, n, files, q, p)
  PROVE  \E x \in q + 1 .. p : Stands(Epoll!Turn(s, a), a, n, files, x, p)
<1>. DEFINE r == a[n]
            str == Epoll!Stream(r, n)
            b == s.e.buffer
            need == 2 - s.e.received
            e == [s.e EXCEPT !.buffer = SubSeq(b, need + 1, Len(b)), !.received = 0]
            t == Epoll!Turn(s, a)
<1>1. r \in Epoll!Requests /\ n \in Nat /\ Len(a) \in Nat
  BY ElementOfSeq, LenProperties
<1>2. /\ str \in Seq(Units) /\ Len(str) = Size(r) /\ Size(r) = 4 + r.size /\ r.size \in Nat
  <2>1. r.size \in Nat
    BY <1>1, DataFacts
  <2>2. str = Epoll!Stream(r, n)
    OBVIOUS
  <2>3. r.opens
    OBVIOUS
  <2>. HIDE DEF str, r
  <2>4. str \in Seq(Units) /\ Len(str) = Size(r)
    BY <1>1, <2>2, <2>3, StreamFacts
  <2>. QED
    BY <2>1, <2>4 DEF Size, r
<1>3. /\ s \in LoopStates /\ s.e \in Entries /\ s.e.fd = "open" /\ s.e.state = "SIZE"
      /\ s.e.received = q - 2 /\ s.e.file = n
      /\ b = SubSeq(str, q + 1, p) /\ s.files[n] = <<>>
      /\ s.out = <<>> /\ Len(s.files) = Len(files)
      /\ \A i \in 1 .. Len(files) : i # n => s.files[i] = files[i]
  <2>1. /\ s \in LoopStates /\ s.e.fd = "open" /\ Taking(s.e, s.files[n], r, n, q)
        /\ b = SubSeq(str, q + 1, p) /\ Len(s.files) = Len(files)
        /\ \A i \in 1 .. Len(files) : i # n => s.files[i] = files[i]
        /\ s.out = IF q = Size(r) /\ ~Empty(r) THEN Answer(r, n) ELSE <<>>
    BY DEF Stands
  <2>2. s.e \in Entries
    BY <2>1 DEF LoopStates
  <2>3. q # Size(r) /\ q <= 4 /\ q # 4 + r.size /\ q # 0
    BY <1>2
  <2>4. s.e.state = "SIZE" /\ s.e.received = q - 2 /\ s.e.file = n /\ s.files[n] = <<>>
    <3>. HIDE DEF b, str
    <3>. QED
      BY <2>1, <2>3 DEF Taking
  <2>. QED
    BY <2>1, <2>2, <2>3, <2>4
<1>4. b \in Seq(Units) /\ Len(b) = p - q
  <2>1. p \in 0 .. Len(str) /\ q \in 0 .. p
    BY <1>2
  <2>2. str \in Seq(Units) /\ b = SubSeq(str, q + 1, p)
    BY <1>2, <1>3
  <2>. HIDE DEF str, b
  <2>. QED
    BY <2>1, <2>2, Segment
<1>5. b # <<>> /\ need = 4 - q
  <2>1. Len(b) # 0
    BY <1>2, <1>4
  <2>2. b # <<>>
    <3>. HIDE DEF b
    <3>. QED
      BY <1>4, <2>1, EmptySeq
  <2>3. need = 4 - q
    BY <1>3
  <2>. QED
    BY <2>2, <2>3
<1>. HIDE DEF b
<1>6. t = Epoll!TakeSize(s, a)
  BY <1>3, <1>5 DEF Epoll!Turn, b
<1>. DEFINE part == [s EXCEPT !.e.received = @ + Len(b), !.e.buffer = <<>>]
<1>7. t = CASE Len(b) < need -> part
            [] Len(b) >= need /\ a[e.file].opens ->
                 [s EXCEPT !.e = [e EXCEPT !.state = "DATA", !.output = "open"]]
            [] OTHER ->
                 [s EXCEPT !.e = [e EXCEPT !.state = "IDLE", !.output = "none"],
                           !.out = Append(@, <<e.file, "ERR">>)]
  BY <1>6, Zenon DEF Epoll!TakeSize, b
<1>8. CASE p < 4
  <2>1. q = 2 /\ p = 3 /\ Len(b) = 1 /\ need = 2 /\ s.e.received = 0
    BY <1>2, <1>3, <1>4, <1>5, <1>8
  <2>. DEFINE x == [s.e EXCEPT !.received = 1, !.buffer = <<>>]
  <2>2. Len(b) < need /\ s.e.received + Len(b) = 1
    BY <2>1
  <2>. HIDE DEF t, e, need, part
  <2>3. t = part
    BY <1>7, <2>1, <2>2
  <2>4. t = [s EXCEPT !.e = x]
    BY <1>3, <2>2, <2>3 DEF part, LoopStates, Entries
  <2>5. <<>> \in Seq(Units)
    BY EmptySeq
  <2>6. /\ x \in Entries /\ x.fd = "open" /\ x.state = "SIZE" /\ x.file = n /\ x.received = 1
        /\ x.buffer = <<>>
    BY <1>3, <2>5 DEF Entries
  <2>. HIDE DEF x
  <2>7. t \in LoopStates /\ t.e = x /\ t.out = <<>> /\ t.files = s.files
    BY <1>3, <2>4, <2>6 DEF LoopStates
  <2>8. Taking(t.e, t.files[n], r, n, 3)
    BY <1>2, <1>3, <2>6, <2>7 DEF Taking
  <2>9. SubSeq(str, 3 + 1, p) = <<>>
    BY <2>1, SubSeqEmpty
  <2>10. 3 # Size(r) /\ 3 \in 0 .. p /\ 3 \in q + 1 .. p
    BY <1>2, <2>1
  <2>11. Stands(t, a, n, files, 3, p)
    BY <1>3, <2>6, <2>7, <2>8, <2>9, <2>10 DEF Stands
  <2>. QED
    BY <2>10, <2>11 DEF t
<1>9. CASE p >= 4
  <2>. DEFINE left == SubSeq(str, 4 + 1, p)
  <2>1. SubSeq(b, need + 1, Len(b)) = left
    <3>1. p \in 0 .. Len(str) /\ q \in 0 .. p /\ 4 - q \in 0 .. p - q /\ q + (4 - q) + 1 = 4 + 1
      BY <1>2, <1>9
    <3>2. SubSeq(b, (4 - q) + 1, Len(b)) = SubSeq(str, q + (4 - q) + 1, p)
      BY <1>2, <1>3, <3>1, SegmentParts
    <3>. QED
      BY <1>5, <3>1, <3>2
  <2>2. left \in Seq(Units)
    <3>1. p \in 0 .. Len(str) /\ 4 \in 0 .. p
      BY <1>2, <1>9
    <3>. QED
      BY <1>2, <3>1, Segment
  <2>3. Len(b) >= need /\ ~(Len(b) < need)
    BY <1>2, <1>4, <1>5, <1>9
  <2>. HIDE DEF left, need
  <2>4. e \in Entries /\ e.fd = "open" /\ e.file = n /\ e.buffer = left /\ e.received = 0
    BY <1>3, <2>1, <2>2 DEF Entries
  <2>. HIDE DEF e, t
  <2>. DEFINE x == [e EXCEPT !.state = "DATA", !.output = "open"]
  <2>5. t = [s EXCEPT !.e = x]
    BY <1>7, <2>3, <2>4
  <2>6. /\ x \in Entries /\ x.fd = "open" /\ x.state = "DATA" /\ x.file = n /\ x.received = 0
        /\ x.buffer = left
    BY <2>4 DEF Entries
  <2>. HIDE DEF x
  <2>7. t \in LoopStates /\ t.e = x /\ t.out = <<>> /\ t.files = s.files
    BY <1>3, <2>5, <2>6 DEF LoopStates
  <2>8. Taking(t.e, t.files[n], r, n, 4)
    BY <1>2, <1>3, <2>6, <2>7 DEF Taking
  <2>9. 4 = Size(r) => Empty(r)
    BY <1>2 DEF Empty
  <2>10. 4 \in 0 .. p /\ 4 \in q + 1 .. p
    BY <1>2, <1>9
  <2>11. Stands(t, a, n, files, 4, p)
    BY <1>3, <2>6, <2>7, <2>8, <2>9, <2>10 DEF Stands, left
  <2>. QED
    BY <2>10, <2>11 DEF t
<1>. QED
  BY <1>2, <1>8, <1>9

\* What the parser writes continues what it wrote.
LEMMA WrittenOn ==
  ASSUME NEW r \in Epoll!Requests, NEW n \in Nat, r.kind = "file",
         NEW p \in 4 .. 4 + r.size, NEW q \in 4 .. p,
         NEW f, f = IF q <= 4 THEN <<>> ELSE SubSeq(Epoll!Data(r, n), 1, q - 4)
  PROVE  /\ f \o SubSeq(Epoll!Stream(r, n), q + 1, p) = SubSeq(Epoll!Data(r, n), 1, p - 4)
         /\ SubSeq(Epoll!Data(r, n), 1, p - 4) \in Seq(Units)
<1>. DEFINE D == Epoll!Data(r, n)
            str == Epoll!Stream(r, n)
<1>1. D \in Seq(Units) /\ Len(D) = r.size /\ r.size \in Nat
  BY DataFacts
<1>2. str \in Seq(Units) /\ Len(str) = 4 + r.size /\ \A i \in 1 .. r.size : str[4 + i] = D[i]
  <2>1. str = Epoll!Stream(r, n)
    OBVIOUS
  <2>2. Size(r) = 4 + r.size
    BY DEF Size
  <2>. HIDE DEF str
  <2>. QED
    BY <2>1, <2>2, StreamFacts
<1>. HIDE DEF D, str
<1>3. PICK x, y : x = SubSeq(str, q + 1, p) /\ y = SubSeq(D, (q - 4) + 1, p - 4)
  OBVIOUS
<1>4. /\ q \in 0 .. p /\ p \in 0 .. Len(str) /\ p - 4 \in 0 .. Len(D) /\ q - 4 \in 0 .. p - 4
  BY <1>1, <1>2
<1>5. x \in Seq(Units) /\ Len(x) = p - q /\ \A i \in 1 .. p - q : x[i] = str[q + i]
  BY <1>2, <1>3, <1>4, Segment
<1>6. y \in Seq(Units) /\ Len(y) = p - q /\ \A i \in 1 .. p - q : y[i] = D[(q - 4) + i]
  <2>1. \A u \in 0 .. Len(D) : \A o \in 0 .. u : \A z : z = SubSeq(D, o + 1, u) =>
          z \in Seq(Units) /\ Len(z) = u - o /\ \A i \in 1 .. u - o : z[i] = D[o + i]
    BY <1>1, Segment
  <2>2. PICK u, o : u \in 0 .. Len(D) /\ o \in 0 .. u /\ u = p - 4 /\ o = q - 4
    BY <1>4
  <2>4. y = SubSeq(D, o + 1, u)
    BY <1>3, <2>2
  <2>5. /\ y \in Seq(Units) /\ Len(y) = u - o /\ \A i \in 1 .. u - o : y[i] = D[o + i]
    BY <2>2, <2>1, <2>4
  <2>6. /\ y \in Seq(Units) /\ Len(y) = (p - 4) - (q - 4)
        /\ \A i \in 1 .. (p - 4) - (q - 4) : y[i] = D[(q - 4) + i]
    BY <2>2, <2>5
  <2>3. (p - 4) - (q - 4) = p - q
    BY <1>1
  <2>. QED
    BY <2>3, <2>6
<1>7. x = y
  <2>1. \A i \in 1 .. p - q : x[i] = y[i]
    <3>. SUFFICES ASSUME NEW i \in 1 .. p - q PROVE x[i] = y[i]
      OBVIOUS
    <3>1. (q - 4) + i \in 1 .. r.size /\ 4 + ((q - 4) + i) = q + i
      BY <1>1
    <3>. QED
      BY <1>2, <1>5, <1>6, <3>1
  <2>. QED
    BY <1>5, <1>6, <2>1, SeqEqual
<1>8. f = SubSeq(D, 1, q - 4)
  <2>1. q = 4 => SubSeq(D, 1, q - 4) = <<>>
    BY SubSeqEmpty
  <2>. QED
    BY <1>1, <2>1 DEF D
<1>9. SubSeq(D, 1, q - 4) \o SubSeq(D, (q - 4) + 1, p - 4) = SubSeq(D, 1, p - 4)
  <2>1. 1 \in 1 .. Len(D) + 1 /\ q - 4 \in 1 - 1 .. Len(D) /\ p - 4 \in q - 4 .. Len(D)
    BY <1>1
  <2>. QED
    BY <1>1, <2>1, ConcatAdjacentSubSeq
<1>10. SubSeq(D, 1, p - 4) \in Seq(Units)
  <2>1. \A i \in 1 .. p - 4 : D[i] \in Units
    BY <1>1, <1>4, ElementOfSeq
  <2>2. 1 \in Int /\ p - 4 \in Int
    BY <1>1
  <2>. QED
    BY <2>1, <2>2, SubSeqProperties
<1>. QED
  BY <1>3, <1>7, <1>8, <1>9, <1>10 DEF D, str

LEMMA DataTurn ==
  ASSUME NEW a \in Seq(Epoll!Requests), NEW n \in 1 .. Len(a), a[n].kind = "file",
         NEW files, n \in 1 .. Len(files), NEW p \in 4 .. Size(a[n]), NEW s,
         NEW q \in 4 .. p, q < p, Stands(s, a, n, files, q, p)
  PROVE  Stands(Epoll!Turn(s, a), a, n, files, p, p)
<1>. DEFINE r == a[n]
            str == Epoll!Stream(r, n)
            D == Epoll!Data(r, n)
            b == s.e.buffer
            need == r.size - s.e.received
            k == IF Len(b) < need THEN Len(b) ELSE need
            e == [s.e EXCEPT !.buffer = SubSeq(b, k + 1, Len(b)), !.received = @ + k]
            w == [s EXCEPT !.files[n] = @ \o SubSeq(b, 1, k)]
            t == Epoll!Turn(s, a)
<1>1. r \in Epoll!Requests /\ n \in Nat /\ Len(a) \in Nat
  BY ElementOfSeq, LenProperties
<1>2. /\ str \in Seq(Units) /\ Len(str) = Size(r) /\ Size(r) = 4 + r.size /\ r.size \in Nat
  <2>1. r.size \in Nat
    BY <1>1, DataFacts
  <2>2. str = Epoll!Stream(r, n)
    OBVIOUS
  <2>3. r.kind = "file"
    OBVIOUS
  <2>. HIDE DEF str, r
  <2>4. str \in Seq(Units) /\ Len(str) = Size(r)
    BY <1>1, <2>2, StreamFacts
  <2>. QED
    BY <2>1, <2>3, <2>4 DEF Size
<1>3. /\ s \in LoopStates /\ s.e.fd = "open" /\ Taking(s.e, s.files[n], r, n, q)
      /\ b = SubSeq(str, q + 1, p) /\ Len(s.files) = Len(files)
      /\ \A i \in 1 .. Len(files) : i # n => s.files[i] = files[i]
      /\ s.out = IF q = Size(r) /\ ~Empty(r) THEN Answer(r, n) ELSE <<>>
  BY DEF Stands
<1>4. s.e \in Entries /\ s.files \in Seq(Seq(Units)) /\ n \in 1 .. Len(s.files)
  BY <1>3 DEF LoopStates
<1>5. q < 4 + r.size /\ q # Size(r) /\ q >= 4 /\ r.size > 0
  BY <1>2
<1>6. /\ s.e.state = "DATA" /\ s.e.received = q - 4 /\ s.e.file = n /\ s.out = <<>>
      /\ s.files[n] = IF q <= 4 THEN <<>> ELSE SubSeq(D, 1, q - 4)
  <2>. HIDE DEF b, str, D
  <2>. QED
    BY <1>2, <1>3, <1>5 DEF Taking, D
<1>7. b \in Seq(Units) /\ Len(b) = p - q /\ b # <<>>
  <2>1. p \in 0 .. Len(str) /\ q \in 0 .. p
    BY <1>2
  <2>2. b \in Seq(Units) /\ Len(b) = p - q
    <3>1. str \in Seq(Units) /\ b = SubSeq(str, q + 1, p)
      BY <1>2, <1>3
    <3>. HIDE DEF str, b
    <3>. QED
      BY <2>1, <3>1, Segment
  <2>3. Len(b) # 0
    BY <1>2, <2>2
  <2>. HIDE DEF b
  <2>. QED
    BY <2>2, <2>3, EmptySeq
<1>8. need = 4 + r.size - q /\ k = p - q
  <2>1. need = 4 + r.size - q
    BY <1>2, <1>6
  <2>2. p - q \in Int /\ need \in Int /\ p - q <= need
    BY <1>2, <2>1
  <2>. HIDE DEF need, b
  <2>3. Len(b) = p - q
    BY <1>7
  <2>4. (IF Len(b) < need THEN Len(b) ELSE need) = p - q
    BY <2>2, <2>3
  <2>. QED
    BY <2>1, <2>4
<1>9. t = IF k < need THEN [w EXCEPT !.e = e]
          ELSE [w EXCEPT !.e = [e EXCEPT !.state = "IDLE", !.output = "closed"],
                         !.out = Append(@, <<n, "OK">>)]
  <2>1. t = Epoll!TakeData(s, a)
    <3>. HIDE DEF b
    <3>. QED
      BY <1>6, <1>7 DEF Epoll!Turn, b
  <2>. QED
    BY <1>6, <2>1, Zenon DEF Epoll!TakeData
<1>. DEFINE f == SubSeq(D, 1, p - 4)
<1>10. SubSeq(b, 1, k) = b /\ SubSeq(b, k + 1, Len(b)) = <<>> /\ <<>> = SubSeq(str, p + 1, p)
  <2>. HIDE DEF b, k, str
  <2>1. SubSeq(b, 1, Len(b)) = b
    BY <1>7, SubSeqFull
  <2>2. SubSeq(b, k + 1, Len(b)) = <<>>
    <3>1. k + 1 \in Int /\ Len(b) \in Int /\ Len(b) < k + 1
      BY <1>2, <1>7, <1>8
    <3>. QED
      BY <3>1, SubSeqEmpty
  <2>3. <<>> = SubSeq(str, p + 1, p)
    BY <1>2, SubSeqEmpty
  <2>. QED
    BY <1>7, <1>8, <2>1, <2>2, <2>3
<1>11. s.files[n] \o b = f /\ f \in Seq(Units)
  <2>1. p \in 4 .. 4 + r.size /\ r.kind = "file"
    BY <1>2
  <2>. HIDE DEF b, r
  <2>. QED
    BY <1>1, <1>3, <1>6, <2>1, WrittenOn DEF str, D, f
<1>12. /\ e \in Entries /\ e.fd = "open" /\ e.state = "DATA" /\ e.file = n /\ e.received = p - 4
       /\ e.buffer = <<>>
  <2>1. <<>> \in Seq(Units) /\ (q - 4) + (p - q) = p - 4 /\ p - 4 \in Nat
    BY <1>2, EmptySeq
  <2>2. e = [s.e EXCEPT !.buffer = <<>>, !.received = p - 4]
    <3>1. s.e.received + k = p - 4
      BY <1>6, <1>8, <2>1
    <3>. HIDE DEF k, b
    <3>. QED
      BY <1>4, <1>10, <3>1 DEF Entries
  <2>. HIDE DEF e
  <2>. QED
    BY <1>3, <1>4, <1>6, <2>1, <2>2 DEF Entries
<1>13. /\ w \in LoopStates /\ w.e = s.e /\ w.out = <<>> /\ w.files = [s.files EXCEPT ![n] = f]
  <2>1. w = [s EXCEPT !.files = [s.files EXCEPT ![n] = f]]
    <3>1. s.files[n] \o SubSeq(b, 1, k) = f
      BY <1>10, <1>11
    <3>. HIDE DEF k, b, f
    <3>. QED
      BY <1>3, <3>1 DEF LoopStates
  <2>2. [s.files EXCEPT ![n] = f] \in Seq(Seq(Units))
    BY <1>4, <1>11, ExceptSeq
  <2>. HIDE DEF w, f
  <2>. QED
    BY <1>3, <1>6, <2>1, <2>2 DEF LoopStates
<1>14. /\ Len(w.files) = Len(files) /\ w.files[n] = f
       /\ \A i \in 1 .. Len(files) : i # n => w.files[i] = files[i]
  <2>. HIDE DEF w, f
  <2>1. /\ Len(w.files) = Len(s.files)
        /\ \A j \in 1 .. Len(s.files) : w.files[j] = IF j = n THEN f ELSE s.files[j]
    BY <1>4, <1>11, <1>13, ExceptSeq
  <2>. QED
    BY <1>3, <1>4, <2>1
<1>15. f = IF p <= 4 THEN <<>> ELSE SubSeq(Epoll!Data(r, n), 1, p - 4)
  <2>1. p <= 4 => f = <<>>
    BY SubSeqEmpty
  <2>. QED
    BY <2>1
<1>. HIDE DEF w, e, b, k, need, str, D, f
<1>16. CASE p < 4 + r.size
  <2>1. t = [w EXCEPT !.e = e]
    BY <1>2, <1>8, <1>9, <1>16
  <2>2. t \in LoopStates /\ t.e = e /\ t.out = <<>> /\ t.files = w.files
    BY <1>12, <1>13, <2>1 DEF LoopStates
  <2>3. Taking(t.e, t.files[n], r, n, p)
    <3>1. t.e.state = "DATA" /\ t.e.received = p - 4 /\ t.e.file = n /\ t.files[n] = f
      BY <1>12, <1>14, <2>2
    <3>2. p >= 4 /\ p # 1 /\ p # 0 /\ p # 2 /\ p # 3 /\ r.kind = "file"
      BY <1>2
    <3>. HIDE DEF t, r
    <3>. QED
      BY <1>2, <1>16, <1>15, <3>1, <3>2 DEF Taking
  <2>4. p # Size(r) /\ p \in 0 .. p
    BY <1>2, <1>16
  <2>. HIDE DEF t
  <2>5. Stands(t, a, n, files, p, p)
    BY <1>10, <1>12, <1>14, <2>2, <2>3, <2>4 DEF Stands, str
  <2>. QED
    BY <2>5 DEF t
<1>17. CASE p = 4 + r.size
  <2>. DEFINE x == [e EXCEPT !.state = "IDLE", !.output = "closed"]
  <2>1. t = [w EXCEPT !.e = x, !.out = Append(@, <<n, "OK">>)]
    BY <1>2, <1>8, <1>9, <1>17
  <2>2. x \in Entries /\ x.fd = "open" /\ x.state = "IDLE" /\ x.buffer = <<>>
    BY <1>12 DEF Entries
  <2>3. Append(w.out, <<n, "OK">>) = <<<<n, "OK">>>> /\ <<<<n, "OK">>>> \in Answers
    BY <1>1, <1>13 DEF Answers
  <2>. HIDE DEF x
  <2>4. t \in LoopStates /\ t.e = x /\ t.out = <<<<n, "OK">>>> /\ t.files = w.files
    BY <1>13, <2>1, <2>2, <2>3 DEF LoopStates
  <2>5. Taking(t.e, t.files[n], r, n, p)
    <3>1. t.e.state = "IDLE" /\ t.files[n] = f
      BY <1>14, <2>2, <2>4
    <3>2. p >= 4 /\ p # 1 /\ p # 2 /\ p # 3
      BY <1>2
    <3>3. r.size > 0
      BY <1>5
    <3>. HIDE DEF t, r
    <3>. QED
      BY <1>2, <1>17, <1>15, <3>1, <3>2, <3>3 DEF Taking
  <2>6. p = Size(r) /\ ~Empty(r) /\ Answer(r, n) = <<<<n, "OK">>>> /\ p \in 0 .. p
    BY <1>2, <1>5, <1>17 DEF Empty, Answer
  <2>. HIDE DEF t
  <2>7. Stands(t, a, n, files, p, p)
    BY <1>10, <1>14, <2>2, <2>4, <2>5, <2>6 DEF Stands, str
  <2>. QED
    BY <2>7 DEF t
<1>. QED
  BY <1>2, <1>16, <1>17

\* A turn takes at least one unit until nothing can be taken.
LEMMA TurnStep ==
  ASSUME NEW a \in Seq(Epoll!Requests), NEW n \in 1 .. Len(a), a[n].opens,
         NEW files, n \in 1 .. Len(files), NEW p \in 1 .. Size(a[n]), NEW s,
         NEW q \in 0 .. p, Stands(s, a, n, files, q, p)
  PROVE  IF q = p \/ (q = 0 /\ p = 1) THEN Epoll!Turn(s, a) = s
         ELSE \E x \in q + 1 .. p : Stands(Epoll!Turn(s, a), a, n, files, x, p)
<1>. DEFINE r == a[n]
<1>1. r \in Epoll!Requests /\ n \in Nat /\ Len(a) \in Nat
  BY ElementOfSeq, LenProperties
<1>2. /\ r.kind \in {"calc", "file"} /\ r.size \in Nat
  BY <1>1, DataFacts
<1>3. CASE q = p
  <2>1. s.e.buffer = SubSeq(Epoll!Stream(r, n), q + 1, p)
    BY DEF Stands
  <2>2. SubSeq(Epoll!Stream(r, n), q + 1, p) = <<>>
    BY <1>2, <1>3, SubSeqEmpty DEF Size
  <2>3. s.e.buffer = <<>>
    BY <2>1, <2>2
  <2>4. Epoll!Turn(s, a) = s
    BY <2>3 DEF Epoll!Turn
  <2>. QED
    BY <1>3, <2>4
<1>4. CASE q = 0
  <2>1. IF p = 1 THEN Epoll!Turn(s, a) = s ELSE Stands(Epoll!Turn(s, a), a, n, files, 2, p)
    BY <1>4, LineTurn
  <2>2. p # 1 => 2 \in q + 1 .. p
    BY <1>2, <1>4 DEF Size
  <2>. QED
    BY <1>2, <1>4, <2>1, <2>2 DEF Size
<1>5. CASE q # 0 /\ q # p
  <2>1. q # 1 /\ q < p /\ r.kind = "file" /\ p \in 1 .. 4 + r.size /\ q >= 2
    <3>1. q # 1
      BY DEF Stands, Taking
    <3>. QED
      BY <1>2, <1>5, <3>1 DEF Size
  <2>2. CASE q \in {2, 3}
    <3>1. \E x \in q + 1 .. p : Stands(Epoll!Turn(s, a), a, n, files, x, p)
      BY <2>1, <2>2, SizeTurn
    <3>. QED
      BY <1>5, <3>1
  <2>3. CASE q >= 4
    <3>1. p \in 4 .. Size(a[n]) /\ q \in 4 .. p
      BY <1>2, <2>1, <2>3 DEF Size
    <3>2. Stands(Epoll!Turn(s, a), a, n, files, p, p)
      BY <2>1, <3>1, DataTurn
    <3>3. p \in q + 1 .. p
      BY <1>2, <2>1, <3>1
    <3>. QED
      BY <1>5, <3>2, <3>3
  <2>. QED
    BY <1>2, <2>1, <2>2, <2>3
<1>. QED
  BY <1>3, <1>4, <1>5

\* The function process_client's loop computes, up to the m-th turn.
Loops(f, e, a, files, m) ==
    f = [i \in 0 .. m |-> IF i = 0 THEN Epoll!Loop(e, files) ELSE Epoll!Turn(f[i - 1], a)]

LEMMA LoopExists ==
  ASSUME NEW e, NEW a, NEW files, NEW L \in Nat
  PROVE  \E f : Loops(f, e, a, files, L)
<1>. DEFINE T == {m \in Nat : \E f : Loops(f, e, a, files, m)}
<1>1. 0 \in T
  <2>. DEFINE f == [i \in 0 .. 0 |-> Epoll!Loop(e, files)]
  <2>1. f = [i \in 0 .. 0 |-> IF i = 0 THEN Epoll!Loop(e, files) ELSE Epoll!Turn(f[i - 1], a)]
    OBVIOUS
  <2>2. Loops(f, e, a, files, 0)
    BY <2>1, Zenon DEF Loops
  <2>. QED
    BY <2>2
<1>2. ASSUME NEW m \in Nat, m \in T PROVE m + 1 \in T
  <2>1. PICK f : Loops(f, e, a, files, m)
    BY <1>2
  <2>2. \A i \in 0 .. m : f[i] = IF i = 0 THEN Epoll!Loop(e, files) ELSE Epoll!Turn(f[i - 1], a)
    BY <2>1 DEF Loops
  <2>. DEFINE g == [i \in 0 .. m + 1 |-> IF i <= m THEN f[i] ELSE Epoll!Turn(f[m], a)]
  <2>3. \A i \in 0 .. m + 1 :
          g[i] = IF i = 0 THEN Epoll!Loop(e, files) ELSE Epoll!Turn(g[i - 1], a)
    <3>. SUFFICES ASSUME NEW i \in 0 .. m + 1
                  PROVE  g[i] = IF i = 0 THEN Epoll!Loop(e, files) ELSE Epoll!Turn(g[i - 1], a)
      OBVIOUS
    <3>1. CASE i = 0
      BY <2>2, <3>1
    <3>2. CASE i # 0 /\ i <= m
      <4>1. i - 1 \in 0 .. m /\ i \in 0 .. m
        BY <3>2
      <4>2. g[i] = f[i] /\ g[i - 1] = f[i - 1]
        BY <3>2, <4>1
      <4>. QED
        BY <2>2, <3>2, <4>1, <4>2
    <3>3. CASE i = m + 1
      BY <3>3
    <3>. QED
      BY <3>1, <3>2, <3>3
  <2>. HIDE DEF g
  <2>4. g = [i \in 0 .. m + 1 |-> g[i]]
    BY DEF g
  <2>5. Loops(g, e, a, files, m + 1)
    BY <2>3, <2>4 DEF Loops
  <2>. QED
    BY <2>5
<1>. HIDE DEF T
<1>3. \A n \in 0 .. L : n \in T
  BY <1>1, <1>2, UpTo
<1>. QED
  BY <1>3 DEF T

\* What process_client does with what is in the buffer: the loop ends where it can
\* take no more.
\* The parser has taken all the units it can.
Settled(s, a, n, files, p) ==
    \E x \in 0 .. p : Stands(s, a, n, files, x, p) /\ (x = p \/ (x = 0 /\ p = 1))

LEMMA Processes ==
  ASSUME NEW a \in Seq(Epoll!Requests), NEW n \in 1 .. Len(a), a[n].opens,
         NEW files, n \in 1 .. Len(files), NEW p \in 1 .. Size(a[n]), NEW e,
         NEW q \in 0 .. p, q < p, Stands(Epoll!Loop(e, files), a, n, files, q, p)
  PROVE  Settled(Epoll!process_client(e, a, files), a, n, files, p)
<1>. DEFINE c == CHOOSE f : Loops(f, e, a, files, 2 * Len(e.buffer))
            str == Epoll!Stream(a[n], n)
<1>1. Size(a[n]) \in Nat /\ str \in Seq(Units) /\ Len(str) = Size(a[n])
  <2>1. a[n] \in Epoll!Requests /\ n \in Nat
    BY ElementOfSeq, LenProperties
  <2>2. str = Epoll!Stream(a[n], n)
    OBVIOUS
  <2>. HIDE DEF str
  <2>. QED
    BY <2>1, <2>2, StreamFacts
<1>2. Len(e.buffer) = p - q
  <2>1. e.buffer = SubSeq(str, q + 1, p)
    BY DEF Stands, Epoll!Loop
  <2>2. p \in 0 .. Len(str) /\ q \in 0 .. p
    BY <1>1
  <2>. HIDE DEF str
  <2>. QED
    BY <1>1, <2>1, <2>2, Segment
<1>3. Loops(c, e, a, files, 2 * Len(e.buffer))
  <2>1. 2 * Len(e.buffer) \in Nat
    BY <1>1, <1>2
  <2>. QED
    BY <2>1, LoopExists
<1>4. Epoll!process_client(e, a, files) = c[2 * Len(e.buffer)]
  BY Zenon DEF Epoll!process_client, Loops
<1>. HIDE DEF c
<1>5. \A i \in 0 .. 2 * (p - q) :
        c[i] = IF i = 0 THEN Epoll!Loop(e, files) ELSE Epoll!Turn(c[i - 1], a)
  BY <1>2, <1>3 DEF Loops
<1>. DEFINE Ends(x) == x = p \/ (x = 0 /\ p = 1)
            Far(i) == \E x \in 0 .. p : /\ Stands(c[i], a, n, files, x, p)
                                        /\ Ends(x) \/ x >= q + i
            T == {i \in 0 .. 2 * (p - q) : Far(i)}
<1>6. 0 \in T
  <2>1. c[0] = Epoll!Loop(e, files) /\ 0 \in 0 .. 2 * (p - q)
    BY <1>1, <1>5
  <2>2. Far(0)
    <3>1. Stands(c[0], a, n, files, q, p) /\ q >= q + 0
      BY <1>1, <2>1
    <3>. QED
      BY <3>1
  <2>. HIDE DEF Far
  <2>. QED
    BY <2>1, <2>2
<1>7. ASSUME NEW i \in 0 .. 2 * (p - q), i \in T, i < 2 * (p - q) PROVE i + 1 \in T
  <2>1. Far(i)
    <3>. HIDE DEF Far
    <3>. QED
      BY <1>7
  <2>2. PICK x \in 0 .. p : Stands(c[i], a, n, files, x, p) /\ (Ends(x) \/ x >= q + i)
    BY <2>1
  <2>3. i + 1 \in 0 .. 2 * (p - q) /\ i + 1 # 0 /\ (i + 1) - 1 = i
    BY <1>1, <1>7
  <2>4. c[i + 1] = Epoll!Turn(c[i], a)
    BY <1>5, <2>3
  <2>5. IF x = p \/ (x = 0 /\ p = 1) THEN Epoll!Turn(c[i], a) = c[i]
        ELSE \E y \in x + 1 .. p : Stands(Epoll!Turn(c[i], a), a, n, files, y, p)
    BY <2>2, TurnStep
  <2>6. CASE Ends(x)
    BY <2>2, <2>3, <2>4, <2>5, <2>6
  <2>7. CASE ~Ends(x)
    <3>1. PICK y \in x + 1 .. p : Stands(Epoll!Turn(c[i], a), a, n, files, y, p)
      BY <2>5, <2>7
    <3>2. y \in 0 .. p /\ y >= q + (i + 1)
      BY <1>1, <2>2, <2>7
    <3>3. Far(i + 1)
      BY <2>4, <3>1, <3>2
    <3>. HIDE DEF Far
    <3>. QED
      BY <2>3, <3>3
  <2>. QED
    BY <2>6, <2>7
<1>. HIDE DEF T
<1>8. 2 * (p - q) \in Nat /\ 2 * (p - q) > p - q
  BY <1>1
<1>9. \A i \in 0 .. 2 * (p - q) : i \in T
  BY <1>6, <1>7, <1>8, UpTo
<1>10. Far(2 * (p - q))
  <2>1. 2 * (p - q) \in 0 .. 2 * (p - q)
    BY <1>8
  <2>. HIDE DEF Far
  <2>. QED
    BY <1>9, <2>1 DEF T
<1>11. \A x \in 0 .. p : ~(x >= q + 2 * (p - q))
  BY <1>1, <1>8
<1>. QED
  BY <1>2, <1>4, <1>10, <1>11 DEF Settled

-----------------------------------------------------------------------------
(* What the steps of a client and of the server do to one client's state *)

LEMMA FinUnit == Epoll!Fin \in Units /\ Epoll!Fin.k = "fin"
BY DEF Epoll!Fin, Epoll!Unit, Units

LEMMA ClosedEntry ==
  /\ Epoll!Closed \in Entries /\ Epoll!Closed.fd = "closed"
  /\ \A f \in {"backlog", "open"} :
        LET e == [Epoll!Closed EXCEPT !.fd = f]
        IN e \in Entries /\ e.fd = f /\ e.state = "IDLE" /\ e.buffer = <<>>
<1>1. <<>> \in Seq(Units)
  BY EmptySeq
<1>. QED
  BY <1>1 DEF Epoll!Closed, Entries

\* The first requests and their files stay.
Keeps(a, st, a2, st2, last) == \A n \in 1 .. last : a2[n] = a[n] /\ st2[n] = st[n]

LEMMA ToldStill ==
  ASSUME NEW a, NEW st, NEW h, NEW a2, NEW st2, NEW last \in Nat, NEW more \in Nat,
         last <= more, Told(a, st, h, last), Keeps(a, st, a2, st2, last)
  PROVE  Told(a2, st2, h, more)
<1>. SUFFICES ASSUME NEW i \in DOMAIN h
              PROVE  \E n \in 1 .. more : /\ h[i] = <<n, Answer(a2[n], n)>>
                                          /\ a2[n].kind = "file" => st2[n] = Epoll!Data(a2[n], n)
  BY DEF Told
<1>1. PICK n \in 1 .. last : /\ h[i] = <<n, Answer(a[n], n)>>
                             /\ a[n].kind = "file" => st[n] = Epoll!Data(a[n], n)
  BY DEF Told
<1>2. n \in 1 .. more /\ a2[n] = a[n] /\ st2[n] = st[n]
  BY DEF Keeps
<1>. QED
  BY <1>1, <1>2

LEMMA ClientConnects ==
  ASSUME NEW a, NEW w, NEW s, NEW g, NEW d, NEW h, NEW e, NEW st,
         Good("away", a, w, s, g, d, h, e, st), e.fd = "closed"
  PROVE  Good("prompt", a, w, s, g, d, h, [e EXCEPT !.fd = "backlog"], st)
<1>. SUFFICES ASSUME Clean(a) PROVE Good("prompt", a, w, s, g, d, h, [e EXCEPT !.fd = "backlog"], st)
  BY DEF Good
<1>. DEFINE x == [Epoll!Closed EXCEPT !.fd = "backlog"]
<1>1. /\ ClientTypes(a, w, s, h, e, st) /\ Agrees("away", a, w, s, d, e, st)
      /\ Told(a, st, h, Len(a))
  BY DEF Good
<1>2. e = Epoll!Closed /\ w = <<>> /\ s = <<>> /\ d = <<>> /\ a = <<>>
  BY <1>1 DEF Agrees
<1>3. x \in Entries /\ x.fd = "backlog" /\ x.state = "IDLE" /\ x.buffer = <<>>
  BY ClosedEntry
<1>4. [e EXCEPT !.fd = "backlog"] = x
  BY <1>2
<1>. HIDE DEF x
<1>5. s \o w = <<>>
  BY <1>2, EmptySeq, ConcatEmptySeq
<1>6. Agrees("prompt", a, w, s, d, x, st)
  BY <1>2, <1>3, <1>5 DEF Agrees, x
<1>7. ClientTypes(a, w, s, h, x, st)
  BY <1>1, <1>3 DEF ClientTypes
<1>. QED
  BY <1>1, <1>2, <1>4, <1>6, <1>7 DEF Good

LEMMA MoreAsked ==
  ASSUME NEW a \in Seq(Epoll!Requests), NEW r \in Epoll!Requests, NEW x, x = Append(a, r)
  PROVE  /\ Len(a) \in Nat
         /\ Clean(x) => Clean(a) /\ r.opens
         /\ Fits(x) => Fits(a)
<1>1. /\ x \in Seq(Epoll!Requests) /\ Len(x) = Len(a) + 1 /\ x[Len(a) + 1] = r
      /\ \A n \in 1 .. Len(a) : x[n] = a[n]
  BY AppendProperties
<1>2. Len(a) \in Nat /\ DOMAIN a = 1 .. Len(a) /\ DOMAIN x = 1 .. Len(a) + 1
  BY <1>1, LenProperties
<1>3. Len(a) + 1 \in 1 .. Len(a) + 1 /\ \A n \in 1 .. Len(a) : n \in 1 .. Len(a) + 1
  BY <1>2
<1>. QED
  BY <1>1, <1>2, <1>3 DEF Clean, Fits

LEMMA ClientAsks ==
  ASSUME NEW a \in Seq(Epoll!Requests), NEW r \in Epoll!Requests,
         NEW w, NEW s, NEW g, NEW d, NEW h, NEW e, NEW st,
         Good("prompt", a, w, s, g, d, h, e, st)
  PROVE  Good("wait", Append(a, r),
              IF e.fd = "closed" THEN <<>> ELSE w \o Epoll!Stream(r, Len(a) + 1),
              s, g, d, h, e, Append(st, <<>>))
<1>. DEFINE x == Append(a, r)
            n == Len(a) + 1
            str == Epoll!Stream(r, n)
            w2 == IF e.fd = "closed" THEN <<>> ELSE w \o str
            st2 == Append(st, <<>>)
<1>. SUFFICES ASSUME Clean(x) PROVE Good("wait", x, w2, s, g, d, h, e, st2)
  BY DEF Good
<1>1. /\ Len(a) \in Nat /\ Len(x) = Len(a) + 1 /\ x[Len(a) + 1] = r
      /\ \A i \in 1 .. Len(a) : x[i] = a[i]
      /\ Clean(a) /\ r.opens
  <2>1. x = Append(a, r)
    OBVIOUS
  <2>. HIDE DEF x
  <2>2. x[Len(a) + 1] = r /\ Len(x) = Len(a) + 1 /\ \A i \in 1 .. Len(a) : x[i] = a[i]
    BY <2>1, AppendProperties
  <2>3. Len(a) \in Nat /\ (Clean(x) => Clean(a) /\ r.opens)
    BY <2>1, MoreAsked
  <2>. QED
    BY <2>2, <2>3
<1>2. /\ ClientTypes(a, w, s, h, e, st) /\ Agrees("prompt", a, w, s, d, e, st)
      /\ Told(a, st, h, Len(a))
  BY <1>1 DEF Good
<1>3. str \in Seq(Units) /\ Len(str) = Size(r) /\ Size(r) \in Nat /\ Size(r) >= 2
  <2>1. str = Epoll!Stream(r, n) /\ n \in Nat
    BY <1>1
  <2>2. r.size \in Nat
    BY <1>1, DataFacts
  <2>. HIDE DEF str, n
  <2>3. str \in Seq(Units) /\ Len(str) = Size(r) /\ Size(r) \in Nat
    BY <2>1, StreamFacts
  <2>. QED
    BY <2>2, <2>3 DEF Size
<1>. HIDE DEF x, str
<1>4. /\ w \in Seq(Units) /\ s \in Seq(Units) /\ st \in Seq(Seq(Units)) /\ Len(st) = Len(a)
      /\ <<>> \in Seq(Units)
  BY <1>2, EmptySeq DEF ClientTypes
<1>5. e.fd # "closed" => s = <<>> /\ w2 = str
  <2>. SUFFICES ASSUME e.fd # "closed" PROVE s = <<>> /\ w = <<>> /\ w2 = str
    OBVIOUS
  <2>1. s \o w = <<>>
    BY <1>2 DEF Agrees
  <2>2. s = <<>> /\ w = <<>>
    BY <1>4, <2>1, ConcatEqualIffEmpty
  <2>. QED
    BY <1>3, <2>2, ConcatEmptySeq
<1>6. w2 \in Seq(Units)
  BY <1>3, <1>4, <1>5
<1>7. /\ st2 \in Seq(Seq(Units)) /\ Len(st2) = n /\ st2[n] = <<>>
      /\ \A i \in 1 .. Len(a) : st2[i] = st[i]
  BY <1>4, AppendProperties
<1>. HIDE DEF w2, st2
<1>8. ClientTypes(x, w2, s, h, e, st2)
  BY <1>1, <1>2, <1>6, <1>7 DEF ClientTypes
<1>9. Told(x, st2, h, Len(x) - 1)
  <2>1. Len(x) - 1 = Len(a)
    BY <1>1
  <2>2. /\ Len(a) \in Nat /\ Len(x) - 1 \in Nat /\ Len(a) <= Len(x) - 1
        /\ Told(a, st, h, Len(a))
    BY <1>1, <1>2, <2>1
  <2>3. Keeps(a, st, x, st2, Len(a))
    BY <1>1, <1>7 DEF Keeps
  <2>. QED
    BY <2>2, <2>3, ToldStill
<1>10. e.fd # "closed" => Served(r, n, e, <<>>, s, w2, d)
  <2>. SUFFICES ASSUME e.fd # "closed" PROVE Served(r, n, e, <<>>, s, w2, d)
    OBVIOUS
  <2>1. d = <<>> /\ e.state = "IDLE" /\ e.buffer = <<>>
    BY <1>2 DEF Agrees
  <2>2. Taking(e, <<>>, r, n, 0)
    BY <1>3, <2>1 DEF Taking, Size
  <2>3. SubSeq(str, 0 + 1, 0) = <<>>
    BY SubSeqEmpty
  <2>4. 0 \in 0 .. Len(str) /\ 0 \in 0 .. 0 /\ 0 # Len(str)
    BY <1>3
  <2>5. Parsed(r, n, e, <<>>, 0, 0)
    BY <2>1, <2>2, <2>3, <2>4 DEF Parsed, str
  <2>6. s \o w2 = SubSeq(str, 0 + 1, Len(str))
    <3>1. s \o w2 = str
      BY <1>3, <1>5, ConcatEmptySeq
    <3>. QED
      BY <1>3, <3>1, SubSeqFull
  <2>. QED
    BY <2>1, <2>4, <2>5, <2>6 DEF Served, str
<1>11. Agrees("wait", x, w2, s, d, e, st2)
  <2>1. /\ e.fd = "closed" => e = Epoll!Closed /\ w = <<>> /\ s = <<>>
        /\ e.fd = "backlog" => e = [Epoll!Closed EXCEPT !.fd = "backlog"]
        /\ d = <<>>
    BY <1>2 DEF Agrees
  <2>2. e.fd = "closed" => w2 = <<>>
    BY DEF w2
  <2>3. Len(x) = n /\ n > 0 /\ x[n] = r
    BY <1>1
  <2>. HIDE DEF n
  <2>. QED
    BY <1>7, <1>10, <2>1, <2>2, <2>3 DEF Agrees
<1>12. e.fd # "closed" => s = <<>>
  BY <1>5
<1>. QED
  BY <1>8, <1>9, <1>11, <1>12 DEF Good

LEMMA SegmentsArrive ==
  ASSUME NEW u, NEW a, NEW w, NEW s, NEW g, NEW d, NEW h, NEW e, NEW st,
         Good(u, a, w, s, g, d, h, e, st), NEW k \in 1 .. Len(w)
  PROVE  Good(u, a, SubSeq(w, k + 1, Len(w)), s \o SubSeq(w, 1, k), TRUE, d, h, e, st)
<1>. DEFINE w2 == SubSeq(w, k + 1, Len(w))
            s2 == s \o SubSeq(w, 1, k)
            last == IF u = "wait" THEN Len(a) - 1 ELSE Len(a)
<1>. SUFFICES ASSUME Clean(a) PROVE Good(u, a, w2, s2, TRUE, d, h, e, st)
  BY DEF Good
<1>1. ClientTypes(a, w, s, h, e, st) /\ Agrees(u, a, w, s, d, e, st) /\ Told(a, st, h, last)
  BY DEF Good
<1>2. w \in Seq(Units) /\ s \in Seq(Units) /\ Len(w) \in Nat
  BY <1>1, LenProperties DEF ClientTypes
<1>3. w # <<>>
  <2>1. Len(w) # 0
    BY <1>2
  <2>. QED
    BY <1>2, <2>1, EmptySeq
<1>4. e.fd # "closed" /\ (e.fd = "backlog" => e = [Epoll!Closed EXCEPT !.fd = "backlog"])
  BY <1>1, <1>3 DEF Agrees
<1>5. \A i \in 1 .. Len(w) : w[i] \in Units
  BY <1>2, ElementOfSeq
<1>6. SubSeq(w, 1, k) \in Seq(Units) /\ w2 \in Seq(Units)
  <2>1. \A i \in 1 .. k : w[i] \in Units
    BY <1>2, <1>5
  <2>2. \A i \in k + 1 .. Len(w) : w[i] \in Units
    BY <1>2, <1>5
  <2>3. 1 \in Int /\ k \in Int /\ k + 1 \in Int /\ Len(w) \in Int
    BY <1>2
  <2>4. SubSeq(w, 1, k) \in Seq(Units)
    BY <2>1, <2>3, SubSeqProperties
  <2>. HIDE DEF w2
  <2>5. w2 = SubSeq(w, k + 1, Len(w))
    BY DEF w2
  <2>6. SubSeq(w, k + 1, Len(w)) \in Seq(Units)
    BY <2>2, <2>3, SubSeqProperties
  <2>. QED
    BY <2>4, <2>5, <2>6
<1>7. SubSeq(w, 1, k) \o w2 = w
  <2>1. 1 \in 1 .. Len(w) + 1 /\ k \in 1 - 1 .. Len(w) /\ Len(w) \in k .. Len(w)
    BY <1>2
  <2>2. SubSeq(w, 1, k) \o SubSeq(w, k + 1, Len(w)) = SubSeq(w, 1, Len(w))
    BY <1>2, <2>1, ConcatAdjacentSubSeq
  <2>3. SubSeq(w, 1, Len(w)) = w
    BY <1>2, SubSeqFull
  <2>. QED
    BY <2>2, <2>3
<1>. DEFINE v == SubSeq(w, 1, k)
<1>8. v \in Seq(Units) /\ v \o w2 = w /\ s2 = s \o v
  BY <1>6, <1>7
<1>. HIDE DEF v, w2, s2
<1>9. s2 \in Seq(Units) /\ s2 \o w2 = s \o w
  <2>3. s \in Seq(Units) /\ v \in Seq(Units) /\ w2 \in Seq(Units)
    BY <1>2, <1>6, <1>8
  <2>1. (s \o v) \o w2 = s \o (v \o w2)
    BY <2>3, ConcatAssociative
  <2>2. s \o v \in Seq(Units)
    BY <1>2, <1>8, ConcatProperties
  <2>. QED
    BY <1>8, <2>1, <2>2
<1>10. ClientTypes(a, w2, s2, h, e, st)
  BY <1>1, <1>6, <1>9 DEF ClientTypes
<1>11. Agrees(u, a, w2, s2, d, e, st)
  BY <1>1, <1>4, <1>9 DEF Agrees, Served
<1>. QED
  BY <1>1, <1>10, <1>11 DEF Good

\* A client that has its answer: nothing of its request is left anywhere.
LEMMA AllServed ==
  ASSUME NEW r \in Epoll!Requests, NEW n \in Nat, NEW e, NEW f, NEW s, NEW w, NEW d,
         Served(r, n, e, f, s, w, d), d # <<>>
  PROVE  s \o w = <<>> /\ e.state = "IDLE" /\ e.buffer = <<>>
<1>. DEFINE str == Epoll!Stream(r, n)
<1>1. Len(str) = Size(r) /\ Size(r) \in Nat /\ Size(r) >= 2 /\ r.size \in Nat /\ r.kind \in {"calc", "file"}
  <2>1. str = Epoll!Stream(r, n)
    OBVIOUS
  <2>2. r.size \in Nat /\ r.kind \in {"calc", "file"}
    BY DataFacts
  <2>. HIDE DEF str
  <2>3. Len(str) = Size(r) /\ Size(r) \in Nat
    BY <2>1, StreamFacts
  <2>. QED
    BY <2>2, <2>3 DEF Size
<1>. HIDE DEF str
<1>2. PICK p, q \in 0 .. Len(str) :
         /\ Parsed(r, n, e, f, p, q) /\ s \o w = SubSeq(str, p + 1, Len(str))
         /\ d = IF p = Len(str) /\ ~Empty(r) THEN Answer(r, n) ELSE <<>>
  BY DEF Served, str
<1>3. p = Len(str) /\ ~Empty(r)
  BY <1>2
<1>4. Taking(e, f, r, n, q) /\ e.buffer = SubSeq(str, q + 1, p) /\ (p = q \/ (q = 0 /\ p = 1))
  BY <1>2 DEF Parsed, str
<1>5. q = Len(str)
  BY <1>1, <1>3, <1>4
<1>6. e.buffer = <<>> /\ s \o w = <<>>
  BY <1>1, <1>2, <1>3, <1>4, <1>5, SubSeqEmpty
<1>7. e.state = "IDLE"
  <2>1. r.kind = "calc" \/ (q = 4 + r.size /\ r.size > 0)
    BY <1>1, <1>3, <1>5 DEF Empty, Size
  <2>. QED
    BY <1>4, <2>1 DEF Taking
<1>. QED
  BY <1>6, <1>7

LEMMA ClientHears ==
  ASSUME NEW a \in Seq(Epoll!Requests),
         NEW w, NEW s, NEW g, NEW d, NEW h, NEW e, NEW st,
         Good("wait", a, w, s, g, d, h, e, st), d # <<>>,
         NEW k, k = IF a[Len(a)].kind = "file" THEN 1 ELSE Len(d)
  PROVE  Good("prompt", a, w, s, g, SubSeq(d, k + 1, Len(d)),
              Append(h, <<Len(a), SubSeq(d, 1, k)>>), e, st)
<1>. DEFINE n == Len(a)
            r == a[n]
            d2 == SubSeq(d, k + 1, Len(d))
            h2 == Append(h, <<n, SubSeq(d, 1, k)>>)
<1>. SUFFICES ASSUME Clean(a) PROVE Good("prompt", a, w, s, g, d2, h2, e, st)
  BY DEF Good
<1>1. /\ ClientTypes(a, w, s, h, e, st) /\ Agrees("wait", a, w, s, d, e, st)
      /\ Told(a, st, h, n - 1)
      /\ Fits(a) /\ e.fd # "closed" /\ s # <<>> => g
  BY DEF Good
<1>2. /\ n > 0 /\ d = Answer(r, n) /\ (r.kind = "file" => st[n] = Epoll!Data(r, n))
      /\ e.fd # "closed" => Served(r, n, e, st[n], s, w, d)
      /\ e.fd = "closed" => e = Epoll!Closed /\ w = <<>> /\ s = <<>>
      /\ e.fd = "backlog" => e = [Epoll!Closed EXCEPT !.fd = "backlog"]
  BY <1>1 DEF Agrees
<1>3. n \in Nat /\ n \in 1 .. n /\ r \in Epoll!Requests /\ r.kind \in {"calc", "file"}
  <2>1. n \in Nat /\ n \in 1 .. n
    BY <1>2, LenProperties
  <2>2. r \in Epoll!Requests
    BY <2>1, ElementOfSeq
  <2>. QED
    BY <2>1, <2>2, DataFacts
<1>4. d \in Answers /\ k = Len(d) /\ Len(d) \in Nat
  <2>1. CASE r.kind = "calc"
    BY <1>2, <1>3, <2>1 DEF Answer, Epoll!Long, Answers
  <2>2. CASE r.kind = "file"
    BY <1>2, <1>3, <2>2 DEF Answer, Answers
  <2>. QED
    BY <1>3, <2>1, <2>2
<1>5. SubSeq(d, 1, k) = d /\ d2 = <<>>
  <2>1. SubSeq(d, 1, Len(d)) = d
    BY <1>4, SubSeqFull DEF Answers
  <2>2. k + 1 \in Int /\ Len(d) \in Int /\ Len(d) < k + 1
    BY <1>4
  <2>3. SubSeq(d, k + 1, Len(d)) = <<>>
    BY <2>2, SubSeqEmpty
  <2>. QED
    BY <1>4, <2>1, <2>3
<1>6. h \in Seq(Nat \X Answers) /\ <<n, d>> \in Nat \X Answers /\ h2 = Append(h, <<n, d>>)
  BY <1>1, <1>3, <1>4, <1>5 DEF ClientTypes
<1>. HIDE DEF d2, h2, n, r
<1>7. /\ h2 \in Seq(Nat \X Answers) /\ Len(h2) = Len(h) + 1 /\ h2[Len(h) + 1] = <<n, d>>
      /\ \A i \in 1 .. Len(h) : h2[i] = h[i]
  BY <1>6, AppendProperties
<1>8. DOMAIN h = 1 .. Len(h) /\ DOMAIN h2 = 1 .. Len(h) + 1 /\ Len(h) \in Nat
  BY <1>6, <1>7, LenProperties
<1>9. Told(a, st, h2, n)
  <2>. SUFFICES ASSUME NEW i \in DOMAIN h2
                PROVE  \E m \in 1 .. n : /\ h2[i] = <<m, Answer(a[m], m)>>
                                         /\ a[m].kind = "file" => st[m] = Epoll!Data(a[m], m)
    BY DEF Told
  <2>1. CASE i \in 1 .. Len(h)
    <3>1. PICK m \in 1 .. n - 1 : /\ h[i] = <<m, Answer(a[m], m)>>
                                  /\ a[m].kind = "file" => st[m] = Epoll!Data(a[m], m)
      BY <1>1, <1>8, <2>1 DEF Told
    <3>2. m \in 1 .. n /\ h2[i] = h[i]
      BY <1>3, <1>7, <2>1
    <3>. QED
      BY <3>1, <3>2
  <2>2. CASE i = Len(h) + 1
    BY <1>2, <1>3, <1>7, <2>2 DEF r
  <2>. QED
    BY <1>8, <2>1, <2>2
<1>10. e.fd # "closed" => s \o w = <<>> /\ e.state = "IDLE" /\ e.buffer = <<>>
  BY <1>2, <1>3, AllServed
<1>11. Agrees("prompt", a, w, s, d2, e, st)
  BY <1>2, <1>5, <1>10 DEF Agrees
<1>12. ClientTypes(a, w, s, h2, e, st)
  BY <1>1, <1>7 DEF ClientTypes
<1>. QED
  BY <1>1, <1>9, <1>11, <1>12 DEF Good, n

LEMMA ClientHearsClose ==
  ASSUME NEW a \in Seq(Epoll!Requests),
         NEW w, NEW s, NEW g, NEW d, NEW h, NEW e, NEW st,
         Good("wait", a, w, s, g, d, h, e, st), e.fd = "closed", d = <<>>, NEW u \in {"prompt", "gone"}
  PROVE  Good(u, a, w, s, g, d, h, e, st)
<1>. SUFFICES ASSUME Clean(a) PROVE Good(u, a, w, s, g, d, h, e, st)
  BY DEF Good
<1>1. /\ ClientTypes(a, w, s, h, e, st) /\ Agrees("wait", a, w, s, d, e, st)
      /\ Told(a, st, h, Len(a) - 1) /\ Len(a) \in Nat
  BY LenProperties DEF Good
<1>2. Len(a) > 0 /\ Agrees(u, a, w, s, d, e, st)
  BY <1>1 DEF Agrees
<1>3. Told(a, st, h, Len(a))
  <2>1. Keeps(a, st, a, st, Len(a) - 1)
    BY DEF Keeps
  <2>2. Len(a) - 1 \in Nat /\ Len(a) - 1 <= Len(a)
    BY <1>1, <1>2
  <2>. QED
    BY <1>1, <2>1, <2>2, ToldStill
<1>. QED
  BY <1>1, <1>2, <1>3 DEF Good

LEMMA ClientLeaves ==
  ASSUME NEW a, NEW w, NEW s, NEW g, NEW d, NEW h, NEW e, NEW st,
         Good("prompt", a, w, s, g, d, h, e, st)
  PROVE  Good("gone", a, IF e.fd = "closed" THEN <<>> ELSE Append(w, Epoll!Fin),
              s, g, d, h, e, st)
<1>. DEFINE w2 == IF e.fd = "closed" THEN <<>> ELSE Append(w, Epoll!Fin)
<1>. SUFFICES ASSUME Clean(a) PROVE Good("gone", a, w2, s, g, d, h, e, st)
  BY DEF Good
<1>1. /\ ClientTypes(a, w, s, h, e, st) /\ Agrees("prompt", a, w, s, d, e, st)
      /\ Told(a, st, h, Len(a))
  BY DEF Good
<1>2. w \in Seq(Units) /\ s \in Seq(Units) /\ <<>> \in Seq(Units)
  BY <1>1, EmptySeq DEF ClientTypes
<1>3. e.fd # "closed" => s = <<>> /\ w = <<>>
  <2>1. e.fd # "closed" => s \o w = <<>>
    BY <1>1 DEF Agrees
  <2>. QED
    BY <1>2, <2>1, ConcatEqualIffEmpty
<1>4. <<Epoll!Fin>> \in Seq(Units) /\ Append(<<>>, Epoll!Fin) = <<Epoll!Fin>>
  BY FinUnit
<1>5. e.fd # "closed" => w2 = <<Epoll!Fin>> /\ s \o w2 = <<Epoll!Fin>>
  <2>1. <<>> \o <<Epoll!Fin>> = <<Epoll!Fin>>
    BY <1>4, ConcatEmptySeq
  <2>. QED
    BY <1>3, <1>4, <2>1
<1>6. w2 \in Seq(Units) /\ (e.fd = "closed" => w2 = <<>>)
  BY <1>2, <1>4, <1>5
<1>. HIDE DEF w2
<1>7. ClientTypes(a, w2, s, h, e, st)
  BY <1>1, <1>6 DEF ClientTypes
<1>8. Agrees("gone", a, w2, s, d, e, st)
  BY <1>1, <1>5, <1>6 DEF Agrees
<1>. QED
  BY <1>1, <1>3, <1>7, <1>8 DEF Good

\* Both when the server has no slot and when it closes a connection.
LEMMA ConnectionCloses ==
  ASSUME NEW u \in {"away", "prompt", "wait", "gone"}, NEW a, NEW w, NEW s, NEW g, NEW d,
         NEW h, NEW e, NEW st, Good(u, a, w, s, g, d, h, e, st)
  PROVE  Good(u, a, <<>>, <<>>, FALSE, d, h, Epoll!Closed, st)
<1>. SUFFICES ASSUME Clean(a) PROVE Good(u, a, <<>>, <<>>, FALSE, d, h, Epoll!Closed, st)
  BY DEF Good
<1>1. /\ ClientTypes(a, w, s, h, e, st) /\ Agrees(u, a, w, s, d, e, st)
      /\ Told(a, st, h, IF u = "wait" THEN Len(a) - 1 ELSE Len(a))
  BY DEF Good
<1>2. Epoll!Closed \in Entries /\ Epoll!Closed.fd = "closed" /\ <<>> \in Seq(Units)
  BY ClosedEntry, EmptySeq
<1>3. ClientTypes(a, <<>>, <<>>, h, Epoll!Closed, st)
  BY <1>1, <1>2 DEF ClientTypes
<1>4. Agrees(u, a, <<>>, <<>>, d, Epoll!Closed, st)
  BY <1>1, <1>2 DEF Agrees
<1>. QED
  BY <1>1, <1>3, <1>4 DEF Good

LEMMA ServerAccepts ==
  ASSUME NEW u \in {"away", "prompt", "wait", "gone"}, NEW a, NEW w, NEW s, NEW g, NEW d,
         NEW h, NEW e, NEW st, Good(u, a, w, s, g, d, h, e, st), e.fd = "backlog"
  PROVE  Good(u, a, w, s, g, d, h, [Epoll!Closed EXCEPT !.fd = "open"], st)
<1>. DEFINE x == [Epoll!Closed EXCEPT !.fd = "open"]
<1>. SUFFICES ASSUME Clean(a) PROVE Good(u, a, w, s, g, d, h, x, st)
  BY DEF Good
<1>1. /\ ClientTypes(a, w, s, h, e, st) /\ Agrees(u, a, w, s, d, e, st)
      /\ Told(a, st, h, IF u = "wait" THEN Len(a) - 1 ELSE Len(a))
      /\ Fits(a) /\ s # <<>> => g
  BY DEF Good
<1>2. /\ e = [Epoll!Closed EXCEPT !.fd = "backlog"] /\ e.fd # "closed"
      /\ x \in Entries /\ x.fd = "open"
      /\ x.state = e.state /\ x.buffer = e.buffer /\ x.received = e.received /\ x.file = e.file
  <2>1. e = [Epoll!Closed EXCEPT !.fd = "backlog"]
    BY <1>1 DEF Agrees
  <2>. QED
    BY <2>1, ClosedEntry DEF Epoll!Closed
<1>. HIDE DEF x
<1>3. ASSUME NEW r, NEW n, NEW f, Served(r, n, e, f, s, w, d) PROVE Served(r, n, x, f, s, w, d)
  <2>1. \A q : Taking(e, f, r, n, q) => Taking(x, f, r, n, q)
    BY <1>2 DEF Taking
  <2>2. \A p, q : Parsed(r, n, e, f, p, q) => Parsed(r, n, x, f, p, q)
    BY <1>2, <2>1 DEF Parsed
  <2>. QED
    BY <1>3, <2>2 DEF Served
<1>4. Agrees(u, a, w, s, d, x, st)
  BY <1>1, <1>2, <1>3 DEF Agrees
<1>5. ClientTypes(a, w, s, h, x, st)
  BY <1>1, <1>2 DEF ClientTypes
<1>. QED
  BY <1>1, <1>4, <1>5 DEF Good
\* How much of what is in the socket one recv takes.
Reach(s, b) ==
    LET n    == Len(s)
        here == IF n > 0 /\ s[n] = Epoll!Fin THEN n - 1 ELSE n
        left == EpollRoom - Len(b)
    IN IF here < left THEN here ELSE left

\* One recv takes part of what is in the socket; all of it when there is no end of
\* the stream in it and the buffer has room.
LEMMA ReachFacts ==
  ASSUME NEW s \in Seq(Units), NEW b \in Seq(Units), NEW m, m = Reach(s, b),
         SubSeq(s, 1, m) # <<>>
  PROVE  /\ m \in 1 .. Len(s) /\ s # <<>> /\ Len(SubSeq(s, 1, m)) = m
         /\ ~(Len(s) = 1 /\ s[1] = Epoll!Fin)
         /\ s[Len(s)] # Epoll!Fin /\ Len(b) + Len(s) <= EpollRoom => m = Len(s)
<1>1. Len(s) \in Nat /\ Len(b) \in Nat /\ EpollRoom \in Nat
  BY LenProperties, ConcurrentAssumption
<1>. DEFINE z == IF Len(s) > 0 /\ s[Len(s)] = Epoll!Fin THEN Len(s) - 1 ELSE Len(s)
<1>2. m = IF z < EpollRoom - Len(b) THEN z ELSE EpollRoom - Len(b)
  BY DEF Reach
<1>3. z \in Nat /\ z <= Len(s) /\ m \in Int /\ m <= z
  BY <1>1, <1>2
<1>4. m >= 1
  <2>1. 1 \in Int /\ m \in Int
    BY <1>3
  <2>2. ~(m < 1)
    BY <2>1, SubSeqEmpty
  <2>. QED
    BY <1>3, <2>2
<1>5. m \in 1 .. Len(s)
  BY <1>1, <1>3, <1>4
<1>6. s # <<>>
  BY <1>1, <1>5, EmptySeq
<1>7. Len(SubSeq(s, 1, m)) = m
  <2>1. \A i \in 1 .. m : s[i] \in Units
    BY <1>1, <1>5, ElementOfSeq
  <2>2. 1 \in Int /\ m \in Int
    BY <1>3
  <2>3. Len(SubSeq(s, 1, m)) = IF 1 <= m THEN m - 1 + 1 ELSE 0
    BY <2>1, <2>2, SubSeqProperties
  <2>. QED
    BY <1>3, <1>4, <2>3
<1>8. ~(Len(s) = 1 /\ s[1] = Epoll!Fin)
  BY <1>1, <1>3, <1>4
<1>9. s[Len(s)] # Epoll!Fin /\ Len(b) + Len(s) <= EpollRoom => m = Len(s)
  BY <1>1, <1>2
<1>. QED
  BY <1>5, <1>6, <1>7, <1>8, <1>9

\* The parser has taken q units of the request, b holds the next up to t, and the
\* others are in s2 and w.
Goes(r, n, e, f, b, s2, w, q, t) ==
    /\ q \in 0 .. t /\ q < t /\ Taking(e, f, r, n, q)
    /\ b = SubSeq(Epoll!Stream(r, n), q + 1, t)
    /\ s2 \in Seq(Units)
    /\ s2 \o w = SubSeq(Epoll!Stream(r, n), t + 1, Size(r))

\* What is received is the next part of the request.
LEMMA NextPart ==
  ASSUME NEW str \in Seq(Units), NEW p \in 0 .. Len(str), NEW q \in 0 .. p,
         NEW s \in Seq(Units), NEW w \in Seq(Units), s \o w = SubSeq(str, p + 1, Len(str)),
         NEW b, b = SubSeq(str, q + 1, p), NEW m \in 1 .. Len(s)
  PROVE  /\ p + m \in 1 .. Len(str) /\ p < p + m
         /\ b \o SubSeq(s, 1, m) = SubSeq(str, q + 1, p + m)
         /\ SubSeq(s, m + 1, Len(s)) \in Seq(Units)
         /\ SubSeq(s, m + 1, Len(s)) \o w = SubSeq(str, p + m + 1, Len(str))
         /\ Len(b) + Len(s) <= Len(str) /\ \E i \in 1 .. Len(str) : s[Len(s)] = str[i]
<1>1. Len(s) \in Nat /\ Len(str) \in Nat /\ m \in 0 .. Len(s) /\ Len(s) \in 0 .. Len(s)
  BY LenProperties
<1>2. \A k \in 0 .. Len(s) :
         /\ p + k \in 0 .. Len(str)
         /\ SubSeq(s, 1, k) = SubSeq(str, p + 1, p + k)
         /\ SubSeq(s, k + 1, Len(s)) \in Seq(Units)
         /\ SubSeq(s, k + 1, Len(s)) \o w = SubSeq(str, p + k + 1, Len(str))
  <2>. TAKE k \in 0 .. Len(s)
  <2>. QED
    BY CutSegment
<1>3. PICK t \in 0 .. Len(str) : t = p + m
  BY <1>1, <1>2
<1>4. p + m \in 1 .. Len(str) /\ p < p + m
  BY <1>1, <1>3
<1>5. b \o SubSeq(s, 1, m) = SubSeq(str, q + 1, p + m)
  <2>1. q + 1 \in 1 .. Len(str) + 1 /\ p \in (q + 1) - 1 .. Len(str) /\ t \in p .. Len(str)
    BY <1>1, <1>3
  <2>2. \A i \in 1 .. Len(str) + 1 : \A j \in i - 1 .. Len(str) : \A l \in j .. Len(str) :
           SubSeq(str, i, j) \o SubSeq(str, j + 1, l) = SubSeq(str, i, l)
    BY ConcatAdjacentSubSeq
  <2>3. SubSeq(str, q + 1, p) \o SubSeq(str, p + 1, t) = SubSeq(str, q + 1, t)
    BY <2>1, <2>2
  <2>4. SubSeq(s, 1, m) = SubSeq(str, p + 1, t)
    BY <1>1, <1>2, <1>3
  <2>. QED
    BY <1>3, <2>3, <2>4
<1>6. Len(b) = p - q
  BY Segment
<1>7. PICK k \in 0 .. Len(str) : k = p + Len(s)
  BY <1>1, <1>2
<1>8. s = SubSeq(str, p + 1, k)
  <2>1. SubSeq(s, 1, Len(s)) = SubSeq(str, p + 1, k)
    BY <1>1, <1>2, <1>7
  <2>. QED
    BY <2>1, SubSeqFull
<1>9. \A i \in 1 .. k - p : s[i] = str[p + i]
  <2>1. p \in 0 .. k
    BY <1>1, <1>7
  <2>. QED
    BY <1>8, <2>1, Segment
<1>10. \E i \in 1 .. Len(str) : s[Len(s)] = str[i]
  <2>1. Len(s) \in 1 .. k - p /\ p + Len(s) \in 1 .. Len(str)
    BY <1>1, <1>7
  <2>. QED
    BY <1>9, <2>1
<1>11. Len(b) + Len(s) <= Len(str)
  BY <1>1, <1>6, <1>7
<1>12. /\ SubSeq(s, m + 1, Len(s)) \in Seq(Units)
       /\ SubSeq(s, m + 1, Len(s)) \o w = SubSeq(str, p + m + 1, Len(str))
  BY <1>1, <1>2
<1>. QED
  BY <1>4, <1>5, <1>10, <1>11, <1>12

\* The parser can go on with the m units of s that one recv returns.
GoesOn(r, n, e, f, s, w, m) ==
    \E q, t \in 0 .. Size(r) :
       Goes(r, n, e, f, e.buffer \o SubSeq(s, 1, m), SubSeq(s, m + 1, Len(s)), w, q, t)

LEMMA RequestCut ==
  ASSUME NEW r \in Epoll!Requests, NEW n \in Nat, NEW e, NEW f,
         NEW s \in Seq(Units), NEW w \in Seq(Units), NEW d, Served(r, n, e, f, s, w, d),
         NEW m \in 1 .. Len(s)
  PROVE  /\ d = <<>> /\ Len(e.buffer) + Len(s) <= Size(r) /\ s[Len(s)] # Epoll!Fin
         /\ GoesOn(r, n, e, f, s, w, m)
<1>. DEFINE str == Epoll!Stream(r, n)
<1>1. str = Epoll!Stream(r, n)
  OBVIOUS
<1>. HIDE DEF str
<1>2. Size(r) \in Nat /\ str \in Seq(Units) /\ Len(str) = Size(r)
      /\ \A i \in 1 .. Size(r) : str[i].k # "fin"
  BY <1>1, StreamFacts
<1>3. PICK p, q \in 0 .. Len(str) :
         /\ Parsed(r, n, e, f, p, q) /\ s \o w = SubSeq(str, p + 1, Len(str))
         /\ d = IF p = Len(str) /\ ~Empty(r) THEN Answer(r, n) ELSE <<>>
  BY <1>1 DEF Served
<1>4. q \in 0 .. p /\ Taking(e, f, r, n, q) /\ e.buffer = SubSeq(str, q + 1, p)
  BY <1>1, <1>3 DEF Parsed
<1>5. /\ p + m \in 1 .. Len(str) /\ p < p + m
      /\ e.buffer \o SubSeq(s, 1, m) = SubSeq(str, q + 1, p + m)
      /\ SubSeq(s, m + 1, Len(s)) \in Seq(Units)
      /\ SubSeq(s, m + 1, Len(s)) \o w = SubSeq(str, p + m + 1, Len(str))
      /\ Len(e.buffer) + Len(s) <= Len(str) /\ \E i \in 1 .. Len(str) : s[Len(s)] = str[i]
  BY <1>2, <1>3, <1>4, NextPart
<1>6. s[Len(s)] # Epoll!Fin
  BY <1>2, <1>5, FinUnit
<1>7. d = <<>>
  BY <1>2, <1>3, <1>5
<1>8. PICK t \in 0 .. Size(r) : t = p + m
  BY <1>2, <1>5
<1>9. q \in 0 .. t /\ q < t
  BY <1>2, <1>4, <1>5, <1>8
<1>10. Goes(r, n, e, f, e.buffer \o SubSeq(s, 1, m), SubSeq(s, m + 1, Len(s)), w, q, t)
  <2>1. e.buffer \o SubSeq(s, 1, m) = SubSeq(str, q + 1, t)
    BY <1>5, <1>8
  <2>2. SubSeq(s, m + 1, Len(s)) \o w = SubSeq(str, t + 1, Size(r))
    BY <1>2, <1>5, <1>8
  <2>. QED
    BY <1>1, <1>4, <1>5, <1>9, <2>1, <2>2 DEF Goes
<1>11. q \in 0 .. Size(r)
  BY <1>2
<1>. QED
  BY <1>2, <1>5, <1>6, <1>7, <1>10, <1>11 DEF GoesOn

\* What the parser's loop ends with, when s2 and w hold the rest of the request.
TakenOn(x, a, n, st, s2, w) ==
    /\ x \in LoopStates /\ x.e.fd = "open" /\ Len(x.files) = Len(st)
    /\ \A i \in 1 .. Len(st) : i # n => x.files[i] = st[i]
    /\ x.out # <<>> => /\ x.out = Answer(a[n], n)
                       /\ a[n].kind = "file" => x.files[n] = Epoll!Data(a[n], n)
    /\ Served(a[n], n, x.e, x.files[n], s2, w, x.out)

\* The parser takes it, and answers when the request is complete.
LEMMA RequestTaken ==
  ASSUME NEW a \in Seq(Epoll!Requests), NEW n \in 1 .. Len(a), a[n].opens,
         NEW st \in Seq(Seq(Units)), n \in 1 .. Len(st),
         NEW e \in Entries, e.fd = "open", NEW b, NEW s2, NEW w, NEW q, NEW t \in 0 .. Size(a[n]),
         Goes(a[n], n, e, st[n], b, s2, w, q, t),
         NEW e2, e2 = [e EXCEPT !.buffer = b],
         NEW x, x = Epoll!process_client(e2, a, st)
  PROVE  TakenOn(x, a, n, st, s2, w)
<1>. DEFINE r == a[n]
            str == Epoll!Stream(r, n)
            l == Epoll!Loop(e2, st)
<1>1. str = Epoll!Stream(r, n) /\ r = a[n]
  OBVIOUS
<1>2. n \in Nat /\ a[n] \in Epoll!Requests
  BY ElementOfSeq, LenProperties
<1>. HIDE DEF r, str
<1>3. n \in Nat /\ r \in Epoll!Requests /\ r.size \in Nat /\ r.kind \in {"calc", "file"}
  BY <1>1, <1>2, DataFacts
<1>4. Size(r) \in Nat /\ str \in Seq(Units) /\ Len(str) = Size(r)
  BY <1>1, <1>3, StreamFacts
<1>5. Size(r) >= 2
  BY <1>3 DEF Size
<1>6. /\ q \in 0 .. t /\ q < t /\ Taking(e, st[n], r, n, q)
      /\ b = SubSeq(str, q + 1, t) /\ s2 \o w = SubSeq(str, t + 1, Size(r))
  BY <1>1 DEF Goes
<1>7. t \in 1 .. Size(r)
  BY <1>1, <1>4, <1>6
<1>8. /\ e2 \in Entries /\ e2.fd = "open" /\ e2.buffer = b
      /\ e2.state = e.state /\ e2.received = e.received /\ e2.file = e.file
  <2>1. t \in 0 .. Len(str)
    BY <1>4, <1>7
  <2>2. b \in Seq(Units)
    BY <1>4, <1>6, <2>1, Segment
  <2>. QED
    BY <2>2 DEF Entries
<1>9. Stands(l, a, n, st, q, t)
  <2>1. l = [e |-> e2, out |-> <<>>, files |-> st]
    BY DEF Epoll!Loop
  <2>. HIDE DEF l
  <2>2. l \in LoopStates /\ l.e = e2 /\ l.out = <<>> /\ l.files = st
    BY <1>8, <2>1 DEF LoopStates, Answers
  <2>3. Taking(l.e, l.files[n], r, n, q)
    BY <1>6, <1>8, <2>2 DEF Taking
  <2>4. q # Size(r)
    BY <1>4, <1>6, <1>7
  <2>. QED
    BY <1>1, <1>6, <1>8, <2>2, <2>3, <2>4 DEF Stands
<1>10. PICK y \in 0 .. t : Stands(x, a, n, st, y, t) /\ (y = t \/ (y = 0 /\ t = 1))
  <2>1. Stands(Epoll!Loop(e2, st), a, n, st, q, t) /\ t \in 1 .. Size(a[n])
    BY <1>1, <1>7, <1>9 DEF l
  <2>2. q \in 0 .. t /\ q < t
    BY <1>6
  <2>3. Settled(Epoll!process_client(e2, a, st), a, n, st, t)
    BY <2>1, <2>2, Processes
  <2>. QED
    BY <2>3 DEF Settled
<1>. HIDE DEF l
<1>11. /\ x \in LoopStates /\ x.e.fd = "open" /\ x.e.buffer = SubSeq(str, y + 1, t)
       /\ Taking(x.e, x.files[n], r, n, y)
       /\ Len(x.files) = Len(st) /\ \A i \in 1 .. Len(st) : i # n => x.files[i] = st[i]
       /\ x.out = IF y = Size(r) /\ ~Empty(r) THEN Answer(r, n) ELSE <<>>
  BY <1>1, <1>10 DEF Stands
<1>12. ASSUME x.out # <<>>, r.kind = "file" PROVE x.files[n] = Epoll!Data(r, n)
  <2>1. y = Size(r) /\ ~Empty(r)
    BY <1>11, <1>12
  <2>2. y = 4 + r.size /\ r.size > 0
    BY <1>3, <1>12, <2>1 DEF Size, Empty
  <2>3. ~(y <= 4) /\ y - 4 = r.size
    BY <1>3, <2>2
  <2>4. x.files[n] = SubSeq(Epoll!Data(r, n), 1, r.size)
    BY <1>11, <2>3 DEF Taking
  <2>5. Epoll!Data(r, n) \in Seq(Units) /\ Len(Epoll!Data(r, n)) = r.size
    BY <1>3, DataFacts
  <2>6. SubSeq(Epoll!Data(r, n), 1, Len(Epoll!Data(r, n))) = Epoll!Data(r, n)
    BY <2>5, SubSeqFull
  <2>. QED
    BY <2>4, <2>5, <2>6
<1>13. Served(r, n, x.e, x.files[n], s2, w, x.out)
  <2>1. t \in 0 .. Len(str) /\ y \in 0 .. Len(str) /\ (y = Size(r) <=> t = Len(str))
    BY <1>4, <1>5, <1>7, <1>10
  <2>2. Parsed(r, n, x.e, x.files[n], t, y)
    BY <1>1, <1>10, <1>11, <2>1 DEF Parsed
  <2>3. s2 \o w = SubSeq(str, t + 1, Len(str))
    BY <1>4, <1>6
  <2>4. x.out = IF t = Len(str) /\ ~Empty(r) THEN Answer(r, n) ELSE <<>>
    BY <1>11, <2>1
  <2>. QED
    BY <1>1, <2>1, <2>2, <2>3, <2>4 DEF Served
<1>14. x.out # <<>> => x.out = Answer(r, n)
  BY <1>11
<1>. QED
  BY <1>1, <1>11, <1>12, <1>13, <1>14 DEF TakenOn

LEMMA OneUnit == \A x : Len(<<x>>) = 1 /\ <<x>>[1] = x
OBVIOUS

LEMMA OneIsAll ==
  ASSUME NEW i \in Nat, NEW j \in Nat, i >= 1, i + j = 1
  PROVE  i = 1 /\ 1 \in 1 .. i + j
OBVIOUS

\* There is something to read from a client only while it waits for an answer.
LEMMA OnlyWaiting ==
  ASSUME NEW u \in {"away", "prompt", "wait", "gone"}, NEW a, NEW w \in Seq(Units),
         NEW s \in Seq(Units), NEW d, NEW e, NEW st, Agrees(u, a, w, s, d, e, st),
         e.fd = "open", s # <<>>, ~(Len(s) = 1 /\ s[1] = Epoll!Fin)
  PROVE  u = "wait"
<1>1. u # "away"
  BY DEF Agrees
<1>2. u = "prompt" => s \o w = <<>>
  BY DEF Agrees
<1>3. u = "gone" => s \o w = <<Epoll!Fin>>
  BY DEF Agrees
<1>4. Len(s \o w) = Len(s) + Len(w)
      /\ \A i \in 1 .. Len(s) + Len(w) : (s \o w)[i] = IF i <= Len(s) THEN s[i] ELSE w[i - Len(s)]
  BY ConcatProperties
<1>5. Len(w) \in Nat /\ Len(s) \in Nat
  BY LenProperties
<1>6. Len(s) >= 1
  BY <1>5, EmptySeq
<1>7. u # "prompt"
  BY <1>2, <1>4, <1>5, <1>6
<1>8. u # "gone"
  <2>. SUFFICES ASSUME u = "gone" PROVE FALSE
    OBVIOUS
  <2>1. Len(s) + Len(w) = 1 /\ (s \o w)[1] = Epoll!Fin
    BY <1>3, <1>4, OneUnit
  <2>2. Len(s) = 1 /\ 1 \in 1 .. Len(s) + Len(w)
    BY <1>5, <1>6, <2>1, OneIsAll
  <2>3. (s \o w)[1] = s[1]
    BY <1>4, <2>2
  <2>. QED
    BY <2>1, <2>2, <2>3
<1>. QED
  BY <1>1, <1>7, <1>8

\* One recv from a client, and what process_client makes of it.
LEMMA ServerReceives ==
  ASSUME NEW u \in {"away", "prompt", "wait", "gone"}, NEW a \in Seq(Epoll!Requests),
         NEW w, NEW s, NEW g, NEW d, NEW h, NEW e, NEW st,
         Good(u, a, w, s, g, d, h, e, st), e.fd = "open",
         NEW m, m = Reach(s, e.buffer), SubSeq(s, 1, m) # <<>>,
         NEW e2, e2 = [e EXCEPT !.buffer = @ \o SubSeq(s, 1, m)],
         NEW x, x = Epoll!process_client(e2, a, st)
  PROVE  Good(u, a, w, SubSeq(s, Len(SubSeq(s, 1, m)) + 1, Len(s)), FALSE,
              IF u = "gone" THEN <<>> ELSE d \o x.out, h, x.e, x.files)
<1>. DEFINE s2 == SubSeq(s, Len(SubSeq(s, 1, m)) + 1, Len(s))
            d2 == IF u = "gone" THEN <<>> ELSE d \o x.out
            n  == Len(a)
            b  == e.buffer \o SubSeq(s, 1, m)
<1>. SUFFICES ASSUME Clean(a) PROVE Good(u, a, w, s2, FALSE, d2, h, x.e, x.files)
  BY DEF Good
<1>1. /\ ClientTypes(a, w, s, h, e, st) /\ Agrees(u, a, w, s, d, e, st)
      /\ Told(a, st, h, IF u = "wait" THEN n - 1 ELSE n)
  BY DEF Good
<1>2. /\ w \in Seq(Units) /\ s \in Seq(Units) /\ e \in Entries /\ e.buffer \in Seq(Units)
      /\ st \in Seq(Seq(Units)) /\ Len(st) = n /\ n \in Nat
      /\ h \in Seq(Nat \X Answers)
  BY <1>1, LenProperties DEF ClientTypes, Entries
<1>3. /\ m \in 1 .. Len(s) /\ s # <<>> /\ Len(SubSeq(s, 1, m)) = m
      /\ ~(Len(s) = 1 /\ s[1] = Epoll!Fin)
      /\ s[Len(s)] # Epoll!Fin /\ Len(e.buffer) + Len(s) <= EpollRoom => m = Len(s)
  BY <1>2, ReachFacts
<1>4. s2 = SubSeq(s, m + 1, Len(s)) /\ Len(s) \in Nat
  BY <1>2, <1>3, LenProperties
<1>. HIDE DEF s2
<1>5. u = "wait"
  BY <1>1, <1>2, <1>3, <1>4, OnlyWaiting
<1>6. n > 0 /\ Served(a[n], n, e, st[n], s, w, d)
  BY <1>1, <1>5 DEF Agrees
<1>7. n \in 1 .. n /\ a[n] \in Epoll!Requests /\ a[n].opens
  <2>1. n \in 1 .. n /\ a[n] \in Epoll!Requests
    BY <1>2, <1>6, ElementOfSeq
  <2>2. DOMAIN a = 1 .. n
    BY LenProperties
  <2>. QED
    BY <2>1, <2>2 DEF Clean
<1>8. /\ d = <<>> /\ Len(e.buffer) + Len(s) <= Size(a[n]) /\ s[Len(s)] # Epoll!Fin
      /\ \E q, t \in 0 .. Size(a[n]) : Goes(a[n], n, e, st[n], b, s2, w, q, t)
  <2>1. PICK r \in Epoll!Requests : r = a[n]
    BY <1>7
  <2>2. PICK f : f = st[n]
    OBVIOUS
  <2>3. PICK k \in Nat : k = n
    BY <1>2
  <2>4. Served(r, k, e, f, s, w, d)
    BY <1>6, <2>1, <2>2, <2>3
  <2>5. w \in Seq(Units) /\ s \in Seq(Units) /\ m \in 1 .. Len(s)
    BY <1>2, <1>3
  <2>6. d = <<>> /\ Len(e.buffer) + Len(s) <= Size(r) /\ s[Len(s)] # Epoll!Fin
        /\ GoesOn(r, k, e, f, s, w, m)
    BY <2>4, <2>5, RequestCut
  <2>. QED
    BY <1>4, <2>1, <2>2, <2>3, <2>6 DEF GoesOn
<1>9. e2 = [e EXCEPT !.buffer = b]
  BY <1>2
<1>. HIDE DEF b
<1>10. PICK q, t \in 0 .. Size(a[n]) : Goes(a[n], n, e, st[n], b, s2, w, q, t)
  BY <1>8
<1>11. /\ x \in LoopStates /\ x.e.fd = "open" /\ Len(x.files) = Len(st)
       /\ \A i \in 1 .. Len(st) : i # n => x.files[i] = st[i]
       /\ x.out # <<>> => /\ x.out = Answer(a[n], n)
                          /\ a[n].kind = "file" => x.files[n] = Epoll!Data(a[n], n)
       /\ Served(a[n], n, x.e, x.files[n], s2, w, x.out)
  <2>1. PICK k \in 1 .. Len(a) : k = n
    BY <1>7
  <2>2. k \in 1 .. Len(st) /\ a[k].opens /\ Goes(a[k], k, e, st[k], b, s2, w, q, t)
        /\ t \in 0 .. Size(a[k])
    BY <1>2, <1>7, <1>10, <2>1
  <2>3. st \in Seq(Seq(Units)) /\ e \in Entries
    BY <1>2
  <2>4. TakenOn(x, a, k, st, s2, w)
    BY <1>9, <2>2, <2>3, RequestTaken
  <2>. QED
    BY <2>1, <2>4 DEF TakenOn
<1>12. x.e \in Entries /\ x.out \in Answers /\ x.files \in Seq(Seq(Units))
  BY <1>11 DEF LoopStates
<1>13. d2 = x.out
  <2>1. <<>> \o x.out = x.out
    BY <1>12 DEF Answers
  <2>. QED
    BY <1>5, <1>8, <2>1
<1>14. s2 \in Seq(Units)
  BY <1>10 DEF Goes
<1>. HIDE DEF d2
<1>15. ClientTypes(a, w, s2, h, x.e, x.files)
  BY <1>2, <1>11, <1>12, <1>14 DEF ClientTypes
<1>16. Agrees(u, a, w, s2, d2, x.e, x.files)
  BY <1>5, <1>6, <1>11, <1>13 DEF Agrees
<1>17. Told(a, x.files, h, n - 1)
  <2>1. Keeps(a, st, a, x.files, n - 1)
    <3>. SUFFICES ASSUME NEW i \in 1 .. n - 1 PROVE x.files[i] = st[i]
      BY Zenon DEF Keeps
    <3>1. i \in 1 .. n /\ i # n
      BY <1>2
    <3>. QED
      BY <1>2, <1>11, <3>1
  <2>2. Told(a, st, h, n - 1) /\ n - 1 \in Nat
    BY <1>1, <1>2, <1>5, <1>6
  <2>3. n - 1 <= n - 1
    BY <2>2
  <2>. QED
    BY <2>1, <2>2, <2>3, ToldStill
<1>18. Fits(a) => s2 = <<>>
  <2>. SUFFICES ASSUME Fits(a) PROVE s2 = <<>>
    OBVIOUS
  <2>1. Len(Epoll!Stream(a[n], n)) <= EpollRoom
    BY <1>7, LenProperties DEF Fits
  <2>2. Len(Epoll!Stream(a[n], n)) = Size(a[n]) /\ Size(a[n]) \in Nat
    BY <1>2, <1>7, StreamFacts
  <2>3. Len(e.buffer) \in Nat /\ EpollRoom \in Nat
    BY <1>2, LenProperties, ConcurrentAssumption
  <2>4. m = Len(s)
    BY <1>3, <1>4, <1>8, <2>1, <2>2, <2>3
  <2>5. Len(s) + 1 \in Int /\ Len(s) \in Int /\ Len(s) < Len(s) + 1
    BY <1>4
  <2>. QED
    BY <1>4, <2>4, <2>5, SubSeqEmpty
<1>. HIDE DEF n
<1>. QED
  BY <1>5, <1>15, <1>16, <1>17, <1>18 DEF Good, n

\* Nothing of a client, or of its connection, has changed.
Still(d) ==
    /\ epUser'[d] = epUser[d] /\ asked'[d] = asked[d] /\ wire'[d] = wire[d] /\ sock'[d] = sock[d]
    /\ (d \in edge) => (d \in edge')
    /\ epDown'[d] = epDown[d] /\ heard'[d] = heard[d] /\ info'[d] = info[d] /\ stored'[d] = stored[d]

LEMMA Reported ==
  ASSUME NEW u, NEW a, NEW w, NEW s, NEW g, NEW d, NEW h, NEW e, NEW st, NEW g2,
         Good(u, a, w, s, g, d, h, e, st), g => g2
  PROVE  Good(u, a, w, s, g2, d, h, e, st)
BY DEF Good

LEMMA StillGood ==
  ASSUME NEW d, ClientGood(d), Still(d)
  PROVE  ClientGood(d)'
<1>1. Good(epUser[d], asked[d], wire[d], sock[d], d \in edge', epDown[d], heard[d],
           info[d], stored[d])
  <2>1. Good(epUser[d], asked[d], wire[d], sock[d], d \in edge, epDown[d], heard[d],
             info[d], stored[d])
    BY DEF ClientGood
  <2>2. (d \in edge) => (d \in edge')
    BY DEF Still
  <2>. QED
    BY <2>1, <2>2, Zenon DEF Good
<1>. QED
  BY <1>1 DEF ClientGood, Still

LEMMA EpollInit == Epoll!Init => EpollInv
<1>. SUFFICES ASSUME Epoll!Init PROVE EpollInv
  OBVIOUS
<1>1. EpollTypes
  BY DEF Epoll!Init, EpollTypes
<1>2. ASSUME NEW c \in EpollClients PROVE ClientGood(c)
  <2>1. /\ epUser[c] = "away" /\ asked[c] = <<>> /\ wire[c] = <<>> /\ sock[c] = <<>>
        /\ epDown[c] = <<>> /\ heard[c] = <<>> /\ info[c] = Epoll!Closed /\ stored[c] = <<>>
    BY <1>2 DEF Epoll!Init
  <2>2. ClientTypes(<<>>, <<>>, <<>>, <<>>, Epoll!Closed, <<>>)
    BY ClosedEntry DEF ClientTypes
  <2>3. Agrees("away", <<>>, <<>>, <<>>, <<>>, Epoll!Closed, <<>>)
    BY ClosedEntry DEF Agrees
  <2>4. Told(<<>>, <<>>, <<>>, 0)
    BY DEF Told
  <2>5. Len(<<>>) = 0
    OBVIOUS
  <2>6. Good("away", <<>>, <<>>, <<>>, c \in edge, <<>>, <<>>, Epoll!Closed, <<>>)
    BY <2>2, <2>3, <2>4, <2>5 DEF Good
  <2>. QED
    BY <2>1, <2>6 DEF ClientGood
<1>. QED
  BY <1>1, <1>2 DEF EpollInv

\* It is enough to look at the client a step is about.
LEMMA OthersStill ==
  ASSUME EpollInv, EpollTypes', NEW c \in EpollClients,
         \A d \in EpollClients \ {c} : Still(d), ClientGood(c)'
  PROVE  EpollInv'
<1>1. ASSUME NEW d \in EpollClients PROVE ClientGood(d)'
  <2>1. CASE d = c
    BY <2>1
  <2>2. CASE d # c
    <3>1. ClientGood(d) /\ Still(d)
      BY <2>2 DEF EpollInv
    <3>. QED
      BY <3>1, StillGood
  <2>. QED
    BY <2>1, <2>2
<1>. QED
  BY <1>1 DEF EpollInv

LEMMA ConnectStep ==
  ASSUME EpollInv, NEW c \in EpollClients, Epoll!Connect(c)
  PROVE  EpollInv'
<1>1. EpollTypes /\ ClientGood(c)
  BY DEF EpollInv
<1>2. /\ epUser[c] = "away" /\ info[c].fd = "closed"
      /\ epUser' = [epUser EXCEPT ![c] = "prompt"] /\ info' = [info EXCEPT ![c].fd = "backlog"]
      /\ UNCHANGED <<asked, wire, sock, edge, epDown, heard, stored>>
  BY DEF Epoll!Connect
<1>3. EpollTypes'
  BY <1>1, <1>2 DEF EpollTypes
<1>4. epUser'[c] = "prompt" /\ info'[c] = [info[c] EXCEPT !.fd = "backlog"]
  BY <1>1, <1>2 DEF EpollTypes
<1>5. \A d \in EpollClients \ {c} : Still(d)
  BY <1>1, <1>2 DEF EpollTypes, Still
<1>6. Good("prompt", asked[c], wire[c], sock[c], c \in edge, epDown[c], heard[c],
           [info[c] EXCEPT !.fd = "backlog"], stored[c])
  <2>1. Good("away", asked[c], wire[c], sock[c], c \in edge, epDown[c], heard[c], info[c], stored[c])
    BY <1>1, <1>2 DEF ClientGood
  <2>. QED
    BY <1>2, <2>1, ClientConnects
<1>7. ClientGood(c)'
  BY <1>2, <1>4, <1>6 DEF ClientGood
<1>. QED
  BY <1>3, <1>5, <1>7, OthersStill

LEMMA AskStep ==
  ASSUME EpollInv, NEW c \in EpollClients, Epoll!Ask(c)
  PROVE  EpollInv'
<1>1. EpollTypes /\ ClientGood(c)
  BY DEF EpollInv
<1>2. PICK r \in Epoll!Requests :
        /\ epUser[c] = "prompt"
        /\ asked' = [asked EXCEPT ![c] = Append(@, r)]
        /\ wire' = [wire EXCEPT ![c] = IF info[c].fd = "closed" THEN <<>>
                                       ELSE @ \o Epoll!Stream(r, Len(asked[c]) + 1)]
        /\ epUser' = [epUser EXCEPT ![c] = "wait"]
        /\ stored' = [stored EXCEPT ![c] = Append(@, <<>>)]
        /\ UNCHANGED <<sock, edge, epDown, heard, info>>
  BY DEF Epoll!Ask
<1>3. asked[c] \in Seq(Epoll!Requests)
  BY <1>1 DEF EpollTypes
<1>4. EpollTypes'
  BY <1>1, <1>2, <1>3, AppendProperties DEF EpollTypes
<1>5. /\ epUser'[c] = "wait" /\ asked'[c] = Append(asked[c], r)
      /\ wire'[c] = IF info[c].fd = "closed" THEN <<>>
                    ELSE wire[c] \o Epoll!Stream(r, Len(asked[c]) + 1)
      /\ stored'[c] = Append(stored[c], <<>>)
  BY <1>1, <1>2 DEF EpollTypes
<1>6. \A d \in EpollClients \ {c} : Still(d)
  BY <1>1, <1>2 DEF EpollTypes, Still
<1>7. Good("prompt", asked[c], wire[c], sock[c], c \in edge, epDown[c], heard[c], info[c], stored[c])
  BY <1>1, <1>2 DEF ClientGood
<1>8. Good("wait", Append(asked[c], r),
           IF info[c].fd = "closed" THEN <<>> ELSE wire[c] \o Epoll!Stream(r, Len(asked[c]) + 1),
           sock[c], c \in edge, epDown[c], heard[c], info[c], Append(stored[c], <<>>))
  BY <1>3, <1>7, ClientAsks
<1>9. ClientGood(c)'
  BY <1>2, <1>5, <1>8 DEF ClientGood
<1>. QED
  BY <1>4, <1>6, <1>9, OthersStill

LEMMA DeliverStep ==
  ASSUME EpollInv, NEW c \in EpollClients, Epoll!Deliver(c)
  PROVE  EpollInv'
<1>1. EpollTypes /\ ClientGood(c)
  BY DEF EpollInv
<1>2. PICK k \in 1 .. Len(wire[c]) :
        /\ sock' = [sock EXCEPT ![c] = @ \o SubSeq(wire[c], 1, k)]
        /\ wire' = [wire EXCEPT ![c] = SubSeq(@, k + 1, Len(@))]
        /\ edge' = edge \union {c}
        /\ UNCHANGED <<epUser, asked, epDown, heard, info, stored>>
  BY DEF Epoll!Deliver
<1>3. EpollTypes'
  BY <1>1, <1>2 DEF EpollTypes
<1>4. /\ sock'[c] = sock[c] \o SubSeq(wire[c], 1, k) /\ c \in edge'
      /\ wire'[c] = SubSeq(wire[c], k + 1, Len(wire[c]))
  BY <1>1, <1>2 DEF EpollTypes
<1>5. \A d \in EpollClients \ {c} : Still(d)
  BY <1>1, <1>2 DEF EpollTypes, Still
<1>6. Good(epUser[c], asked[c], wire[c], sock[c], c \in edge, epDown[c], heard[c], info[c], stored[c])
  BY <1>1 DEF ClientGood
<1>7. Good(epUser[c], asked[c], SubSeq(wire[c], k + 1, Len(wire[c])),
           sock[c] \o SubSeq(wire[c], 1, k), TRUE, epDown[c], heard[c], info[c], stored[c])
  BY <1>6, SegmentsArrive
<1>8. Good(epUser[c], asked[c], SubSeq(wire[c], k + 1, Len(wire[c])),
           sock[c] \o SubSeq(wire[c], 1, k), c \in edge', epDown[c], heard[c], info[c], stored[c])
  BY <1>4, <1>7, Reported
<1>9. ClientGood(c)'
  BY <1>2, <1>4, <1>8 DEF ClientGood
<1>. QED
  BY <1>3, <1>5, <1>9, OthersStill

LEMMA HearStep ==
  ASSUME EpollInv, NEW c \in EpollClients, Epoll!Hear(c)
  PROVE  EpollInv'
<1>1. EpollTypes /\ ClientGood(c) /\ asked[c] \in Seq(Epoll!Requests)
  BY DEF EpollInv, EpollTypes
<1>2. PICK k : k = IF asked[c][Len(asked[c])].kind = "file" THEN 1 ELSE Len(epDown[c])
  OBVIOUS
<1>3. /\ epUser[c] = "wait" /\ epDown[c] # <<>>
      /\ heard' = [heard EXCEPT ![c] = Append(@, <<Len(asked[c]), SubSeq(epDown[c], 1, k)>>)]
      /\ epDown' = [epDown EXCEPT ![c] = SubSeq(@, k + 1, Len(@))]
      /\ epUser' = [epUser EXCEPT ![c] = "prompt"]
      /\ UNCHANGED <<asked, wire, sock, edge, info, stored>>
  BY <1>2 DEF Epoll!Hear
<1>4. EpollTypes'
  BY <1>1, <1>3 DEF EpollTypes
<1>5. /\ heard'[c] = Append(heard[c], <<Len(asked[c]), SubSeq(epDown[c], 1, k)>>)
      /\ epDown'[c] = SubSeq(epDown[c], k + 1, Len(epDown[c])) /\ epUser'[c] = "prompt"
  BY <1>1, <1>3 DEF EpollTypes
<1>6. \A d \in EpollClients \ {c} : Still(d)
  BY <1>1, <1>3 DEF EpollTypes, Still
<1>7. Good("wait", asked[c], wire[c], sock[c], c \in edge, epDown[c], heard[c], info[c], stored[c])
  BY <1>1, <1>3 DEF ClientGood
<1>8. Good("prompt", asked[c], wire[c], sock[c], c \in edge,
           SubSeq(epDown[c], k + 1, Len(epDown[c])),
           Append(heard[c], <<Len(asked[c]), SubSeq(epDown[c], 1, k)>>), info[c], stored[c])
  BY <1>1, <1>2, <1>3, <1>7, ClientHears
<1>9. ClientGood(c)'
  BY <1>3, <1>5, <1>8 DEF ClientGood
<1>. QED
  BY <1>4, <1>6, <1>9, OthersStill

LEMMA HearCloseStep ==
  ASSUME EpollInv, NEW c \in EpollClients, Epoll!HearClose(c)
  PROVE  EpollInv'
<1>1. EpollTypes /\ ClientGood(c) /\ asked[c] \in Seq(Epoll!Requests)
  BY DEF EpollInv, EpollTypes
<1>2. PICK u \in {"prompt", "gone"} :
        /\ epUser[c] = "wait" /\ info[c].fd = "closed" /\ epDown[c] = <<>>
        /\ epUser' = [epUser EXCEPT ![c] = u]
        /\ UNCHANGED <<asked, wire, sock, edge, epDown, heard, info, stored>>
  BY DEF Epoll!HearClose
<1>3. EpollTypes' /\ epUser'[c] = u
  BY <1>1, <1>2 DEF EpollTypes
<1>4. \A d \in EpollClients \ {c} : Still(d)
  BY <1>1, <1>2 DEF EpollTypes, Still
<1>5. Good("wait", asked[c], wire[c], sock[c], c \in edge, epDown[c], heard[c], info[c], stored[c])
  BY <1>1, <1>2 DEF ClientGood
<1>6. Good(u, asked[c], wire[c], sock[c], c \in edge, epDown[c], heard[c], info[c], stored[c])
  BY <1>1, <1>2, <1>5, ClientHearsClose
<1>7. ClientGood(c)'
  BY <1>2, <1>3, <1>6 DEF ClientGood
<1>. QED
  BY <1>3, <1>4, <1>7, OthersStill

LEMMA LeaveStep ==
  ASSUME EpollInv, NEW c \in EpollClients, Epoll!Leave(c)
  PROVE  EpollInv'
<1>1. EpollTypes /\ ClientGood(c)
  BY DEF EpollInv
<1>2. /\ epUser[c] = "prompt" /\ epUser' = [epUser EXCEPT ![c] = "gone"]
      /\ wire' = [wire EXCEPT ![c] = IF info[c].fd = "closed" THEN <<>> ELSE Append(@, Epoll!Fin)]
      /\ UNCHANGED <<asked, sock, edge, epDown, heard, info, stored>>
  BY DEF Epoll!Leave
<1>3. EpollTypes'
  BY <1>1, <1>2 DEF EpollTypes
<1>4. /\ epUser'[c] = "gone"
      /\ wire'[c] = IF info[c].fd = "closed" THEN <<>> ELSE Append(wire[c], Epoll!Fin)
  BY <1>1, <1>2 DEF EpollTypes
<1>5. \A d \in EpollClients \ {c} : Still(d)
  BY <1>1, <1>2 DEF EpollTypes, Still
<1>6. Good("prompt", asked[c], wire[c], sock[c], c \in edge, epDown[c], heard[c], info[c], stored[c])
  BY <1>1, <1>2 DEF ClientGood
<1>7. Good("gone", asked[c], IF info[c].fd = "closed" THEN <<>> ELSE Append(wire[c], Epoll!Fin),
           sock[c], c \in edge, epDown[c], heard[c], info[c], stored[c])
  BY <1>6, ClientLeaves
<1>8. ClientGood(c)'
  BY <1>2, <1>4, <1>7 DEF ClientGood
<1>. QED
  BY <1>3, <1>5, <1>8, OthersStill

LEMMA AcceptStep ==
  ASSUME EpollInv, NEW c \in EpollClients, Epoll!Accept(c)
  PROVE  EpollInv'
<1>1. EpollTypes /\ ClientGood(c) /\ epUser[c] \in {"away", "prompt", "wait", "gone"}
  BY DEF EpollInv, EpollTypes
<1>2. /\ info[c].fd = "backlog"
      /\ \/ /\ info' = [info EXCEPT ![c] = [Epoll!Closed EXCEPT !.fd = "open"]]
            /\ UNCHANGED <<wire, sock, edge>>
         \/ /\ info' = [info EXCEPT ![c] = Epoll!Closed]
            /\ wire' = [wire EXCEPT ![c] = <<>>] /\ sock' = [sock EXCEPT ![c] = <<>>]
            /\ edge' = edge \ {c}
      /\ UNCHANGED <<epUser, asked, epDown, heard, stored>>
  BY Zenon DEF Epoll!Accept
<1>3. Good(epUser[c], asked[c], wire[c], sock[c], c \in edge, epDown[c], heard[c], info[c], stored[c])
  BY <1>1 DEF ClientGood
<1>4. CASE /\ info' = [info EXCEPT ![c] = [Epoll!Closed EXCEPT !.fd = "open"]]
           /\ UNCHANGED <<wire, sock, edge>>
  <2>1. EpollTypes' /\ info'[c] = [Epoll!Closed EXCEPT !.fd = "open"]
    BY <1>1, <1>2, <1>4 DEF EpollTypes
  <2>2. \A d \in EpollClients \ {c} : Still(d)
    BY <1>1, <1>2, <1>4 DEF EpollTypes, Still
  <2>3. Good(epUser[c], asked[c], wire[c], sock[c], c \in edge, epDown[c], heard[c],
             [Epoll!Closed EXCEPT !.fd = "open"], stored[c])
    BY <1>1, <1>2, <1>3, ServerAccepts
  <2>4. ClientGood(c)'
    BY <1>2, <1>4, <2>1, <2>3 DEF ClientGood
  <2>. QED
    BY <2>1, <2>2, <2>4, OthersStill
<1>5. CASE /\ info' = [info EXCEPT ![c] = Epoll!Closed]
           /\ wire' = [wire EXCEPT ![c] = <<>>] /\ sock' = [sock EXCEPT ![c] = <<>>]
           /\ edge' = edge \ {c}
  <2>1. EpollTypes'
    BY <1>1, <1>2, <1>5 DEF EpollTypes
  <2>2. info'[c] = Epoll!Closed /\ wire'[c] = <<>> /\ sock'[c] = <<>> /\ c \notin edge'
    BY <1>1, <1>5 DEF EpollTypes
  <2>3. \A d \in EpollClients \ {c} : Still(d)
    BY <1>1, <1>2, <1>5 DEF EpollTypes, Still
  <2>4. Good(epUser[c], asked[c], <<>>, <<>>, FALSE, epDown[c], heard[c], Epoll!Closed, stored[c])
    BY <1>1, <1>3, ConnectionCloses
  <2>5. Good(epUser[c], asked[c], <<>>, <<>>, c \in edge', epDown[c], heard[c], Epoll!Closed, stored[c])
    BY <2>2, <2>4, Zenon DEF Good
  <2>6. ClientGood(c)'
    BY <1>2, <2>2, <2>5 DEF ClientGood
  <2>. QED
    BY <2>1, <2>3, <2>6, OthersStill
<1>. QED
  BY <1>2, <1>4, <1>5

LEMMA ReceiveStep ==
  ASSUME EpollInv, NEW c \in EpollClients, Epoll!Receive(c)
  PROVE  EpollInv'
<1>1. /\ EpollTypes /\ ClientGood(c) /\ epUser[c] \in {"away", "prompt", "wait", "gone"}
      /\ asked[c] \in Seq(Epoll!Requests)
  BY DEF EpollInv, EpollTypes
<1>2. PICK m : m = Reach(sock[c], info[c].buffer)
  OBVIOUS
<1>3. Epoll!Received(c) = SubSeq(sock[c], 1, m)
  BY <1>2 DEF Epoll!Received, Reach
<1>4. PICK e2 : e2 = [info[c] EXCEPT !.buffer = @ \o SubSeq(sock[c], 1, m)]
  OBVIOUS
<1>5. PICK x : x = Epoll!process_client(e2, asked[c], stored[c])
  OBVIOUS
<1>6. PICK l : l = Len(SubSeq(sock[c], 1, m)) + 1
  OBVIOUS
<1>7. /\ c \in Epoll!Connected /\ SubSeq(sock[c], 1, m) # <<>>
      /\ edge' = edge \ {c}
      /\ sock' = [sock EXCEPT ![c] = SubSeq(@, l, Len(@))]
      /\ info' = [info EXCEPT ![c] = x.e]
      /\ epDown' = [epDown EXCEPT ![c] = IF epUser[c] = "gone" THEN <<>> ELSE @ \o x.out]
      /\ stored' = [stored EXCEPT ![c] = x.files]
      /\ UNCHANGED <<epUser, asked, wire, heard>>
  BY <1>3, <1>4, <1>5, <1>6 DEF Epoll!Receive, Epoll!Readable
<1>8. info[c].fd = "open"
  BY <1>7 DEF Epoll!Connected
<1>9. EpollTypes'
  BY <1>1, <1>7 DEF EpollTypes
<1>10. /\ sock'[c] = SubSeq(sock[c], l, Len(sock[c])) /\ info'[c] = x.e
       /\ epDown'[c] = (IF epUser[c] = "gone" THEN <<>> ELSE epDown[c] \o x.out)
       /\ stored'[c] = x.files
  BY <1>1, <1>7 DEF EpollTypes
<1>11. \A d \in EpollClients \ {c} : Still(d)
  BY <1>1, <1>7 DEF EpollTypes, Still
<1>12. Good(epUser[c], asked[c], wire[c], sock[c], c \in edge, epDown[c], heard[c], info[c], stored[c])
  BY <1>1 DEF ClientGood
<1>13. Good(epUser[c], asked[c], wire[c],
            SubSeq(sock[c], Len(SubSeq(sock[c], 1, m)) + 1, Len(sock[c])), FALSE,
            IF epUser[c] = "gone" THEN <<>> ELSE epDown[c] \o x.out, heard[c], x.e, x.files)
  BY <1>1, <1>2, <1>4, <1>5, <1>7, <1>8, <1>12, ServerReceives
<1>14. Good(epUser[c], asked[c], wire[c], SubSeq(sock[c], l, Len(sock[c])), c \in edge',
            IF epUser[c] = "gone" THEN <<>> ELSE epDown[c] \o x.out, heard[c], x.e, x.files)
  <2>1. Good(epUser[c], asked[c], wire[c], SubSeq(sock[c], l, Len(sock[c])), FALSE,
             IF epUser[c] = "gone" THEN <<>> ELSE epDown[c] \o x.out, heard[c], x.e, x.files)
    BY <1>6, <1>13
  <2>. QED
    BY <2>1, Zenon DEF Good
<1>15. ClientGood(c)'
  BY <1>7, <1>10, <1>14 DEF ClientGood
<1>. QED
  BY <1>9, <1>11, <1>15, OthersStill

LEMMA DisconnectStep ==
  ASSUME EpollInv, NEW c \in EpollClients, Epoll!Disconnect(c)
  PROVE  EpollInv'
<1>1. EpollTypes
  BY DEF EpollInv
<1>2. PICK ended \in SUBSET EpollClients :
        /\ info' = [d \in EpollClients |-> IF d \in ended THEN Epoll!Closed ELSE info[d]]
        /\ wire' = [d \in EpollClients |-> IF d \in ended THEN <<>> ELSE wire[d]]
        /\ sock' = [d \in EpollClients |-> IF d \in ended THEN <<>> ELSE sock[d]]
        /\ edge' = edge \ ended
        /\ UNCHANGED <<epUser, asked, epDown, heard, stored>>
  BY DEF Epoll!Disconnect
<1>3. EpollTypes'
  BY <1>1, <1>2 DEF EpollTypes
<1>4. ASSUME NEW d \in EpollClients PROVE ClientGood(d)'
  <2>1. ClientGood(d) /\ epUser[d] \in {"away", "prompt", "wait", "gone"}
    BY DEF EpollInv, EpollTypes
  <2>2. CASE d \in ended
    <3>1. /\ info'[d] = Epoll!Closed /\ wire'[d] = <<>> /\ sock'[d] = <<>> /\ d \notin edge'
      BY <1>2, <2>2
    <3>2. Good(epUser[d], asked[d], wire[d], sock[d], d \in edge, epDown[d], heard[d], info[d], stored[d])
      BY <2>1 DEF ClientGood
    <3>3. Good(epUser[d], asked[d], <<>>, <<>>, FALSE, epDown[d], heard[d], Epoll!Closed, stored[d])
      BY <2>1, <3>2, ConnectionCloses
    <3>4. Good(epUser[d], asked[d], <<>>, <<>>, d \in edge', epDown[d], heard[d], Epoll!Closed, stored[d])
      BY <3>1, <3>3, Zenon DEF Good
    <3>. QED
      BY <1>2, <3>1, <3>4 DEF ClientGood
  <2>3. CASE d \notin ended
    <3>1. Still(d)
      BY <1>2, <2>3 DEF Still
    <3>. QED
      BY <2>1, <3>1, StillGood
  <2>. QED
    BY <2>2, <2>3
<1>. QED
  BY <1>3, <1>4 DEF EpollInv

LEMMA EpollNext == EpollInv /\ [Next]_vars => EpollInv'
<1>. SUFFICES ASSUME EpollInv, [Next]_vars PROVE EpollInv'
  OBVIOUS
<1>1. CASE UNCHANGED epVars
  BY <1>1 DEF EpollInv, EpollTypes, ClientGood, epVars
<1>2. CASE Epoll!Next
  <2>1. PICK c \in EpollClients : Epoll!Step(c)
    BY <1>2 DEF Epoll!Next
  <2>. QED
    BY <2>1, ConnectStep, AskStep, DeliverStep, HearStep, HearCloseStep, LeaveStep, AcceptStep,
       ReceiveStep, DisconnectStep DEF Epoll!Step
<1>. QED
  BY <1>1, <1>2 DEF Next, vars

\* A client's proper requests are served in order, one answer for each.
THEOREM EpollAnswers == Spec => []AnsweredAsAsked
<1>1. ASSUME EpollInv PROVE AnsweredAsAsked
  <2>. SUFFICES ASSUME NEW c \in EpollClients, ~Epoll!Refused(c), NEW i \in DOMAIN heard[c]
                PROVE  LET n == heard[c][i][1]
                           r == asked[c][n]
                       IN IF r.kind = "calc" THEN heard[c][i][2] = Epoll!Long(n)
                          ELSE /\ heard[c][i][2] = <<<<n, "OK">>>>
                               /\ stored[c][n] = Epoll!Data(r, n)
    BY DEF AnsweredAsAsked, Epoll!AnsweredAsAsked
  <2>1. asked[c] \in Seq(Epoll!Requests) /\ ClientGood(c)
    BY <1>1 DEF EpollInv, EpollTypes
  <2>2. Clean(asked[c])
    BY DEF Clean, Epoll!Refused
  <2>3. PICK k \in Nat : Told(asked[c], stored[c], heard[c], k) /\ k <= Len(asked[c])
    <3>1. Len(asked[c]) \in Nat
      BY <2>1, LenProperties
    <3>2. CASE epUser[c] # "wait"
      BY <2>1, <2>2, <3>1, <3>2 DEF ClientGood, Good
    <3>3. CASE epUser[c] = "wait"
      <4>1. Agrees(epUser[c], asked[c], wire[c], sock[c], epDown[c], info[c], stored[c])
            /\ Told(asked[c], stored[c], heard[c], Len(asked[c]) - 1)
        BY <2>1, <2>2, <3>3 DEF ClientGood, Good
      <4>2. Len(asked[c]) > 0
        BY <3>3, <4>1 DEF Agrees
      <4>3. Len(asked[c]) - 1 \in Nat /\ Len(asked[c]) - 1 <= Len(asked[c])
        BY <3>1, <4>2
      <4>. QED
        BY <4>1, <4>3
    <3>. QED
      BY <3>2, <3>3
  <2>4. PICK n \in 1 .. k : /\ heard[c][i] = <<n, Answer(asked[c][n], n)>>
                            /\ asked[c][n].kind = "file" =>
                                  stored[c][n] = Epoll!Data(asked[c][n], n)
    BY <2>3 DEF Told
  <2>5. asked[c][n].kind \in {"calc", "file"}
    <3>1. n \in 1 .. Len(asked[c])
      BY <2>1, <2>3, LenProperties
    <3>2. n \in Nat /\ asked[c][n] \in Epoll!Requests
      BY <2>1, <3>1, ElementOfSeq
    <3>. QED
      BY <3>2, DataFacts
  <2>6. heard[c][i][1] = n /\ heard[c][i][2] = Answer(asked[c][n], n)
    BY <2>4
  <2>. QED
    BY <2>4, <2>5, <2>6 DEF Answer
<1>2. EpollInv /\ [Next]_vars => EpollInv'
  BY EpollNext
<1>3. Init => EpollInv
  BY EpollInit DEF Init
<1>. QED
  BY <1>1, <1>2, <1>3, PTL DEF Spec

LEMMA NotEmpty == \A x : <<>> # <<x>>
<1>. TAKE x
<1>1. Len(<<>>) = 0 /\ Len(<<x>>) = 1
  OBVIOUS
<1>. QED
  BY <1>1

\* A request that has been parsed to its end has been answered.
LEMMA AllAnswered ==
  ASSUME NEW r \in Epoll!Requests, NEW n \in Nat, NEW e, NEW f, NEW s, NEW w, NEW d,
         Served(r, n, e, f, s, w, d), s \o w = <<>>, ~Empty(r)
  PROVE  d # <<>>
<1>1. PICK str : str = Epoll!Stream(r, n)
  OBVIOUS
<1>2. Len(str) = Size(r) /\ Size(r) \in Nat /\ str \in Seq(Units)
  BY <1>1, StreamFacts
<1>3. PICK p \in 0 .. Len(str) : /\ s \o w = SubSeq(str, p + 1, Len(str))
                               /\ d = IF p = Len(str) /\ ~Empty(r) THEN Answer(r, n) ELSE <<>>
  BY <1>1 DEF Served
<1>4. p = Len(str)
  <2>1. Len(str) \in 0 .. Len(str) /\ p \in 0 .. Len(str)
    BY <1>2
  <2>2. Len(SubSeq(str, p + 1, Len(str))) = Len(str) - p
    BY <1>2, <2>1, Segment
  <2>3. SubSeq(str, p + 1, Len(str)) = <<>>
    BY <1>3
  <2>4. Len(str) - p = 0
    BY <2>2, <2>3
  <2>. QED
    BY <1>2, <2>1, <2>4
<1>5. Answer(r, n) # <<>>
  <2>1. Len(Answer(r, n)) > 0
    BY DEF Answer, Epoll!Long
  <2>. QED
    BY <2>1
<1>. QED
  BY <1>3, <1>4, <1>5

\* No client waits for ever and no slot is lost, but in the three cases named.
THEOREM EpollServesAll == Spec => []NobodyLeftBehind
<1>1. ASSUME EpollInv PROVE NobodyLeftBehind
  <2>. SUFFICES ASSUME NEW c \in EpollClients, Epoll!Quiet(c), epUser[c] \in {"wait", "gone"},
                       ~Epoll!Refused(c),
                       ~\E n \in DOMAIN asked[c] :
                          \/ asked[c][n].kind = "file" /\ asked[c][n].size = 0
                          \/ Len(Epoll!Stream(asked[c][n], n)) > EpollRoom
                PROVE  FALSE
    BY DEF NobodyLeftBehind, Epoll!NobodyLeftBehind
  <2>. DEFINE n == Len(asked[c])
              r == asked[c][n]
  <2>1. asked[c] \in Seq(Epoll!Requests) /\ ClientGood(c)
    BY <1>1 DEF EpollInv, EpollTypes
  <2>2. Clean(asked[c])
    BY DEF Clean, Epoll!Refused
  <2>3. n \in Nat /\ DOMAIN asked[c] = 1 .. n
    BY <2>1, LenProperties
  <2>4. Fits(asked[c])
    <3>. SUFFICES ASSUME NEW i \in DOMAIN asked[c]
                  PROVE  Len(Epoll!Stream(asked[c][i], i)) <= EpollRoom
      BY DEF Fits
    <3>1. i \in Nat /\ asked[c][i] \in Epoll!Requests
      BY <2>1, <2>3, ElementOfSeq
    <3>2. Len(Epoll!Stream(asked[c][i], i)) \in Nat /\ EpollRoom \in Nat
      BY <3>1, StreamFacts, ConcurrentAssumption
    <3>. QED
      BY <3>2
  <2>5. info[c].fd = "open" /\ c \notin edge /\ wire[c] = <<>> /\ epDown[c] = <<>>
    BY DEF Epoll!Quiet, Epoll!Connected
  <2>6. /\ Agrees(epUser[c], asked[c], wire[c], sock[c], epDown[c], info[c], stored[c])
        /\ sock[c] = <<>>
    BY <2>1, <2>2, <2>4, <2>5 DEF ClientGood, Good
  <2>7. sock[c] \o wire[c] = <<>>
    BY <2>5, <2>6
  <2>8. CASE epUser[c] = "gone"
    <3>1. sock[c] \o wire[c] = <<Epoll!Fin>>
      BY <2>5, <2>6, <2>8 DEF Agrees
    <3>2. <<>> = <<Epoll!Fin>>
      BY <2>7, <3>1
    <3>. QED
      BY <3>2, NotEmpty
  <2>9. CASE epUser[c] = "wait"
    <3>1. n > 0 /\ Served(r, n, info[c], stored[c][n], sock[c], wire[c], epDown[c])
      BY <2>5, <2>6, <2>9 DEF Agrees
    <3>2. n \in 1 .. n /\ r \in Epoll!Requests /\ ~Empty(r)
      BY <2>1, <2>3, <3>1, ElementOfSeq DEF Empty
    <3>. HIDE DEF r, n
    <3>. QED
      BY <2>3, <2>5, <2>7, <3>1, <3>2, AllAnswered
  <2>. QED
    BY <2>8, <2>9
<1>2. EpollInv /\ [Next]_vars => EpollInv'
  BY EpollNext
<1>3. Init => EpollInv
  BY EpollInit DEF Init
<1>. QED
  BY <1>1, <1>2, <1>3, PTL DEF Spec

=============================================================================

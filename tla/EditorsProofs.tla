---------------------------- MODULE EditorsProofs ----------------------------
(* Proofs about what an operator edits: the profiles of any rig, in any files, and the
   settings of the program. *)
EXTENDS DeviceLibrary, SettingsScreen, FiniteSetTheorems, SequenceTheorems, TLAPS

(***************************************************************************)
(* What a profile consists of.                                             *)
(***************************************************************************)

(* The parts of a profile. *)
LEMMA ProfileParts ==
  ASSUME NEW p, IsProfile(p)
  PROVE  /\ p.connections \in Seq(Lines)
         /\ p.details \in Details
         /\ Configured(p) \subseteq Names
         /\ p.roles \in [Configured(p) -> Roles]
         /\ p = [roles |-> p.roles, connections |-> p.connections, details |-> p.details]
  <1>1. PICK used \in SUBSET Names :
           p \in [roles : [used -> Roles], connections : Seq(Lines), details : Details]
    BY DEF IsProfile
  <1>2. p.roles \in [used -> Roles] /\ Configured(p) = used
    BY <1>1 DEF Configured
  <1> QED
    BY <1>1, <1>2

(* Parts that make a profile. *)
LEMMA ProfileMade ==
  ASSUME NEW used \in SUBSET Names, NEW roles \in [used -> Roles],
         NEW connections \in Seq(Lines), NEW details \in Details
  PROVE  IsProfile([roles |-> roles, connections |-> connections, details |-> details])
  BY Zenon DEF IsProfile

(* A profile with a part replaced. *)
LEMMA PartReplaced ==
  ASSUME NEW p, IsProfile(p), NEW x
  PROVE  /\ [p EXCEPT !.roles = x] =
               [roles |-> x, connections |-> p.connections, details |-> p.details]
         /\ [p EXCEPT !.connections = x] =
               [roles |-> p.roles, connections |-> x, details |-> p.details]
         /\ [p EXCEPT !.details = x] =
               [roles |-> p.roles, connections |-> p.connections, details |-> x]
  <1>1. PICK r, c, t : p = [roles |-> r, connections |-> c, details |-> t]
    BY ProfileParts
  <1> QED
    BY <1>1

(* Places in a list of connections. *)
LEMMA LinesInPlace ==
  ASSUME NEW s \in Seq(Lines)
  PROVE  Len(s) \in Nat /\ DOMAIN s = 1 .. Len(s) /\ \A i \in DOMAIN s : s[i] \in Lines
  BY LenProperties, ElementOfSeq

LEMMA LineParts ==
  ASSUME NEW line \in Lines
  PROVE  /\ line.id \in ConnectionIds
         /\ line.port \in Ports \cup Hosts
         /\ line.fit \in {"fit", "unfit", "unnamed"}
         /\ line = [id |-> line.id, port |-> line.port, fit |-> line.fit]
  BY DEF Lines

LEMMA RoleParts ==
  ASSUME NEW role \in Roles
  PROVE  /\ role.driver \in Drivers
         /\ role.enabled \in BOOLEAN
         /\ role.connection \in ConnectionIds
         /\ role.address \in Addresses \cup {NoAddress}
         /\ role.fit \in BOOLEAN
  BY Zenon DEF Roles

(***************************************************************************)
(* A new connection gets a name that is free.                              *)
(***************************************************************************)

(* The sets of what lies below each member are well founded, and the least of
   them is that of the least member. *)
LEMMA EarliestExists ==
  ASSUME NEW s \in SUBSET Nat, s # {}
  PROVE  \E m \in s : \A o \in s : m <= o
  <1> DEFINE below(m) == {o \in s : o < m}
  <1>1. PICK family : family = {below(m) : m \in s}
    OBVIOUS
  <1>2. family \subseteq FiniteSubsetsOf(s)
    <2>1. ASSUME NEW m \in s PROVE below(m) \in SUBSET Nat /\ m \in Nat /\ \A o \in below(m) : o <= m
      <3>1. m \in Nat /\ \A o \in s : o \in Nat
        OBVIOUS
      <3>2. ASSUME NEW o \in below(m) PROVE o \in Nat /\ o <= m
        <4>1. o \in Nat /\ o < m
          BY <3>1, <3>2
        <4> QED
          BY <3>1, <4>1
      <3> QED
        BY <3>1, <3>2
    <2>2. \A m \in s : IsFiniteSet(below(m))
      BY <2>1, FS_BoundedSetOfNaturals
    <2> QED
      BY <1>1, <2>2 DEF FiniteSubsetsOf
  <1>3. \E x \in family : \A y \in family : ~(<<y, x>> \in StrictSubsetOrdering(s))
    <2>1. IsWellFoundedOn(StrictSubsetOrdering(s), FiniteSubsetsOf(s)) /\ family # {}
      BY <1>1, FS_StrictSubsetOrderingWellFounded
    <2> QED
      BY <1>2, <2>1, WFMin
  <1>4. PICK m \in s : \A o \in s : ~(<<below(o), below(m)>> \in StrictSubsetOrdering(s))
    BY <1>1, <1>3
  <1>5. ASSUME NEW o \in s, o < m PROVE FALSE
    <2>0. m \in Nat /\ o \in Nat /\ \A p \in s : p \in Nat
      OBVIOUS
    <2>1. below(o) \subseteq below(m) /\ o \in below(m) /\ o \notin below(o)
      <3>1. o \in below(m) /\ o \notin below(o)
        BY <1>5, <2>0
      <3>2. ASSUME NEW p \in below(o) PROVE p \in below(m)
        <4>1. p \in s /\ p \in Nat /\ p < o
          BY <2>0, <3>2
        <4>2. p < m
          BY <1>5, <2>0, <4>1
        <4> QED
          BY <4>1, <4>2
      <3> QED
        BY <3>1, <3>2
    <2>2. <<below(o), below(m)>> \in StrictSubsetOrdering(s)
      BY <2>1 DEF StrictSubsetOrdering
    <2> QED
      BY <1>4, <2>2
  <1> QED
    BY <1>5

(* There is a free name among the first ones, one more than there are connections. *)
LEMMA SomeNumberIsFree ==
  ASSUME NEW s \in Seq(Lines), NEW base, NEW target
  PROVE  \E n \in 1 .. (Len(s) + 1) :
            \A i \in DOMAIN s : s[i].id # [base |-> base, target |-> target, number |-> n]
  <1> DEFINE id(n) == [base |-> base, target |-> target, number |-> n]
  <1> SUFFICES ASSUME \A n \in 1 .. (Len(s) + 1) : \E i \in DOMAIN s : s[i].id = id(n)
               PROVE  FALSE
    OBVIOUS
  <1>1. Len(s) \in Nat /\ DOMAIN s = 1 .. Len(s)
    BY LinesInPlace
  <1>2. PICK f : f = [n \in 1 .. (Len(s) + 1) |-> CHOOSE i \in 1 .. Len(s) : s[i].id = id(n)]
    OBVIOUS
  <1>3. ASSUME NEW n \in 1 .. (Len(s) + 1)
        PROVE  f[n] \in 1 .. Len(s) /\ s[f[n]].id = id(n)
    <2>1. \E i \in 1 .. Len(s) : s[i].id = id(n)
      BY <1>1
    <2>2. f[n] = CHOOSE i \in 1 .. Len(s) : s[i].id = id(n)
      BY <1>2, Zenon
    <2> QED
      BY <2>1, <2>2, Zenon
  <1>4. f \in [1 .. (Len(s) + 1) -> 1 .. Len(s)]
    BY <1>2, <1>3
  <1>5. /\ IsFiniteSet(1 .. (Len(s) + 1)) /\ IsFiniteSet(1 .. Len(s))
        /\ Cardinality(1 .. Len(s)) < Cardinality(1 .. (Len(s) + 1))
    <2>1. PICK n \in Nat : n = Len(s)
      BY <1>1
    <2>2. /\ IsFiniteSet(1 .. n) /\ Cardinality(1 .. n) = IF 1 > n THEN 0 ELSE n - 1 + 1
          /\ IsFiniteSet(1 .. (n + 1))
          /\ Cardinality(1 .. (n + 1)) = IF 1 > n + 1 THEN 0 ELSE (n + 1) - 1 + 1
      <3>1. 1 \in Int /\ n \in Int /\ n + 1 \in Int
        BY <2>1
      <3> QED
        BY <3>1, FS_Interval
    <2> QED
      BY <2>1, <2>2
  <1>6. PICK n, m \in 1 .. (Len(s) + 1) : n # m /\ f[n] = f[m]
    BY <1>4, <1>5, FS_PigeonHole
  <1>7. id(n) = id(m)
    BY <1>3, <1>6
  <1>8. id(n).number = n /\ id(m).number = m
    OBVIOUS
  <1> QED
    BY <1>6, <1>7, <1>8

(* What _unique_connection_id returns is free. *)
LEMMA NameIsFree ==
  ASSUME NEW p, p.connections \in Seq(Lines),
         NEW base \in Bases, NEW target \in Ports \cup Hosts \cup {Controller}
  PROVE  /\ UniqueConnectionId(p, base, target) \in ConnectionIds
         /\ \A i \in DOMAIN p.connections :
               p.connections[i].id # UniqueConnectionId(p, base, target)
  <1> DEFINE id(n) == [base |-> base, target |-> target, number |-> n]
             used(n) == \E connection \in Connections(p) : connection.id = id(n)
             last == Len(p.connections) + 1
             free == {n \in 1 .. last : ~used(n)}
  <1>1. last \in Nat
    BY LinesInPlace
  <1>2. \A n : used(n) <=> \E i \in DOMAIN p.connections : p.connections[i].id = id(n)
    BY DEF Connections, Range
  <1>3. free # {} /\ free \in SUBSET Nat
    <2>1. PICK n \in 1 .. last :
             \A i \in DOMAIN p.connections : p.connections[i].id # id(n)
      BY SomeNumberIsFree
    <2>2. n \in free
      BY <1>2, <2>1, Zenon
    <2>3. free \subseteq 1 .. last
      BY Zenon
    <2> QED
      BY <1>1, <2>2, <2>3
  <1>4. PICK n \in free : \A m \in free : n <= m
    BY <1>3, EarliestExists
  <1>5. n \in 1 .. last /\ ~used(n) /\ \A m \in 1 .. (n - 1) : used(m)
    <2>1. n \in 1 .. last /\ ~used(n)
      BY <1>4, Zenon
    <2>2. ASSUME NEW m \in 1 .. (n - 1), ~used(m) PROVE FALSE
      <3>1. m \in 1 .. last /\ m < n
        BY <1>1, <2>1, <2>2
      <3>2. m \in free
        BY <2>2, <3>1, Zenon
      <3> QED
        BY <1>4, <2>1, <3>1, <3>2
    <2> QED
      BY <2>1, <2>2
  <1>6. PICK k : /\ k = CHOOSE c \in 1 .. last : ~used(c) /\ \A m \in 1 .. (c - 1) : used(m)
                 /\ k \in 1 .. last /\ ~used(k)
    BY <1>5
  <1>7. UniqueConnectionId(p, base, target) = id(k)
    BY <1>6 DEF UniqueConnectionId
  <1>8. id(k) \in ConnectionIds
    BY <1>1, <1>6 DEF ConnectionIds
  <1> QED
    BY <1>2, <1>6, <1>7, <1>8

(***************************************************************************)
(* What a driver takes.                                                    *)
(***************************************************************************)

(* A device's connection is the one that has the name its role gives. *)
LEMMA ItsLine ==
  ASSUME NEW p, IsProfile(p), Wired(p), NEW d \in Configured(p)
  PROVE  \E i \in DOMAIN p.connections :
            /\ p.connections[i].id = p.roles[d].connection
            /\ GetConnection(p, d) = p.connections[i]
  <1>1. PICK i \in DOMAIN p.connections : p.connections[i].id = p.roles[d].connection
    <2>1. p.roles[d].connection \in {p.connections[i].id : i \in DOMAIN p.connections}
      BY DEF Wired, Configured
    <2> QED
      BY <2>1
  <1>2. \A c : c \in Connections(p) <=> \E j \in DOMAIN p.connections : c = p.connections[j]
    BY DEF Connections, Range
  <1>3. PICK c : c = GetConnection(p, d)
    OBVIOUS
  <1>4. c \in Connections(p) /\ c.id = p.roles[d].connection
    BY <1>1, <1>2, <1>3 DEF GetConnection
  <1> QED
    BY <1>2, <1>3, <1>4

(* What the connection of a device has to be, without choosing it. *)
ItsLineFits(p, d) ==
    \A i \in DOMAIN p.connections :
        p.connections[i].id = p.roles[d].connection => p.connections[i].fit = "fit"

(* No other Alicat in use has the device's address on its bus. *)
Alone(p, d) ==
    \A e \in Enabled(p) \ {d} :
        ~ /\ p.roles[e].driver = "alicat"
          /\ p.roles[e].connection = p.roles[d].connection
          /\ p.roles[e].address = p.roles[d].address

Fitting(p, d) ==
    /\ p.roles[d].fit
    /\ ItsLineFits(p, d)
    /\ p.roles[d].driver = "alicat" => Alone(p, d)

LEMMA GetsWhatFits ==
  ASSUME NEW p, IsProfile(p), Wired(p), NEW d \in Configured(p)
  PROVE  GetConnection(p, d).fit = "fit" <=> ItsLineFits(p, d)
  <1>1. PICK i \in DOMAIN p.connections : /\ p.connections[i].id = p.roles[d].connection
                                          /\ GetConnection(p, d) = p.connections[i]
    BY ItsLine
  <1>2. \A j \in DOMAIN p.connections :
           p.connections[j].id = p.roles[d].connection => j = i
    BY <1>1 DEF Wired
  <1> QED
    BY <1>1, <1>2 DEF ItsLineFits

(* Which configuration is made. *)
LEMMA WhatIsAccepted ==
  ASSUME NEW p, NEW d
  PROVE  /\ p.roles[d].driver = "alicat" => (Accepts(p, d) <=> AlicatConfiguration(p, d))
         /\ p.roles[d].driver = Supply => (Accepts(p, d) <=> Fits(p, d))
         /\ p.roles[d].driver = "tasi_ta612c" => (Accepts(p, d) <=> ProbeConfiguration(p, d))
         /\ p.roles[d].driver = "kamoer_m1_stp" => (Accepts(p, d) <=> Fits(p, d))
  <1>1. CASE p.roles[d].driver = "alicat"
    BY <1>1 DEF Accepts, Supply
  <1>2. CASE p.roles[d].driver = Supply
    BY <1>2 DEF Accepts, Supply, SupplyConfiguration
  <1>3. CASE p.roles[d].driver = "tasi_ta612c"
    BY <1>3 DEF Accepts, Supply
  <1>4. CASE p.roles[d].driver = "kamoer_m1_stp"
    BY <1>4 DEF Accepts, Supply, PumpConfiguration
  <1> QED
    BY <1>1, <1>2, <1>3, <1>4 DEF Supply

(* Of a device that is validated, a driver takes what is fitting; a thermometer is alone
   on its connection because nothing shares it. *)
LEMMA AcceptedIsFitting ==
  ASSUME NEW p, IsProfile(p), Wired(p), NEW d \in Configured(p),
         p.roles[d].driver \in Validated
  PROVE  Accepts(p, d) <=> Fitting(p, d)
  <1>1. Fits(p, d) <=> p.roles[d].fit /\ ItsLineFits(p, d)
    BY GetsWhatFits, Zenon DEF Fits
  <1>2. CASE p.roles[d].driver = "alicat"
    <2>1. AlicatConfiguration(p, d) <=> Fits(p, d) /\ Alone(p, d)
      BY Zenon DEF AlicatConfiguration, Alone
    <2> QED
      BY <1>1, <1>2, <2>1, WhatIsAccepted, Zenon DEF Fitting
  <1>3. CASE p.roles[d].driver = "tasi_ta612c"
    <2>1. \A e \in Enabled(p) \ {d} : p.roles[e].connection # p.roles[d].connection
      BY <1>3 DEF Wired, Enabled, Configured, Validated
    <2>2. ProbeConfiguration(p, d) <=> Fits(p, d)
      BY <2>1, Zenon DEF ProbeConfiguration
    <2>3. p.roles[d].driver # "alicat"
      BY <1>3
    <2> QED
      BY <1>1, <1>3, <2>2, <2>3, WhatIsAccepted, Zenon DEF Fitting
  <1>4. CASE p.roles[d].driver \in {Supply, "kamoer_m1_stp"}
    <2>1. p.roles[d].driver # "alicat"
      BY <1>4 DEF Supply
    <2>2. Accepts(p, d) <=> Fits(p, d)
      BY <1>4, WhatIsAccepted
    <2> QED
      BY <1>1, <2>1, <2>2, Zenon DEF Fitting
  <1> QED
    BY <1>2, <1>3, <1>4 DEF Validated

(***************************************************************************)
(* Profiles of which a session can be built.                               *)
(***************************************************************************)

Sound(p) ==
    /\ IsProfile(p)
    /\ Wired(p)
    /\ \A d \in Enabled(p) : p.roles[d].driver \in Validated => Fitting(p, d)

LEMMA SoundIsChecked ==
  ASSUME NEW p
  PROVE  Sound(p) <=> IsProfile(p) /\ Wired(p) /\ Checked(p)
  <1>1. CASE IsProfile(p) /\ Wired(p)
    <2>1. \A d \in Enabled(p) :
             p.roles[d].driver \in Validated => (Accepts(p, d) <=> Fitting(p, d))
      BY <1>1, AcceptedIsFitting DEF Enabled
    <2> QED
      BY <1>1, <2>1, Zenon DEF Sound, Checked
  <1> QED
    BY <1>1, Zenon DEF Sound

(* A profile with more in it. *)
Extends(p, q) ==
    /\ Configured(p) \subseteq Configured(q)
    /\ \A d \in Configured(p) : q.roles[d] = p.roles[d]
    /\ DOMAIN p.connections \subseteq DOMAIN q.connections
    /\ \A i \in DOMAIN p.connections : q.connections[i] = p.connections[i]

(* What was fitting still is, if what is new fits: of two Alicats on one address, the new
   one would see the other. *)
LEMMA ExtendedIsSound ==
  ASSUME NEW p, Sound(p), NEW q, IsProfile(q), Wired(q), Extends(p, q),
         \A n \in Configured(q) \ Configured(p) :
            q.roles[n].driver \in Validated => Fitting(q, n)
  PROVE  Sound(q)
  <1> SUFFICES ASSUME NEW d \in Enabled(q), q.roles[d].driver \in Validated
               PROVE  Fitting(q, d)
    BY DEF Sound
  <1>1. d \in Configured(q)
    BY DEF Enabled
  <1>2. CASE d \notin Configured(p)
    BY <1>1, <1>2
  <1>3. CASE d \in Configured(p)
    <2>1. q.roles[d] = p.roles[d] /\ d \in Enabled(p)
      BY <1>3 DEF Extends, Enabled
    <2>2. Fitting(p, d)
      BY <2>1 DEF Sound
    <2>3. ItsLineFits(q, d)
      <3>1. PICK j \in DOMAIN p.connections : p.connections[j].id = p.roles[d].connection
        BY <1>3, ItsLine DEF Sound
      <3>2. p.connections[j].fit = "fit"
        BY <2>2, <3>1 DEF Fitting, ItsLineFits
      <3>3. j \in DOMAIN q.connections /\ q.connections[j] = p.connections[j]
        BY <3>1 DEF Extends
      <3>4. \A i \in DOMAIN q.connections : q.connections[i].id = q.roles[d].connection => i = j
        BY <2>1, <3>1, <3>3 DEF Wired
      <3> QED
        BY <3>2, <3>3, <3>4 DEF ItsLineFits
    <2>4. ASSUME q.roles[d].driver = "alicat" PROVE Alone(q, d)
      <3> SUFFICES ASSUME NEW e \in Enabled(q), e # d,
                          q.roles[e].driver = "alicat",
                          q.roles[e].connection = q.roles[d].connection,
                          q.roles[e].address = q.roles[d].address
                   PROVE  FALSE
        BY DEF Alone
      <3>1. CASE e \in Configured(p)
        <4>1. q.roles[e] = p.roles[e] /\ e \in Enabled(p)
          BY <3>1 DEF Extends, Enabled
        <4>2. Alone(p, d)
          BY <2>1, <2>2, <2>4 DEF Fitting
        <4> QED
          BY <2>1, <4>1, <4>2 DEF Alone
      <3>2. CASE e \notin Configured(p)
        <4>1. e \in Configured(q) /\ q.roles[e].driver \in Validated
          BY DEF Enabled, Validated
        <4>2. Alone(q, e)
          BY <3>2, <4>1 DEF Fitting
        <4> QED
          BY <2>4, <4>2 DEF Alone
      <3> QED
        BY <3>1, <3>2
    <2> QED
      BY <2>1, <2>2, <2>3, <2>4 DEF Fitting
  <1> QED
    BY <1>2, <1>3

(***************************************************************************)
(* Devices are added.                                                      *)
(***************************************************************************)

LEMMA RoleMade ==
  ASSUME NEW driver \in Drivers, NEW id \in ConnectionIds, NEW address \in Addresses \cup {NoAddress}
  PROVE  /\ Role(driver, id, address) \in Roles
         /\ Role(driver, id, address).driver = driver
         /\ Role(driver, id, address).connection = id
         /\ Role(driver, id, address).address = address
         /\ Role(driver, id, address).fit
  BY Zenon DEF Role, Roles

LEMMA LineMade ==
  ASSUME NEW id \in ConnectionIds, NEW port \in Ports \cup Hosts
  PROVE  /\ Connection(id, port) \in Lines
         /\ Connection(id, port).id = id
         /\ Connection(id, port).port = port
         /\ Connection(id, port).fit = "fit"
  BY DEF Connection, Lines

(* A profile with more roles. *)
LEMMA RolesAdded ==
  ASSUME NEW p, IsProfile(p),
         NEW new, DOMAIN new \subseteq Names, \A n \in DOMAIN new : new[n] \in Roles,
         NEW q, q = WithRoles(p, new)
  PROVE  /\ IsProfile(q)
         /\ q.connections = p.connections
         /\ Configured(q) = Configured(p) \cup DOMAIN new
         /\ \A d \in Configured(p) : q.roles[d] = p.roles[d]
         /\ \A n \in DOMAIN new \ Configured(p) : q.roles[n] = new[n]
  <1>1. PICK used : used = Configured(p) \cup DOMAIN new
    OBVIOUS
  <1>2. PICK roles : roles = [d \in used |-> IF d \in Configured(p) THEN p.roles[d] ELSE new[d]]
    OBVIOUS
  <1>3. /\ p.connections \in Seq(Lines) /\ p.details \in Details /\ Configured(p) \subseteq Names
        /\ \A d \in Configured(p) : p.roles[d] \in Roles
    BY ProfileParts
  <1>4. used \in SUBSET Names /\ roles \in [used -> Roles]
    BY <1>1, <1>2, <1>3
  <1>5. q = [roles |-> roles, connections |-> p.connections, details |-> p.details]
    <2>1. q = [p EXCEPT !.roles = roles]
      <3>1. roles = [d \in DOMAIN p.roles \cup DOMAIN new |->
                        IF d \in DOMAIN p.roles THEN p.roles[d] ELSE new[d]]
        BY <1>1, <1>2 DEF Configured
      <3>2. PICK r, c, t : p = [roles |-> r, connections |-> c, details |-> t]
        BY ProfileParts
      <3> QED
        BY <3>1, <3>2 DEF WithRoles
    <2> QED
      BY <2>1, PartReplaced
  <1>6. IsProfile(q)
    BY <1>3, <1>4, <1>5, ProfileMade
  <1>7. q.roles = roles /\ q.connections = p.connections
    BY <1>5
  <1>8. DOMAIN roles = used
    BY <1>2
  <1> QED
    BY <1>1, <1>2, <1>6, <1>7, <1>8 DEF Configured

(* A profile with one connection more. *)
LEMMA LineAdded ==
  ASSUME NEW p, IsProfile(p), NEW line \in Lines,
         NEW q, q = [p EXCEPT !.connections = Append(@, line)]
  PROVE  /\ IsProfile(q)
         /\ q.roles = p.roles
         /\ Configured(q) = Configured(p)
         /\ \E last :
               /\ last \notin DOMAIN p.connections
               /\ DOMAIN q.connections = DOMAIN p.connections \cup {last}
               /\ \A i \in DOMAIN p.connections : q.connections[i] = p.connections[i]
               /\ q.connections[last] = line
  <1>1. /\ p.connections \in Seq(Lines) /\ p.details \in Details /\ Configured(p) \subseteq Names
        /\ p.roles \in [Configured(p) -> Roles]
    BY ProfileParts
  <1>2. PICK s : s = Append(p.connections, line)
    OBVIOUS
  <1>3. /\ s \in Seq(Lines) /\ Len(s) = Len(p.connections) + 1
        /\ \A i \in 1 .. Len(p.connections) : s[i] = p.connections[i]
        /\ s[Len(p.connections) + 1] = line
    BY <1>1, <1>2, AppendProperties
  <1>4. q = [roles |-> p.roles, connections |-> s, details |-> p.details]
    <2>1. q = [p EXCEPT !.connections = s]
      <3>1. PICK r, c, t : p = [roles |-> r, connections |-> c, details |-> t]
        BY ProfileParts
      <3> QED
        BY <1>2, <3>1
    <2> QED
      BY <2>1, PartReplaced
  <1>5. IsProfile(q)
    <2>1. PICK used \in SUBSET Names : used = Configured(p)
      BY <1>1
    <2>2. PICK roles \in [used -> Roles] : roles = p.roles
      BY <1>1, <2>1
    <2> QED
      <3>1. PICK t \in Details : t = p.details
        BY <1>1
      <3>2. q = [roles |-> roles, connections |-> s, details |-> t]
        BY <1>4, <2>2, <3>1, Zenon
      <3>3. s \in Seq(Lines)
        BY <1>3
      <3> QED
        <4>1. used \in SUBSET Names /\ roles \in [used -> Roles] /\ t \in Details
          OBVIOUS
        <4>2. IsProfile([roles |-> roles, connections |-> s, details |-> t])
          BY <3>3, <4>1, ProfileMade
        <4> QED
          BY <3>2, <4>2, Zenon
  <1>6. q.roles = p.roles /\ q.connections = s
    BY <1>4
  <1>7. PICK n \in Nat : n = Len(p.connections)
    BY <1>1, LinesInPlace
  <1>8. DOMAIN p.connections = 1 .. n /\ DOMAIN s = 1 .. (n + 1)
    BY <1>1, <1>3, <1>7, LinesInPlace
  <1>9. n + 1 \notin DOMAIN p.connections /\ DOMAIN s = DOMAIN p.connections \cup {n + 1}
    BY <1>8
  <1> QED
    BY <1>3, <1>5, <1>6, <1>7, <1>8, <1>9 DEF Configured

(* A device on a connection of its own, which only it has. *)
LEMMA OnItsOwnIsSound ==
  ASSUME NEW p, Sound(p),
         NEW id \in ConnectionIds, \A i \in DOMAIN p.connections : p.connections[i].id # id,
         NEW port \in Ports \cup Hosts,
         NEW d \in Names, d \notin Configured(p),
         NEW driver \in Drivers, NEW address \in Addresses \cup {NoAddress},
         NEW q, q = WithRole([p EXCEPT !.connections = Append(@, Connection(id, port))],
                             d, driver, id, address)
  PROVE  /\ Sound(q)
         /\ Configured(q) = Configured(p) \cup {d}
         /\ q.roles[d] = Role(driver, id, address)
  <1>1. PICK line \in Lines : line = Connection(id, port) /\ line.id = id /\ line.fit = "fit"
    BY LineMade
  <1>2. PICK r : r = [p EXCEPT !.connections = Append(@, line)]
    OBVIOUS
  <1>a. IsProfile(p) /\ Wired(p)
    BY DEF Sound
  <1>b. /\ IsProfile(r) /\ r.roles = p.roles /\ Configured(r) = Configured(p)
        /\ \E last :
               /\ last \notin DOMAIN p.connections
               /\ DOMAIN r.connections = DOMAIN p.connections \cup {last}
               /\ \A i \in DOMAIN p.connections : r.connections[i] = p.connections[i]
               /\ r.connections[last] = line
    BY <1>2, <1>a, LineAdded
  <1>3. PICK last :
           /\ last \notin DOMAIN p.connections
           /\ DOMAIN r.connections = DOMAIN p.connections \cup {last}
           /\ \A i \in DOMAIN p.connections : r.connections[i] = p.connections[i]
           /\ r.connections[last] = line
    BY <1>b, Zenon
  <1>4. PICK role : role = Role(driver, id, address)
    OBVIOUS
  <1>5. role \in Roles /\ role.driver = driver /\ role.connection = id
    BY <1>4, RoleMade
  <1>c. role.fit
    BY <1>4, RoleMade
  <1>6. PICK new : new = [e \in {d} |-> role]
    OBVIOUS
  <1>7. DOMAIN new = {d} /\ new[d] = role
    BY <1>6
  <1>8. q = WithRoles(r, new)
    BY <1>1, <1>2, <1>4, <1>6, Zenon DEF WithRole
  <1>9. /\ IsProfile(q) /\ q.connections = r.connections
        /\ Configured(q) = Configured(p) \cup {d}
        /\ \A e \in Configured(p) : q.roles[e] = p.roles[e]
        /\ q.roles[d] = role
    <2>1. DOMAIN new \subseteq Names /\ \A n \in DOMAIN new : new[n] \in Roles
      BY <1>5, <1>7
    <2>2. /\ IsProfile(q) /\ q.connections = r.connections
          /\ Configured(q) = Configured(r) \cup DOMAIN new
          /\ \A e \in Configured(r) : q.roles[e] = r.roles[e]
          /\ \A n \in DOMAIN new \ Configured(r) : q.roles[n] = new[n]
      <3>1. IsProfile(r)
        BY <1>b
      <3> QED
        <4>1. /\ IsProfile(WithRoles(r, new))
              /\ WithRoles(r, new).connections = r.connections
              /\ Configured(WithRoles(r, new)) = Configured(r) \cup DOMAIN new
              /\ \A e \in Configured(r) : WithRoles(r, new).roles[e] = r.roles[e]
              /\ \A n \in DOMAIN new \ Configured(r) : WithRoles(r, new).roles[n] = new[n]
          BY <3>1, <2>1, RolesAdded
        <4> QED
          BY <1>8, <4>1
    <2> QED
      BY <1>b, <1>7, <2>2
  <1>10. Extends(p, q)
    BY <1>3, <1>9 DEF Extends
  <1>11. \A e \in Configured(p) : p.roles[e].connection # id
    BY <1>a, ItsLine
  <1>12. Wired(q)
    <2>1. ASSUME NEW i \in DOMAIN q.connections, NEW j \in DOMAIN q.connections,
                 q.connections[i].id = q.connections[j].id
          PROVE  i = j
      <3>1. CASE i \in DOMAIN p.connections /\ j \in DOMAIN p.connections
        BY <1>3, <1>9, <1>a, <2>1, <3>1 DEF Wired
      <3>2. CASE i \notin DOMAIN p.connections \/ j \notin DOMAIN p.connections
        <4>1. i = last \/ j = last
          BY <1>3, <1>9, <3>2
        <4> QED
          BY <1>1, <1>3, <1>9, <2>1, <4>1
      <3> QED
        BY <3>1, <3>2
    <2>2. {q.connections[i].id : i \in DOMAIN q.connections} =
             {q.roles[e].connection : e \in DOMAIN q.roles}
      <3>1. {p.connections[i].id : i \in DOMAIN p.connections} =
               {p.roles[e].connection : e \in DOMAIN p.roles}
        BY <1>a DEF Wired
      <3>2. DOMAIN q.connections = DOMAIN p.connections \cup {last}
        BY <1>3, <1>9
      <3>3. q.connections[last].id = id
        BY <1>1, <1>3, <1>9
      <3>4. DOMAIN q.roles = DOMAIN p.roles \cup {d}
        BY <1>9 DEF Configured
      <3> QED
        <4>1. {q.connections[i].id : i \in DOMAIN q.connections} =
                 {p.connections[i].id : i \in DOMAIN p.connections} \cup {id}
          BY <1>3, <1>9, <3>2, <3>3
        <4>2. {q.roles[e].connection : e \in DOMAIN q.roles} =
                 {p.roles[e].connection : e \in DOMAIN p.roles} \cup {id}
          <5>1. q.roles[d].connection = id
            BY <1>5, <1>9
          <5>2. \A e \in DOMAIN p.roles : q.roles[e] = p.roles[e]
            BY <1>9 DEF Configured
          <5> QED
            BY <3>4, <5>1, <5>2
        <4> QED
          BY <3>1, <4>1, <4>2
    <2>3. ASSUME NEW e \in DOMAIN q.roles, NEW f \in DOMAIN q.roles, e # f,
                 q.roles[e].connection = q.roles[f].connection
          PROVE  \/ q.roles[e].driver = "alicat" /\ q.roles[f].driver = "alicat"
                 \/ q.roles[e].driver \notin Validated /\ q.roles[f].driver \notin Validated
      <3>1. e \in Configured(p) /\ f \in Configured(p)
        <4>1. e \in Configured(p) \cup {d} /\ f \in Configured(p) \cup {d}
          BY <1>9 DEF Configured
        <4>2. e = d => f \in Configured(p)
          BY <2>3, <4>1
        <4>3. f = d => e \in Configured(p)
          BY <2>3, <4>1
        <4>4. q.roles[d].connection = id
          BY <1>5, <1>9
        <4> QED
          BY <1>9, <1>11, <2>3, <4>1, <4>2, <4>3, <4>4
      <3> QED
        BY <1>9, <1>a, <2>3, <3>1 DEF Wired, Configured
    <2> QED
      BY <2>1, <2>2, <2>3 DEF Wired
  <1>13. Fitting(q, d)
    <2>1. ItsLineFits(q, d)
      <3>1. last \in DOMAIN q.connections
            /\ q.connections[last] = line
        BY <1>3, <1>9
      <3>2. \A i \in DOMAIN q.connections :
               q.connections[i].id = id => i = last
        BY <1>1, <1>12, <3>1 DEF Wired
      <3> QED
        <4> SUFFICES ASSUME NEW i \in DOMAIN q.connections,
                            q.connections[i].id = q.roles[d].connection
                     PROVE  q.connections[i].fit = "fit"
          BY Zenon DEF ItsLineFits
        <4>1. q.connections[i].id = id
          BY <1>5, <1>9
        <4> QED
          BY <1>1, <3>1, <3>2, <4>1
    <2>2. Alone(q, d)
      <3> SUFFICES ASSUME NEW e \in Enabled(q), e # d,
                          q.roles[e].connection = q.roles[d].connection
                   PROVE  FALSE
        BY Zenon DEF Alone
      <3>1. e \in Configured(p)
        BY <1>9 DEF Enabled
      <3> QED
        BY <1>5, <1>9, <1>11, <3>1
    <2> QED
      BY <1>c, <1>9, <2>1, <2>2 DEF Fitting
  <1>14. Sound(q)
    BY <1>9, <1>10, <1>12, <1>13, ExtendedIsSound
  <1> QED
    BY <1>4, <1>9, <1>14

(* Devices on a connection that is there, with their like. *)
Join(p, new, id, alike) ==
    /\ \E i \in DOMAIN p.connections : p.connections[i].id = id
    /\ DOMAIN new \subseteq Names
    /\ \A n \in DOMAIN new :
          new[n] \in Roles /\ new[n].connection = id /\ new[n].driver \in alike
    /\ \A e \in Configured(p) : p.roles[e].connection = id => p.roles[e].driver \in alike
    /\ alike \cap Validated = {} \/ alike = {"alicat"}

LEMMA OnALineIsWired ==
  ASSUME NEW p, Sound(p), NEW new, NEW id, NEW alike, Join(p, new, id, alike)
  PROVE  /\ IsProfile(WithRoles(p, new))
         /\ Wired(WithRoles(p, new))
         /\ Extends(p, WithRoles(p, new))
         /\ Configured(WithRoles(p, new)) = Configured(p) \cup DOMAIN new
         /\ \A n \in DOMAIN new \ Configured(p) : WithRoles(p, new).roles[n] = new[n]
  <1> USE DEF Join
  <1>1. IsProfile(p) /\ Wired(p)
    BY DEF Sound
  <1>2. DOMAIN new \subseteq Names /\ \A n \in DOMAIN new : new[n] \in Roles
    OBVIOUS
  <1>3. PICK q : q = WithRoles(p, new)
    OBVIOUS
  <1>4. /\ IsProfile(q) /\ q.connections = p.connections
        /\ Configured(q) = Configured(p) \cup DOMAIN new
        /\ \A e \in Configured(p) : q.roles[e] = p.roles[e]
        /\ \A n \in DOMAIN new \ Configured(p) : q.roles[n] = new[n]
    <2>1. /\ IsProfile(WithRoles(p, new))
          /\ WithRoles(p, new).connections = p.connections
          /\ Configured(WithRoles(p, new)) = Configured(p) \cup DOMAIN new
          /\ \A e \in Configured(p) : WithRoles(p, new).roles[e] = p.roles[e]
          /\ \A n \in DOMAIN new \ Configured(p) : WithRoles(p, new).roles[n] = new[n]
      BY <1>1, <1>2, RolesAdded
    <2> QED
      BY <1>3, <2>1
  <1>5. Extends(p, q)
    BY <1>4 DEF Extends
  <1>6. \A n \in Configured(q) \ Configured(p) :
           q.roles[n].connection = id /\ q.roles[n].driver \in alike
    BY <1>4
  <1>7. {q.roles[e].connection : e \in DOMAIN q.roles} =
           {p.roles[e].connection : e \in DOMAIN p.roles}
    <2>1. PICK c \in Configured(p) : p.roles[c].connection = id
      <3>1. id \in {p.roles[e].connection : e \in DOMAIN p.roles}
        BY <1>1 DEF Wired
      <3> QED
        BY <3>1 DEF Configured
    <2>2. /\ DOMAIN p.roles \subseteq DOMAIN q.roles
          /\ \A e \in DOMAIN p.roles : q.roles[e] = p.roles[e]
          /\ \A e \in DOMAIN q.roles \ DOMAIN p.roles : q.roles[e].connection = id
      BY <1>4, <1>6 DEF Configured
    <2>3. c \in DOMAIN p.roles
      BY <2>1 DEF Configured
    <2> QED
      BY <2>1, <2>2, <2>3
  <1>8. ASSUME NEW e \in DOMAIN q.roles, NEW f \in DOMAIN q.roles, e # f,
               q.roles[e].connection = q.roles[f].connection
        PROVE  \/ q.roles[e].driver = "alicat" /\ q.roles[f].driver = "alicat"
               \/ q.roles[e].driver \notin Validated /\ q.roles[f].driver \notin Validated
    <2>1. CASE e \in Configured(p) /\ f \in Configured(p)
      BY <1>1, <1>4, <1>8, <2>1 DEF Wired, Configured
    <2>2. CASE e \notin Configured(p) \/ f \notin Configured(p)
      <3>1. e \in Configured(q) /\ f \in Configured(q)
        BY DEF Configured
      <3>2. q.roles[e].connection = id /\ q.roles[f].connection = id
        BY <1>6, <1>8, <2>2, <3>1
      <3>3. q.roles[e].driver \in alike /\ q.roles[f].driver \in alike
        BY <1>4, <1>6, <3>1, <3>2
      <3> QED
        BY <3>3
    <2> QED
      BY <2>1, <2>2
  <1>9. Wired(q)
    <2>1. \A i, j \in DOMAIN q.connections : q.connections[i].id = q.connections[j].id => i = j
      BY <1>1, <1>4 DEF Wired
    <2>2. {q.connections[i].id : i \in DOMAIN q.connections} =
             {q.roles[e].connection : e \in DOMAIN q.roles}
      <3>1. {p.connections[i].id : i \in DOMAIN p.connections} =
               {p.roles[e].connection : e \in DOMAIN p.roles}
        BY <1>1 DEF Wired
      <3> QED
        BY <1>4, <1>7, <3>1
    <2> QED
      BY <1>8, <2>1, <2>2, Zenon DEF Wired
  <1> QED
    BY <1>3, <1>4, <1>5, <1>9

(* An instrument on a connection of its own. *)
LEMMA OwnConnectionIsSound ==
  ASSUME NEW p, Sound(p), NEW d \in Names, NEW driver \in Drivers, NEW base \in Bases,
         NEW port \in Ports \cup Hosts, NEW rivals,
         NEW q \in WithOwnConnection(p, d, driver, base, port, rivals)
  PROVE  Sound(q)
  <1>1. PICK id : id = UniqueConnectionId(p, base, port)
    OBVIOUS
  <1>2. p.connections \in Seq(Lines)
    BY ProfileParts DEF Sound
  <1>3. id \in ConnectionIds /\ \A i \in DOMAIN p.connections : p.connections[i].id # id
    BY <1>1, <1>2, NameIsFree
  <1>4. /\ d \notin Configured(p)
        /\ q = WithRole([p EXCEPT !.connections = Append(@, Connection(id, port))],
                        d, driver, id, NoAddress)
    BY <1>1 DEF WithOwnConnection
  <1> QED
    BY <1>3, <1>4, OnItsOwnIsSound

(* An Alicat on a bus, new or found; on one that is found the check before it is saved
   has to see that the connection and the address are right. *)
LEMMA NewAlicatIsSound ==
  ASSUME NEW p, Sound(p), NEW d \in Names, NEW port \in Ports, NEW address \in Addresses,
         NEW q \in WithNewAlicat(p, d, port, address), Accepts(q, d)
  PROVE  Sound(q)
  <1>1. p.connections \in Seq(Lines) /\ IsProfile(p) /\ Wired(p)
    BY ProfileParts DEF Sound
  <1>2. d \notin Configured(p)
    BY DEF WithNewAlicat
  <1>3. "alicat" \in Drivers /\ "alicat" \in Validated /\ "alicat_bus" \in Bases
    BY DEF Drivers, Validated, Bases
  <1>4. CASE Buses(p, port) = {}
    <2>1. PICK id : id = UniqueConnectionId(p, "alicat_bus", port)
      OBVIOUS
    <2>2. id \in ConnectionIds /\ \A i \in DOMAIN p.connections : p.connections[i].id # id
      BY <1>1, <1>3, <2>1, NameIsFree
    <2>3. q = WithRole([p EXCEPT !.connections = Append(@, Connection(id, port))],
                       d, "alicat", id, address)
      BY <1>4, <2>1 DEF WithNewAlicat
    <2> QED
      BY <1>2, <1>3, <2>2, <2>3, OnItsOwnIsSound
  <1>5. CASE Buses(p, port) # {}
    <2>1. DOMAIN p.connections \subseteq Nat
      BY <1>1, LinesInPlace
    <2>2. PICK bus : bus = CHOOSE i \in Buses(p, port) : \A j \in Buses(p, port) : i <= j
      OBVIOUS
    <2>3. bus \in Buses(p, port)
      <3>1. PICK s \in SUBSET Nat : s = Buses(p, port)
        BY <2>1 DEF Buses
      <3>2. \E i \in s : \A j \in s : i <= j
        BY <1>5, <3>1, EarliestExists
      <3> QED
        BY <2>2, <3>1, <3>2
    <2>4. PICK id : id = p.connections[bus].id
      OBVIOUS
    <2>5. bus \in DOMAIN p.connections
          /\ \E e \in Configured(p) : p.roles[e].driver = "alicat" /\ p.roles[e].connection = id
      BY <2>3, <2>4 DEF Buses
    <2>6. id \in ConnectionIds
      BY <1>1, <2>4, <2>5, LinesInPlace, LineParts
    <2>7. \A e \in Configured(p) : p.roles[e].connection = id => p.roles[e].driver \in {"alicat"}
      BY <1>1, <1>3, <2>5 DEF Wired, Configured
    <2>8. PICK new : new = [e \in {d} |-> Role("alicat", id, address)]
      OBVIOUS
    <2>9. /\ DOMAIN new = {d} /\ new[d] \in Roles
          /\ new[d].connection = id /\ new[d].driver \in {"alicat"}
      BY <1>3, <2>6, <2>8, RoleMade
    <2>10. q = WithRoles(p, new)
      BY <1>5, <2>2, <2>4, <2>8 DEF WithNewAlicat, WithRole
    <2>11. /\ IsProfile(WithRoles(p, new)) /\ Wired(WithRoles(p, new))
           /\ Extends(p, WithRoles(p, new))
           /\ Configured(WithRoles(p, new)) = Configured(p) \cup DOMAIN new
           /\ \A n \in DOMAIN new \ Configured(p) : WithRoles(p, new).roles[n] = new[n]
      <3>1. DOMAIN new \subseteq Names
            /\ \A n \in DOMAIN new : new[n] \in Roles /\ new[n].connection = id
        BY <2>9
      <3>2. \A n \in DOMAIN new : new[n].driver \in {"alicat"}
        BY <2>9
      <3>3. \E i \in DOMAIN p.connections : p.connections[i].id = id
        BY <2>4, <2>5
      <3>4. PICK alike : alike = {"alicat"}
        OBVIOUS
      <3>5. /\ \A n \in DOMAIN new : new[n].driver \in alike
            /\ \A e \in Configured(p) : p.roles[e].connection = id => p.roles[e].driver \in alike
            /\ alike \cap Validated = {} \/ alike = {"alicat"}
        BY <2>7, <3>2, <3>4
      <3>6. Join(p, new, id, alike)
        BY <3>1, <3>3, <3>5 DEF Join
      <3> QED
        BY <3>6, OnALineIsWired
    <2>12. /\ IsProfile(q) /\ Wired(q) /\ Extends(p, q)
           /\ Configured(q) = Configured(p) \cup {d} /\ q.roles[d].driver = "alicat"
      BY <1>2, <2>9, <2>10, <2>11
    <2>13. Fitting(q, d)
      BY <1>3, <2>12, AcceptedIsFitting
    <2> QED
      BY <2>12, <2>13, ExtendedIsSound
  <1> QED
    BY <1>4, <1>5

(* The controller, on a connection of its own or the one it has, and sensors on it. *)
LEMMA BoardIsSound ==
  ASSUME NEW p, Sound(p), NEW port \in Ports, NEW chosen \in SUBSET DOMAIN SensorDriver,
         NEW q \in WithBoard(p, port, chosen)
  PROVE  Sound(q)
  <1>1. p.connections \in Seq(Lines) /\ IsProfile(p) /\ Wired(p)
    BY ProfileParts DEF Sound
  <1>2. "esp32_json" \in Drivers /\ "esp32_json" \notin Validated /\ "serial" \in Bases
    BY DEF Drivers, Validated, Supply, Bases
  <1>3. PICK added : added = chosen \ Configured(p)
    OBVIOUS
  <1>4. PICK alike : alike = {driver \in Drivers : driver \notin Validated}
    OBVIOUS
  <1>5. \A s \in added : SensorDriver[s] \in Drivers /\ SensorDriver[s] \in alike /\ s \in Names
    BY <1>3, <1>4, SensorAssumption DEF Drivers, Validated, Supply, Names
  <1>6. ASSUME NEW r, Sound(r), NEW id \in ConnectionIds, Controller \in Configured(r),
               r.roles[Controller].driver = "esp32_json",
               r.roles[Controller].connection = id,
               q = WithRoles(r, [s \in added |-> Role(SensorDriver[s], id, NoAddress)])
        PROVE  Sound(q)
    <2>1. PICK new : new = [s \in added |-> Role(SensorDriver[s], id, NoAddress)]
      OBVIOUS
    <2>2. DOMAIN new = added
      BY <2>1
    <2>3. ASSUME NEW s \in added
          PROVE  /\ new[s] \in Roles /\ new[s].connection = id
                 /\ new[s].driver \in alike
      <3>1. new[s] = Role(SensorDriver[s], id, NoAddress)
        BY <2>1
      <3>2. SensorDriver[s] \in Drivers /\ SensorDriver[s] \in alike
        BY <1>5
      <3> QED
        BY <3>1, <3>2, RoleMade
    <2>4. DOMAIN new \subseteq Names
      BY <1>5, <2>2
    <2>5. IsProfile(r) /\ Wired(r)
      BY <1>6 DEF Sound
    <2>6. \E i \in DOMAIN r.connections : r.connections[i].id = id
      BY <1>6, <2>5, ItsLine
    <2>7. \A e \in Configured(r) : r.roles[e].connection = id => r.roles[e].driver \in alike
      <3>1. \A e \in Configured(r) : r.roles[e].connection = id => r.roles[e].driver \notin Validated
        BY <1>2, <1>6, <2>5 DEF Wired, Configured
      <3>2. \A e \in Configured(r) : r.roles[e].driver \in Drivers
        BY <2>5, ProfileParts, RoleParts
      <3> QED
        BY <1>4, <3>1, <3>2
    <2>8. alike \cap Validated = {}
      BY <1>4
    <2>9. /\ IsProfile(WithRoles(r, new)) /\ Wired(WithRoles(r, new))
          /\ Extends(r, WithRoles(r, new))
          /\ Configured(WithRoles(r, new)) = Configured(r) \cup DOMAIN new
          /\ \A n \in DOMAIN new \ Configured(r) : WithRoles(r, new).roles[n] = new[n]
      <3>1. /\ \A n \in DOMAIN new : new[n] \in Roles /\ new[n].connection = id
            /\ \A n \in DOMAIN new : new[n].driver \in alike
        BY <2>2, <2>3
      <3>2. Sound(r)
        BY <1>6
      <3> QED
        <4>1. Join(r, new, id, alike)
          BY <2>4, <2>6, <2>7, <2>8, <3>1 DEF Join
        <4> QED
          BY <3>2, <4>1, OnALineIsWired
    <2>10. q = WithRoles(r, new)
      BY <1>6, <2>1
    <2>11. /\ IsProfile(q) /\ Wired(q) /\ Extends(r, q)
           /\ \A n \in Configured(q) \ Configured(r) : q.roles[n].driver \in alike
      BY <2>2, <2>3, <2>9, <2>10
    <2>12. \A n \in Configured(q) \ Configured(r) : q.roles[n].driver \notin Validated
      BY <2>8, <2>11
    <2> QED
      BY <1>6, <2>11, <2>12, ExtendedIsSound
  <1>7. CASE Controller \in Configured(p)
    <2>1. PICK id : id = p.roles[Controller].connection
      OBVIOUS
    <2>2. id \in ConnectionIds
      BY <1>1, <1>7, <2>1, ProfileParts, RoleParts
    <2>3. /\ p.roles[Controller].driver = "esp32_json"
          /\ q = WithRoles(p, [s \in added |-> Role(SensorDriver[s], id, NoAddress)])
      BY <1>3, <1>7, <2>1 DEF WithBoard
    <2> QED
      BY <1>6, <1>7, <2>1, <2>2, <2>3
  <1>8. CASE Controller \notin Configured(p)
    <2>1. PICK id : id = UniqueConnectionId(p, "serial", Controller)
      OBVIOUS
    <2>2. id \in ConnectionIds /\ \A i \in DOMAIN p.connections : p.connections[i].id # id
      BY <1>1, <1>2, <2>1, NameIsFree
    <2>3. PICK r : r = WithRole([p EXCEPT !.connections = Append(@, Connection(id, port))],
                                Controller, "esp32_json", id, NoAddress)
      OBVIOUS
    <2>4. q = WithRoles(r, [s \in added |-> Role(SensorDriver[s], id, NoAddress)])
      BY <1>3, <1>8, <2>1, <2>3 DEF WithBoard
    <2>5. /\ Sound(r)
          /\ Configured(r) = Configured(p) \cup {Controller}
          /\ r.roles[Controller] = Role("esp32_json", id, NoAddress)
      <3>1. Controller \in Names
        BY DEF Names
      <3> QED
        BY <1>2, <1>8, <2>2, <2>3, <3>1, OnItsOwnIsSound
    <2>6. r.roles[Controller].driver = "esp32_json" /\ r.roles[Controller].connection = id
      BY <1>2, <2>2, <2>5, RoleMade
    <2> QED
      BY <1>6, <2>2, <2>4, <2>5, <2>6
  <1> QED
    BY <1>7, <1>8

(***************************************************************************)
(* Devices are edited and removed.                                         *)
(***************************************************************************)

LEMMA EditParts ==
  ASSUME NEW p, NEW d, NEW edit \in Edits(p, d)
  PROVE  /\ edit.enabled \in BOOLEAN /\ edit.fit \in BOOLEAN
         /\ edit.address \in Addresses \cup {NoAddress}
         /\ edit.port \in Ports \cup Hosts
         /\ edit.line \in {"fit", "unfit", "unnamed"}
  BY DEF Edits

(* A role and a connection with what was entered. *)
LEMMA RoleEdited ==
  ASSUME NEW role \in Roles, NEW p, NEW d, NEW edit \in Edits(p, d)
  PROVE  /\ EditedRole(role, edit) \in Roles
         /\ EditedRole(role, edit).driver = role.driver
         /\ EditedRole(role, edit).connection = role.connection
  <1>1. PICK a, b, c, t, f :
           role = [driver |-> a, enabled |-> b, connection |-> c, address |-> t, fit |-> f]
    BY Zenon DEF Roles
  <1>2. PICK enabled \in BOOLEAN, fit \in BOOLEAN, address \in Addresses \cup {NoAddress} :
           enabled = edit.enabled /\ fit = edit.fit /\ address = edit.address
    BY EditParts, Zenon
  <1>3. PICK new : new = [role EXCEPT !.enabled = enabled, !.address = address, !.fit = fit]
    OBVIOUS
  <1>4. role.driver = a /\ role.connection = c
    BY <1>1
  <1>5. a \in Drivers /\ c \in ConnectionIds
    BY <1>4, RoleParts
  <1>6. new = [driver |-> a, enabled |-> enabled, connection |-> c, address |-> address,
               fit |-> fit]
    BY <1>1, <1>3
  <1>7. new \in Roles
    BY <1>2, <1>5, <1>6, Zenon DEF Roles
  <1>8. new.driver = a /\ new.connection = c
    BY <1>6
  <1>9. EditedRole(role, edit) = new
    BY <1>2, <1>3, Zenon DEF EditedRole
  <1> QED
    BY <1>4, <1>7, <1>8, <1>9

LEMMA LineEdited ==
  ASSUME NEW line \in Lines, NEW p, NEW d, NEW edit \in Edits(p, d)
  PROVE  /\ EditedConnection(line, edit) \in Lines
         /\ EditedConnection(line, edit).id = line.id
         /\ EditedConnection(line, edit).fit = edit.line
  <1>1. line = [id |-> line.id, port |-> line.port, fit |-> line.fit] /\ line.id \in ConnectionIds
    BY LineParts
  <1>2. PICK a, b, c : line = [id |-> a, port |-> b, fit |-> c] /\ a \in ConnectionIds
    BY <1>1
  <1>3. edit.port \in Ports \cup Hosts /\ edit.line \in {"fit", "unfit", "unnamed"}
    BY EditParts
  <1>4. PICK port, fit : port = edit.port /\ fit = edit.line
    OBVIOUS
  <1>5. PICK new : new = [line EXCEPT !.port = port, !.fit = fit]
    OBVIOUS
  <1>6. new = [id |-> a, port |-> port, fit |-> fit]
    BY <1>2, <1>5
  <1>7. EditedConnection(line, edit) = new
    BY <1>4, <1>5, Zenon DEF EditedConnection
  <1> QED
    BY <1>2, <1>3, <1>4, <1>6, <1>7 DEF Lines

LEMMA RoleEnabled ==
  ASSUME NEW role \in Roles, NEW new, new = [role EXCEPT !.enabled = TRUE]
  PROVE  /\ new \in Roles
         /\ new.driver = role.driver
         /\ new.connection = role.connection
         /\ new.address = role.address
         /\ new.enabled
         /\ new.fit = role.fit
  <1>1. PICK a, b, c, t, f :
           role = [driver |-> a, enabled |-> b, connection |-> c, address |-> t, fit |-> f]
    BY Zenon DEF Roles
  <1>2. new = [driver |-> a, enabled |-> TRUE, connection |-> c, address |-> t, fit |-> f]
    BY <1>1
  <1>3. role.driver = a /\ role.connection = c /\ role.address = t
    BY <1>1
  <1>6. role.fit = f
    BY <1>1, Zenon
  <1>4. a \in Drivers /\ c \in ConnectionIds /\ t \in Addresses \cup {NoAddress} 
    BY <1>3, RoleParts
  <1>7. f \in BOOLEAN
    BY <1>6, RoleParts, Zenon
  <1>5. new \in Roles
    BY <1>2, <1>4, <1>7, Zenon DEF Roles
  <1>8. new.fit = f /\ new.enabled = TRUE
    BY <1>2
  <1>9. new.driver = a /\ new.connection = c /\ new.address = t
    BY <1>2
  <1> QED
    BY <1>3, <1>5, <1>6, <1>8, <1>9, Zenon

(* What an edit of a device leaves: who there is, and who is on which connection. *)
LEMMA EditedMade ==
  ASSUME NEW p, IsProfile(p), NEW d \in Configured(p), NEW edit \in Edits(p, d),
         NEW q, q = Edited(p, d, edit)
  PROVE  /\ IsProfile(q)
         /\ Configured(q) = Configured(p)
         /\ \A e \in Configured(p) : /\ q.roles[e].driver = p.roles[e].driver
                                     /\ q.roles[e].connection = p.roles[e].connection
                                     /\ e # d => q.roles[e] = p.roles[e]
         /\ DOMAIN q.connections = DOMAIN p.connections
         /\ \A i \in DOMAIN p.connections :
               /\ q.connections[i].id = p.connections[i].id
               /\ q.connections[i].fit =
                     IF p.connections[i].id = p.roles[d].connection THEN edit.line
                                                                    ELSE p.connections[i].fit
  <1>1. /\ p.connections \in Seq(Lines) /\ p.details \in Details /\ Configured(p) \subseteq Names
        /\ p.roles \in [Configured(p) -> Roles]
        /\ p = [roles |-> p.roles, connections |-> p.connections, details |-> p.details]
    BY ProfileParts
  <1>2. PICK r, c, t : /\ p = [roles |-> r, connections |-> c, details |-> t]
                       /\ r = p.roles /\ c = p.connections /\ t = p.details
    BY <1>1
  <1>3. PICK id : id = r[d].connection
    OBVIOUS
  <1>4. PICK role : role = EditedRole(r[d], edit)
    OBVIOUS
  <1>5. role \in Roles /\ role.driver = r[d].driver /\ role.connection = r[d].connection
    <2>1. r[d] \in Roles
      BY <1>1, <1>2
    <2> QED
      BY <1>4, <2>1, RoleEdited
  <1>6. PICK roles : roles = [r EXCEPT ![d] = role]
    OBVIOUS
  <1>7. PICK lines : lines = [i \in DOMAIN c |->
                                 IF c[i].id = id
                                 THEN EditedConnection(c[i], edit)
                                 ELSE c[i]]
    OBVIOUS
  <1>8. q = [roles |-> roles, connections |-> lines, details |-> t]
    BY <1>2, <1>3, <1>4, <1>6, <1>7 DEF Edited
  <1>9. /\ roles \in [Configured(p) -> Roles] /\ roles[d] = role
        /\ \A e \in Configured(p) : e # d => roles[e] = r[e]
    BY <1>1, <1>2, <1>5, <1>6
  <1>10. c \in Seq(Lines) /\ DOMAIN c = 1 .. Len(c) /\ Len(c) \in Nat
    BY <1>1, <1>2, LinesInPlace
  <1>11. ASSUME NEW i \in DOMAIN c
         PROVE  /\ lines[i] \in Lines /\ lines[i].id = c[i].id
                /\ lines[i].fit = IF c[i].id = id THEN edit.line ELSE c[i].fit
    <2>1. c[i] \in Lines
      BY <1>10, LinesInPlace
    <2>2. CASE c[i].id = id
      <3>1. lines[i] = EditedConnection(c[i], edit)
        BY <1>7, <2>2
      <3> QED
        BY <2>1, <2>2, <3>1, LineEdited
    <2>3. CASE c[i].id # id
      BY <1>7, <2>1, <2>3
    <2> QED
      BY <2>2, <2>3
  <1>12. lines \in Seq(Lines) /\ DOMAIN lines = DOMAIN c
    <2>1. PICK n \in Nat : n = Len(c)
      BY <1>10
    <2>2. lines \in [1 .. n -> Lines]
      BY <1>7, <1>10, <1>11, <2>1
    <2> QED
      BY <1>10, <2>1, <2>2, SeqDef
  <1>13. IsProfile(q)
    BY <1>1, <1>2, <1>8, <1>9, <1>12, ProfileMade
  <1>14. q.roles = roles /\ q.connections = lines
    BY <1>8
  <1>15. Configured(q) = Configured(p)
    BY <1>9, <1>14 DEF Configured
  <1>16. ASSUME NEW e \in Configured(p)
         PROVE  /\ q.roles[e].driver = p.roles[e].driver
                /\ q.roles[e].connection = p.roles[e].connection
                /\ e # d => q.roles[e] = p.roles[e]
    BY <1>2, <1>5, <1>9, <1>14
  <1>17. \A i \in DOMAIN p.connections :
               /\ q.connections[i].id = p.connections[i].id
               /\ q.connections[i].fit =
                     IF p.connections[i].id = p.roles[d].connection THEN edit.line
                                                                    ELSE p.connections[i].fit
    BY <1>2, <1>3, <1>11, <1>14
  <1> QED
    BY <1>2, <1>12, <1>13, <1>14, <1>15, <1>16, <1>17

(* A profile with a device enabled. *)
LEMMA EnabledMade ==
  ASSUME NEW q, IsProfile(q), NEW d \in Configured(q),
         NEW r, r = AsIfEnabled(q, d)
  PROVE  /\ IsProfile(r)
         /\ r.connections = q.connections
         /\ Configured(r) = Configured(q)
         /\ \A e \in Configured(q) : e # d => r.roles[e] = q.roles[e]
         /\ r.roles[d].driver = q.roles[d].driver
         /\ r.roles[d].connection = q.roles[d].connection
         /\ r.roles[d].address = q.roles[d].address
         /\ r.roles[d].fit = q.roles[d].fit
         /\ r.roles[d].enabled
  <1>1. /\ q.connections \in Seq(Lines) /\ q.details \in Details /\ Configured(q) \subseteq Names
        /\ q.roles \in [Configured(q) -> Roles]
        /\ q = [roles |-> q.roles, connections |-> q.connections, details |-> q.details]
    BY ProfileParts
  <1>2. PICK s, c, t : /\ q = [roles |-> s, connections |-> c, details |-> t]
                       /\ s = q.roles /\ c = q.connections /\ t = q.details
    BY <1>1
  <1>3. PICK role \in Roles : role = s[d]
    BY <1>1, <1>2
  <1>4. PICK new : new = [role EXCEPT !.enabled = TRUE]
    OBVIOUS
  <1>5. /\ new \in Roles /\ new.driver = role.driver /\ new.connection = role.connection
        /\ new.address = role.address /\ new.enabled /\ new.fit = role.fit
    BY <1>3, <1>4, RoleEnabled
  <1>6. PICK roles : roles = [s EXCEPT ![d] = new]
    OBVIOUS
  <1>7. r = [roles |-> roles, connections |-> c, details |-> t]
    BY <1>2, <1>3, <1>4, <1>6 DEF AsIfEnabled
  <1>8. /\ roles \in [Configured(q) -> Roles] /\ roles[d] = new
        /\ \A e \in Configured(q) : e # d => roles[e] = s[e]
    BY <1>1, <1>2, <1>5, <1>6
  <1>9. IsProfile(r)
    <2>1. c \in Seq(Lines) /\ t \in Details /\ Configured(q) \subseteq Names
      BY <1>1, <1>2
    <2> QED
      BY <1>7, <1>8, <2>1, ProfileMade
  <1>10. r.roles = roles /\ r.connections = c
    BY <1>7
  <1>11. Configured(r) = Configured(q)
    BY <1>8, <1>10 DEF Configured
  <1>12. r.roles[d] = new /\ q.roles[d] = role
    BY <1>2, <1>3, <1>8, <1>10
  <1>13. r.roles[d].fit = q.roles[d].fit /\ r.roles[d].enabled
    BY <1>5, <1>12, Zenon
  <1>14. \A e \in Configured(q) : e # d => r.roles[e] = q.roles[e]
    BY <1>2, <1>8, <1>10
  <1>15. r.roles[d].driver = q.roles[d].driver /\ r.roles[d].connection = q.roles[d].connection
         /\ r.roles[d].address = q.roles[d].address
    BY <1>5, <1>12
  <1> QED
    BY <1>2, <1>9, <1>10, <1>11, <1>13, <1>14, <1>15, Zenon

(* Who is on which connection, and what drives it. *)
SameWiring(p, q) ==
    /\ Configured(q) = Configured(p)
    /\ \A e \in Configured(p) : /\ q.roles[e].driver = p.roles[e].driver
                                /\ q.roles[e].connection = p.roles[e].connection
    /\ DOMAIN q.connections = DOMAIN p.connections
    /\ \A i \in DOMAIN p.connections : q.connections[i].id = p.connections[i].id

LEMMA WiringStays ==
  ASSUME NEW p, Wired(p), NEW q, SameWiring(p, q)
  PROVE  Wired(q)
  <1>1. \A i, j \in DOMAIN q.connections : q.connections[i].id = q.connections[j].id => i = j
    BY DEF Wired, SameWiring
  <1>2. {q.connections[i].id : i \in DOMAIN q.connections} =
           {q.roles[e].connection : e \in DOMAIN q.roles}
    <2>1. {p.connections[i].id : i \in DOMAIN p.connections} =
             {p.roles[e].connection : e \in DOMAIN p.roles}
      BY DEF Wired
    <2>2. {q.connections[i].id : i \in DOMAIN q.connections} =
             {p.connections[i].id : i \in DOMAIN p.connections}
      BY DEF SameWiring
    <2>3. {q.roles[e].connection : e \in DOMAIN q.roles} =
             {p.roles[e].connection : e \in DOMAIN p.roles}
      BY DEF SameWiring, Configured
    <2> QED
      BY <2>1, <2>2, <2>3
  <1>3. \A e, f \in DOMAIN q.roles :
           e # f /\ q.roles[e].connection = q.roles[f].connection =>
              \/ q.roles[e].driver = "alicat" /\ q.roles[f].driver = "alicat"
              \/ q.roles[e].driver \notin Validated /\ q.roles[f].driver \notin Validated
    BY DEF Wired, SameWiring, Configured
  <1> QED
    BY <1>1, <1>2, <1>3, Zenon DEF Wired

(* The device that was edited is as it was entered, which was validated; those who share
   its connection are Alicats as it is, and it was compared with them. *)
LEMMA EditedIsSound ==
  ASSUME NEW p, Sound(p), NEW d \in Configured(p), NEW edit \in Edits(p, d),
         NEW q, q = Edited(p, d, edit), Validates(q, d)
  PROVE  Sound(q)
  <1>1. IsProfile(p) /\ Wired(p)
    BY DEF Sound
  <1>2. /\ IsProfile(q) /\ SameWiring(p, q)
        /\ \A e \in Configured(p) : e # d => q.roles[e] = p.roles[e]
        /\ \A i \in DOMAIN p.connections :
              p.connections[i].id # p.roles[d].connection =>
                 q.connections[i].fit = p.connections[i].fit
    BY <1>1, EditedMade DEF SameWiring
  <1>3. Wired(q) /\ Configured(q) = Configured(p)
    BY <1>1, <1>2, WiringStays DEF SameWiring
  <1>4. PICK r : r = AsIfEnabled(q, d)
    OBVIOUS
  <1>5. /\ IsProfile(r)
        /\ r.connections = q.connections
        /\ Configured(r) = Configured(q)
        /\ \A e \in Configured(q) : e # d => r.roles[e] = q.roles[e]
        /\ r.roles[d].driver = q.roles[d].driver
        /\ r.roles[d].connection = q.roles[d].connection
        /\ r.roles[d].address = q.roles[d].address
    BY <1>2, <1>3, <1>4, EnabledMade
  <1>6. r.roles[d].fit = q.roles[d].fit /\ r.roles[d].enabled
    <2>1. d \in Configured(q) /\ IsProfile(q)
      BY <1>2, <1>3
    <2>2. r.roles[d].fit = q.roles[d].fit
      BY <1>4, <2>1, EnabledMade
    <2>3. r.roles[d].enabled
      BY <1>4, <2>1, EnabledMade
    <2> QED
      BY <2>2, <2>3
  <1>7. Wired(r)
    <2>1. SameWiring(q, r)
      BY <1>3, <1>5 DEF SameWiring
    <2> QED
      BY <1>3, <2>1, WiringStays
  <1>8. ASSUME q.roles[d].driver \in Validated
        PROVE  q.roles[d].fit /\ ItsLineFits(q, d) /\ (q.roles[d].driver = "alicat" => Alone(r, d))
    <2>1. Accepts(r, d)
      BY <1>4, <1>8 DEF Validates
    <2>2. Fitting(r, d)
      BY <1>3, <1>5, <1>7, <1>8, <2>1, AcceptedIsFitting
    <2>3. r.roles[d].fit /\ ItsLineFits(r, d) /\ (r.roles[d].driver = "alicat" => Alone(r, d))
      BY <2>2, Zenon DEF Fitting
    <2>4. ItsLineFits(q, d)
      BY <1>5, <2>3 DEF ItsLineFits
    <2>5. q.roles[d].fit
      BY <1>6, <2>3, Zenon
    <2>6. q.roles[d].driver = "alicat" => Alone(r, d)
      BY <1>5, <2>3
    <2> QED
      BY <2>4, <2>5, <2>6
  <1>9. ASSUME NEW e \in Enabled(q), q.roles[e].driver \in Validated, e # d
        PROVE  Fitting(q, e)
    <2>1. e \in Configured(p) /\ q.roles[e] = p.roles[e] /\ e \in Enabled(p)
      BY <1>2, <1>3, <1>9 DEF Enabled
    <2>2. Fitting(p, e)
      BY <1>9, <2>1 DEF Sound
    <2>3. p.roles[e].fit /\ ItsLineFits(p, e) /\ (p.roles[e].driver = "alicat" => Alone(p, e))
      BY <2>2, Zenon DEF Fitting
    <2>4. q.roles[e].fit
      BY <2>1, <2>3, Zenon
    <2>5. ASSUME q.roles[e].connection = q.roles[d].connection
          PROVE  q.roles[e].driver = "alicat" /\ q.roles[d].driver = "alicat"
      BY <1>3, <1>9, <2>1, <2>5 DEF Wired, Configured
    <2>6. ItsLineFits(q, e)
      <3>1. CASE q.roles[e].connection = q.roles[d].connection
        <4>1. ItsLineFits(q, d)
          BY <1>8, <2>5, <3>1 DEF Validated
        <4> QED
          BY <3>1, <4>1 DEF ItsLineFits
      <3>2. CASE q.roles[e].connection # q.roles[d].connection
        <4> SUFFICES ASSUME NEW i \in DOMAIN q.connections,
                            q.connections[i].id = q.roles[e].connection
                     PROVE  q.connections[i].fit = "fit"
          BY Zenon DEF ItsLineFits
        <4>1. i \in DOMAIN p.connections /\ p.connections[i].id = p.roles[e].connection
          BY <1>2, <2>1 DEF SameWiring
        <4>2. p.connections[i].id # p.roles[d].connection
          BY <1>2, <2>1, <3>2, <4>1 DEF SameWiring
        <4>3. p.connections[i].fit = "fit"
          BY <2>3, <4>1 DEF ItsLineFits
        <4> QED
          BY <1>2, <4>1, <4>2, <4>3
      <3> QED
        BY <3>1, <3>2
    <2>7. ASSUME q.roles[e].driver = "alicat" PROVE Alone(q, e)
      <3> SUFFICES ASSUME NEW f \in Enabled(q), f # e,
                          q.roles[f].driver = "alicat",
                          q.roles[f].connection = q.roles[e].connection,
                          q.roles[f].address = q.roles[e].address
                   PROVE  FALSE
        BY DEF Alone
      <3>1. CASE f = d
        <4>1. Alone(r, d)
          BY <1>8, <3>1 DEF Validated
        <4>2. e \in Enabled(r) /\ r.roles[e] = q.roles[e]
          BY <1>3, <1>5, <1>9, <2>1 DEF Enabled
        <4> QED
          BY <1>5, <1>9, <2>7, <3>1, <4>1, <4>2 DEF Alone
      <3>2. CASE f # d
        <4>1. f \in Configured(p) /\ q.roles[f] = p.roles[f] /\ f \in Enabled(p)
          BY <1>2, <1>3, <3>2 DEF Enabled
        <4>2. Alone(p, e)
          BY <2>1, <2>3, <2>7
        <4> QED
          BY <2>1, <4>1, <4>2 DEF Alone
      <3> QED
        BY <3>1, <3>2
    <2> QED
      BY <2>4, <2>6, <2>7, Zenon DEF Fitting
  <1>10. ASSUME d \in Enabled(q), q.roles[d].driver \in Validated
         PROVE  Fitting(q, d)
    <2>1. q.roles[d].driver = "alicat" => Alone(q, d)
      <3> SUFFICES ASSUME q.roles[d].driver = "alicat",
                          NEW f \in Enabled(q), f # d,
                          q.roles[f].driver = "alicat",
                          q.roles[f].connection = q.roles[d].connection,
                          q.roles[f].address = q.roles[d].address
                   PROVE  FALSE
        BY DEF Alone
      <3>1. f \in Enabled(r) /\ r.roles[f] = q.roles[f]
        BY <1>3, <1>5 DEF Enabled
      <3>2. Alone(r, d)
        BY <1>8, <1>10
      <3> QED
        BY <1>5, <3>1, <3>2 DEF Alone
    <2> QED
      BY <1>8, <1>10, <2>1, Zenon DEF Fitting
  <1> QED
    BY <1>2, <1>3, <1>9, <1>10, Zenon DEF Sound

(* A connection is taken out of a list. *)
Shortened(s, place) == SubSeq(s, 1, place - 1) \o SubSeq(s, place + 1, Len(s))

(* The others are left, each once. *)
OthersLeft(s, place, t) ==
    \E old :
        /\ \A i \in DOMAIN t : old[i] \in DOMAIN s \ {place} /\ t[i] = s[old[i]]
        /\ \A i, j \in DOMAIN t : old[i] = old[j] => i = j
        /\ \A k \in DOMAIN s \ {place} : \E i \in DOMAIN t : old[i] = k

LEMMA LineRemoved ==
  ASSUME NEW s \in Seq(Lines), NEW place \in DOMAIN s, NEW t, t = Shortened(s, place)
  PROVE  /\ t \in Seq(Lines)
         /\ OthersLeft(s, place, t)
  <1>1. PICK n \in Nat : n = Len(s) /\ DOMAIN s = 1 .. n /\ \A i \in 1 .. n : s[i] \in Lines
    BY LinesInPlace
  <1>2. place \in Nat /\ 1 <= place /\ place <= n
    BY <1>1
  <1>3. PICK u, v : u = SubSeq(s, 1, place - 1) /\ v = SubSeq(s, place + 1, n)
    OBVIOUS
  <1>4. /\ u \in Seq(Lines) /\ Len(u) = place - 1
        /\ \A i \in 1 .. place - 1 : u[i] = s[i]
    <2>1. 1 \in Int /\ place - 1 \in Int /\ \A i \in 1 .. (place - 1) : s[i] \in Lines
      BY <1>1, <1>2
    <2>2. /\ SubSeq(s, 1, place - 1) \in Seq(Lines)
          /\ Len(SubSeq(s, 1, place - 1)) = IF 1 <= place - 1 THEN place - 1 - 1 + 1 ELSE 0
          /\ \A i \in 1 .. place - 1 - 1 + 1 : SubSeq(s, 1, place - 1)[i] = s[1 + i - 1]
      BY <2>1, SubSeqProperties
    <2> QED
      BY <1>2, <1>3, <2>2
  <1>5. /\ v \in Seq(Lines) /\ Len(v) = n - place
        /\ \A i \in 1 .. n - place : v[i] = s[place + i]
    <2>1. place + 1 \in Int /\ n \in Int /\ \A i \in (place + 1) .. n : s[i] \in Lines
      BY <1>1, <1>2
    <2>2. /\ SubSeq(s, place + 1, n) \in Seq(Lines)
          /\ Len(SubSeq(s, place + 1, n)) = IF place + 1 <= n THEN n - (place + 1) + 1 ELSE 0
          /\ \A i \in 1 .. n - (place + 1) + 1 : SubSeq(s, place + 1, n)[i] = s[place + 1 + i - 1]
      BY <2>1, SubSeqProperties
    <2>3. \A i \in 1 .. n - place :
             i \in 1 .. n - (place + 1) + 1 /\ place + 1 + i - 1 = place + i
      BY <1>2
    <2>4. \A i \in 1 .. n - place : v[i] = s[place + i]
      BY <1>3, <2>2, <2>3
    <2> QED
      BY <1>2, <1>3, <2>2, <2>4
  <1>6. /\ t \in Seq(Lines) /\ Len(t) = n - 1
        /\ \A i \in 1 .. n - 1 : t[i] = IF i <= place - 1 THEN u[i] ELSE v[i - (place - 1)]
    <2>1. t = u \o v
      BY <1>1, <1>3 DEF Shortened
    <2>2. /\ u \o v \in Seq(Lines) /\ Len(u \o v) = Len(u) + Len(v)
          /\ \A i \in 1 .. Len(u) + Len(v) : (u \o v)[i] = IF i <= Len(u) THEN u[i] ELSE v[i - Len(u)]
      BY <1>4, <1>5, ConcatProperties
    <2>3. Len(u) + Len(v) = n - 1
      BY <1>2, <1>4, <1>5
    <2> QED
      BY <1>4, <2>1, <2>2, <2>3
  <1>7. DOMAIN t = 1 .. n - 1
    BY <1>6, LinesInPlace
  <1>8. PICK old : old = [i \in 1 .. n - 1 |-> IF i <= place - 1 THEN i ELSE i + 1]
    OBVIOUS
  <1>9. ASSUME NEW i \in 1 .. n - 1
        PROVE  old[i] \in 1 .. n /\ old[i] # place /\ t[i] = s[old[i]]
    <2>1. CASE i <= place - 1
      <3>1. old[i] = i /\ t[i] = u[i] /\ u[i] = s[i]
        BY <1>2, <1>9, <1>4, <1>6, <1>8, <2>1
      <3> QED
        BY <1>2, <1>9, <2>1, <3>1
    <2>2. CASE ~(i <= place - 1)
      <3>1. PICK m \in Nat : i = m + (place - 1) /\ m \in 1 .. n - place /\ place + m = i + 1
        <4>1. i - (place - 1) \in Nat /\ i - (place - 1) \in 1 .. n - place
              /\ i = (i - (place - 1)) + (place - 1) /\ place + (i - (place - 1)) = i + 1
          BY <1>2, <1>9, <2>2
        <4> QED
          BY <4>1
      <3>2. i - (place - 1) = m
        BY <1>2, <3>1
      <3>3. t[i] = v[m]
        BY <1>6, <1>9, <2>2, <3>2
      <3>4. v[m] = s[i + 1]
        BY <1>5, <3>1
      <3>5. old[i] = i + 1
        BY <1>8, <1>9, <2>2
      <3>6. i + 1 \in 1 .. n /\ i + 1 # place
        BY <1>2, <1>9, <2>2
      <3>7. t[i] = s[i + 1]
        BY <3>3, <3>4
      <3> QED
        BY <3>5, <3>6, <3>7, Zenon
    <2> QED
      BY <2>1, <2>2
  <1>10. \A i, j \in 1 .. n - 1 : old[i] = old[j] => i = j
    BY <1>2, <1>8
  <1>11. ASSUME NEW k \in 1 .. n, k # place PROVE \E i \in 1 .. n - 1 : old[i] = k
    <2>1. CASE k < place
      <3>1. k \in 1 .. n - 1 /\ old[k] = k
        BY <1>2, <1>8, <2>1
      <3> QED
        BY <3>1
    <2>2. CASE k > place
      <3>1. k - 1 \in 1 .. n - 1 /\ old[k - 1] = k
        BY <1>2, <1>8, <2>2
      <3> QED
        BY <3>1
    <2> QED
      BY <1>2, <1>11, <2>1, <2>2
  <1>12. \A i \in DOMAIN t : old[i] \in DOMAIN s \ {place} /\ t[i] = s[old[i]]
    BY <1>1, <1>7, <1>9
  <1>13. \A k \in DOMAIN s \ {place} : \E i \in DOMAIN t : old[i] = k
    BY <1>1, <1>7, <1>11
  <1>14. \A i, j \in DOMAIN t : old[i] = old[j] => i = j
    BY <1>7, <1>10
  <1> QED
    BY <1>6, <1>12, <1>13, <1>14, Zenon DEF OthersLeft

(* What is left when a device is removed. *)
LEMMA RemovedMade ==
  ASSUME NEW p, IsProfile(p), Wired(p), NEW d \in Configured(p), NEW q, q = Without(p, d)
  PROVE  /\ IsProfile(q)
         /\ Configured(q) = Configured(p) \ {d}
         /\ \A e \in Configured(q) : q.roles[e] = p.roles[e]
         /\ \E old :
               /\ \A i \in DOMAIN q.connections :
                     old[i] \in DOMAIN p.connections /\ q.connections[i] = p.connections[old[i]]
               /\ \A i, j \in DOMAIN q.connections : old[i] = old[j] => i = j
               /\ \A k \in DOMAIN p.connections :
                     (\E i \in DOMAIN q.connections : old[i] = k) <=>
                     \E e \in Configured(q) : p.roles[e].connection = p.connections[k].id
  <1>1. /\ p.connections \in Seq(Lines) /\ p.details \in Details /\ Configured(p) \subseteq Names
        /\ p.roles \in [Configured(p) -> Roles]
        /\ p = [roles |-> p.roles, connections |-> p.connections, details |-> p.details]
    BY ProfileParts
  <1>2. PICK r, c, t : /\ p = [roles |-> r, connections |-> c, details |-> t]
                       /\ r = p.roles /\ c = p.connections /\ t = p.details
    BY <1>1
  <1>3. PICK remaining : remaining = Configured(p) \ {d}
    OBVIOUS
  <1>4. PICK roles : roles = [e \in remaining |-> p.roles[e]]
    OBVIOUS
  <1>5. PICK id : id = p.roles[d].connection
    OBVIOUS
  <1>6. PICK place :
           place = CHOOSE i \in DOMAIN p.connections : p.connections[i].id = p.roles[d].connection
    OBVIOUS
  <1>7. place \in DOMAIN c /\ c[place].id = id
    <2>1. \E i \in DOMAIN p.connections : p.connections[i].id = p.roles[d].connection
      BY ItsLine
    <2>2. place \in DOMAIN p.connections /\ p.connections[place].id = p.roles[d].connection
      BY <1>6, <2>1, Zenon
    <2> QED
      BY <1>2, <1>5, <2>2
  <1>8. PICK lines :
           lines = IF \E e \in Configured(p) \ {d} : p.roles[e].connection = p.roles[d].connection
                   THEN p.connections
                   ELSE Shortened(p.connections, place)
    OBVIOUS
  <1>9. q = [roles |-> roles, connections |-> lines, details |-> t]
    <2>1. q = [p EXCEPT !.roles = roles, !.connections = lines]
      BY <1>3, <1>4, <1>6, <1>8 DEF Without, Shortened
    <2> QED
      BY <1>2, <2>1
  <1>10. q.roles = roles /\ q.connections = lines
    BY <1>9
  <1>11. /\ roles \in [remaining -> Roles] /\ remaining \subseteq Names
         /\ \A e \in remaining : roles[e] = r[e]
    BY <1>1, <1>2, <1>3, <1>4
  <1>12. Configured(q) = remaining /\ \A e \in Configured(q) : q.roles[e] = p.roles[e]
    BY <1>2, <1>10, <1>11 DEF Configured
  <1>13. \A k \in DOMAIN c : \E e \in Configured(p) : r[e].connection = c[k].id
    <2>1. {p.connections[i].id : i \in DOMAIN p.connections} =
             {p.roles[e].connection : e \in DOMAIN p.roles}
      BY DEF Wired
    <2>2. \A k \in DOMAIN p.connections :
             \E e \in DOMAIN p.roles : p.roles[e].connection = p.connections[k].id
      BY <2>1
    <2> QED
      BY <1>2, <2>2 DEF Configured
  <1>14. \A k \in DOMAIN c : k # place => c[k].id # id
    BY <1>2, <1>7 DEF Wired
  <1>15. CASE \E e \in remaining : r[e].connection = id
    <2>1. lines = c /\ c \in Seq(Lines)
      BY <1>1, <1>2, <1>3, <1>5, <1>8, <1>15
    <2>2. PICK old : old = [i \in DOMAIN c |-> i]
      OBVIOUS
    <2>3. ASSUME NEW k \in DOMAIN c
          PROVE  \E e \in remaining : r[e].connection = c[k].id
      BY <1>2, <1>3, <1>5, <1>13, <1>15, <2>3
    <2>4. IsProfile(q)
      BY <1>1, <1>2, <1>9, <1>11, <2>1, ProfileMade
    <2> QED
      BY <1>2, <1>3, <1>10, <1>12, <2>1, <2>2, <2>3, <2>4
  <1>16. CASE ~\E e \in remaining : r[e].connection = id
    <2>1. c \in Seq(Lines) /\ lines = Shortened(c, place)
      BY <1>1, <1>2, <1>3, <1>5, <1>8, <1>16
    <2>2. lines \in Seq(Lines) /\ OthersLeft(c, place, lines)
      BY <1>7, <2>1, LineRemoved
    <2>3. PICK old :
             /\ \A i \in DOMAIN lines : old[i] \in DOMAIN c \ {place} /\ lines[i] = c[old[i]]
             /\ \A i, j \in DOMAIN lines : old[i] = old[j] => i = j
             /\ \A k \in DOMAIN c \ {place} : \E i \in DOMAIN lines : old[i] = k
      BY <2>2, Zenon DEF OthersLeft
    <2>4. ASSUME NEW k \in DOMAIN c
          PROVE  (\E i \in DOMAIN lines : old[i] = k) <=>
                 \E e \in remaining : r[e].connection = c[k].id
      <3>1. CASE k = place
        BY <1>7, <1>16, <2>3, <3>1
      <3>2. CASE k # place
        <4>1. c[k].id # id
          BY <1>14, <2>4, <3>2
        <4>2. \E e \in remaining : r[e].connection = c[k].id
          BY <1>2, <1>3, <1>5, <1>13, <2>4, <4>1
        <4> QED
          BY <2>3, <2>4, <3>2, <4>2
      <3> QED
        BY <3>1, <3>2
    <2>5. IsProfile(q)
      BY <1>1, <1>2, <1>9, <1>11, <2>2, ProfileMade
    <2> QED
      BY <1>2, <1>3, <1>10, <1>12, <2>3, <2>4, <2>5
  <1> QED
    BY <1>15, <1>16

(* Nobody who is left loses the connection, and none is left behind. *)
LEMMA RemovedIsSound ==
  ASSUME NEW p, Sound(p), NEW d \in Configured(p)
  PROVE  Sound(Without(p, d))
  <1>1. IsProfile(p) /\ Wired(p)
    BY DEF Sound
  <1>2. PICK q : q = Without(p, d)
    OBVIOUS
  <1>3. /\ IsProfile(q)
        /\ Configured(q) = Configured(p) \ {d}
        /\ \A e \in Configured(q) : q.roles[e] = p.roles[e]
    BY <1>1, <1>2, RemovedMade
  <1>4. PICK old :
           /\ \A i \in DOMAIN q.connections :
                 old[i] \in DOMAIN p.connections /\ q.connections[i] = p.connections[old[i]]
           /\ \A i, j \in DOMAIN q.connections : old[i] = old[j] => i = j
           /\ \A k \in DOMAIN p.connections :
                 (\E i \in DOMAIN q.connections : old[i] = k) <=>
                 \E e \in Configured(q) : p.roles[e].connection = p.connections[k].id
    BY <1>1, <1>2, RemovedMade
  <1>5. Wired(q)
    <2>1. ASSUME NEW i \in DOMAIN q.connections, NEW j \in DOMAIN q.connections,
                 q.connections[i].id = q.connections[j].id
          PROVE  i = j
      <3>1. old[i] \in DOMAIN p.connections /\ old[j] \in DOMAIN p.connections
            /\ p.connections[old[i]].id = p.connections[old[j]].id
        BY <1>4, <2>1
      <3>2. old[i] = old[j]
        BY <1>1, <3>1 DEF Wired
      <3> QED
        BY <1>4, <2>1, <3>2
    <2>2. ASSUME NEW i \in DOMAIN q.connections
          PROVE  \E e \in DOMAIN q.roles : q.roles[e].connection = q.connections[i].id
      <3>1. old[i] \in DOMAIN p.connections /\ q.connections[i] = p.connections[old[i]]
        BY <1>4, <2>2
      <3>2. \E e \in Configured(q) : p.roles[e].connection = p.connections[old[i]].id
        BY <1>4, <2>2, <3>1
      <3> QED
        BY <1>3, <3>1, <3>2 DEF Configured
    <2>3. ASSUME NEW e \in DOMAIN q.roles
          PROVE  \E i \in DOMAIN q.connections : q.connections[i].id = q.roles[e].connection
      <3>1. e \in Configured(q) /\ e \in Configured(p) /\ q.roles[e] = p.roles[e]
        BY <1>3, <2>3 DEF Configured
      <3>2. PICK k \in DOMAIN p.connections : p.connections[k].id = p.roles[e].connection
        BY <1>1, <3>1, ItsLine
      <3>3. PICK i \in DOMAIN q.connections : old[i] = k
        BY <1>4, <3>1, <3>2
      <3> QED
        BY <1>4, <3>1, <3>2, <3>3
    <2>4. {q.connections[i].id : i \in DOMAIN q.connections} =
             {q.roles[e].connection : e \in DOMAIN q.roles}
      BY <2>2, <2>3
    <2>5. \A e, f \in DOMAIN q.roles :
             e # f /\ q.roles[e].connection = q.roles[f].connection =>
                \/ q.roles[e].driver = "alicat" /\ q.roles[f].driver = "alicat"
                \/ q.roles[e].driver \notin Validated /\ q.roles[f].driver \notin Validated
      BY <1>1, <1>3 DEF Wired, Configured
    <2> QED
      BY <2>1, <2>4, <2>5, Zenon DEF Wired
  <1>6. ASSUME NEW e \in Enabled(q), q.roles[e].driver \in Validated
        PROVE  Fitting(q, e)
    <2>1. e \in Configured(q) /\ e \in Enabled(p) /\ q.roles[e] = p.roles[e]
      BY <1>3, <1>6 DEF Enabled
    <2>2. Fitting(p, e)
      BY <1>6, <2>1 DEF Sound
    <2>3. p.roles[e].fit /\ ItsLineFits(p, e) /\ (p.roles[e].driver = "alicat" => Alone(p, e))
      BY <2>2, Zenon DEF Fitting
    <2>4. q.roles[e].fit
      BY <2>1, <2>3, Zenon
    <2>5. ItsLineFits(q, e)
      BY <1>4, <2>1, <2>3 DEF ItsLineFits
    <2>6. q.roles[e].driver = "alicat" => Alone(q, e)
      <3> SUFFICES ASSUME q.roles[e].driver = "alicat",
                          NEW f \in Enabled(q), f # e,
                          q.roles[f].driver = "alicat",
                          q.roles[f].connection = q.roles[e].connection,
                          q.roles[f].address = q.roles[e].address
                   PROVE  FALSE
        BY DEF Alone
      <3>1. f \in Enabled(p) /\ q.roles[f] = p.roles[f]
        BY <1>3 DEF Enabled
      <3> QED
        BY <2>1, <2>3, <3>1 DEF Alone
    <2> QED
      BY <2>4, <2>5, <2>6, Zenon DEF Fitting
  <1>7. Sound(q)
    BY <1>3, <1>5, <1>6, Zenon DEF Sound
  <1> QED
    BY <1>2, <1>7

LEMMA RewordedIsSound ==
  ASSUME NEW p, Sound(p)
  PROVE  Sound(Reworded(p))
  <1>1. IsProfile(p) /\ Wired(p)
    BY DEF Sound
  <1>2. /\ p.connections \in Seq(Lines) /\ p.details \in Details /\ Configured(p) \subseteq Names
        /\ p.roles \in [Configured(p) -> Roles]
    BY <1>1, ProfileParts
  <1>3. PICK t : t = 1 - p.details
    OBVIOUS
  <1>4. t \in Details
    BY <1>2, <1>3 DEF Details
  <1>5. PICK q : q = Reworded(p)
    OBVIOUS
  <1>6. q = [roles |-> p.roles, connections |-> p.connections, details |-> t]
    BY <1>1, <1>3, <1>5, PartReplaced, Zenon DEF Reworded
  <1>7. q.roles = p.roles /\ q.connections = p.connections
    BY <1>6
  <1>8. IsProfile(q)
    BY <1>2, <1>4, <1>6, ProfileMade
  <1>9. Configured(q) = Configured(p) /\ Enabled(q) = Enabled(p)
    BY <1>7, Zenon DEF Configured, Enabled
  <1>10. Extends(p, q)
    BY <1>7, <1>9 DEF Extends
  <1>11. SameWiring(p, q)
    BY <1>7, <1>9 DEF SameWiring
  <1>12. Wired(q)
    BY <1>1, <1>11, WiringStays
  <1>13. Sound(q)
    BY <1>8, <1>9, <1>10, <1>12, ExtendedIsSound
  <1> QED
    BY <1>5, <1>13

LEMMA BlankIsSound == Sound(Blank)
  <1>1. PICK q : q = Blank
    OBVIOUS
  <1>2. q.roles = <<>> /\ q.connections = <<>> /\ q.details = 0
    BY <1>1 DEF Blank
  <1>3. DOMAIN <<>> = {}
    OBVIOUS
  <1>4. IsProfile(q)
    <2>1. PICK none : none = <<>>
      OBVIOUS
    <2>2. none \in [{} -> Roles]
      BY <1>3, <2>1
    <2>3. none \in Seq(Lines) /\ 0 \in Details /\ {} \in SUBSET Names
      BY <2>1 DEF Details
    <2>4. q = [roles |-> none, connections |-> none, details |-> 0]
      BY <1>1, <2>1 DEF Blank
    <2> QED
      BY <2>2, <2>3, <2>4, ProfileMade
  <1>5. Wired(q)
    BY <1>2, <1>3 DEF Wired
  <1>6. Enabled(q) = {}
    BY <1>2, <1>3 DEF Enabled, Configured
  <1>7. Sound(q)
    BY <1>4, <1>5, <1>6 DEF Sound
  <1> QED
    BY <1>1, <1>7

(***************************************************************************)
(* The profiles on disk, in Device Setup and of the session.               *)
(***************************************************************************)

HomeInOrder ==
    /\ home = [path |-> home.path, profile |-> home.profile, session |-> home.session]
    /\ home.path \in Paths
    /\ Sound(home.profile)
    /\ Sound(files[home.path])

EditorInOrder ==
    /\ editor = [path |-> editor.path, profile |-> editor.profile]
    /\ editor.path \in Paths
    /\ Sound(editor.profile)
    /\ Sound(files[editor.path])

(* Every profile that is held anywhere is sound. *)
LibraryInv ==
    /\ DOMAIN files = Paths /\ files = [path \in Paths |-> files[path]]
    /\ DOMAIN backups = Paths /\ backups = [path \in Paths |-> backups[path]]
    /\ program \in {"ended", "home", "screen", "setup"}
    /\ \A path \in Paths : files[path] # Missing => Sound(files[path])
    /\ program # "ended" => HomeInOrder
    /\ program = "setup" => EditorInOrder

LEMMA LibraryStarts == LibraryInit => LibraryInv
  <1> SUFFICES ASSUME LibraryInit PROVE LibraryInv
    OBVIOUS
  <1>1. \A profile \in Saved \cup {Template} : Sound(profile)
    BY ProfilesAssumption, SoundIsChecked
  <1>2. PICK path \in Paths \ Shipped, profile \in Saved :
           files = [p \in Paths |-> IF p \in Shipped THEN Template
                                    ELSE IF p = path THEN profile ELSE Missing]
    BY DEF LibraryInit
  <1>3. \A p \in Paths : files[p] # Missing => Sound(files[p])
    BY <1>1, <1>2
  <1>4. DOMAIN files = Paths /\ files = [p \in Paths |-> files[p]]
    BY <1>2
  <1>5. DOMAIN backups = Paths /\ backups = [p \in Paths |-> backups[p]]
    BY DEF LibraryInit
  <1>6. program = "ended"
    BY DEF LibraryInit
  <1> QED
    BY <1>3, <1>4, <1>5, <1>6 DEF LibraryInv

(* What is written is sound. *)
Writes == \E path \in Paths : \E profile : Sound(profile) /\ Write(path, profile)

Switches == \E path \in Paths : SwitchProfile(path)

LEMMA AddedIsSound ==
  ASSUME NEW p, Sound(p), NEW d \in DeviceIds
  PROVE  /\ \A port \in Ports, address \in Addresses :
               \A q \in WithNewAlicat(p, d, port, address) : Accepts(q, d) => Sound(q)
         /\ \A host \in Hosts : \A q \in WithNewSupply(p, d, host) : Sound(q)
         /\ \A port \in Ports :
               /\ \A q \in WithNewGuardian(p, d, port) : Sound(q)
               /\ \A q \in WithNewTemperatureProbe(p, d, port) : Sound(q)
               /\ \A q \in WithNewEzoHum(p, d, port) : Sound(q)
               /\ \A q \in WithNewPump(p, d, port) : Sound(q)
  <1>1. d \in Names
    BY DEF Names
  <1>2. \A driver \in Drivers, base \in Bases, port \in Ports \cup Hosts : \A rivals :
           \A q \in WithOwnConnection(p, d, driver, base, port, rivals) : Sound(q)
    BY <1>1, OwnConnectionIsSound
  <1>3. ASSUME NEW port \in Ports, NEW address \in Addresses,
               NEW q \in WithNewAlicat(p, d, port, address), Accepts(q, d)
        PROVE  Sound(q)
    BY <1>1, <1>3, NewAlicatIsSound
  <1>4. ASSUME NEW host \in Hosts, NEW q \in WithNewSupply(p, d, host)
        PROVE  Sound(q)
    <2>1. Supply \in Drivers /\ "keithley_2260b_ethernet" \in Bases
      BY DEF Drivers, Validated, Bases
    <2> QED
      BY <1>2, <1>4, <2>1 DEF WithNewSupply
  <1>5. /\ "ohaus_guardian_5000" \in Drivers /\ "guardian_serial" \in Bases
        /\ "tasi_ta612c" \in Drivers /\ "thermocouple_serial" \in Bases
        /\ "atlas_ezo_hum" \in Drivers /\ "ezo_hum_serial" \in Bases
        /\ "kamoer_m1_stp" \in Drivers /\ "pump_serial" \in Bases
    BY DEF Drivers, Validated, Bases
  <1>6. ASSUME NEW port \in Ports, NEW q \in WithNewGuardian(p, d, port)
        PROVE  Sound(q)
    BY <1>2, <1>5, <1>6 DEF WithNewGuardian
  <1>7. ASSUME NEW port \in Ports, NEW q \in WithNewTemperatureProbe(p, d, port)
        PROVE  Sound(q)
    BY <1>2, <1>5, <1>7 DEF WithNewTemperatureProbe
  <1>8. ASSUME NEW port \in Ports, NEW q \in WithNewEzoHum(p, d, port)
        PROVE  Sound(q)
    BY <1>2, <1>5, <1>8 DEF WithNewEzoHum
  <1>9. ASSUME NEW port \in Ports, NEW q \in WithNewPump(p, d, port)
        PROVE  Sound(q)
    BY <1>2, <1>5, <1>9 DEF WithNewPump
  <1> QED
    BY <1>3, <1>4, <1>6, <1>7, <1>8, <1>9, Zenon

LEMMA EditWritesOrSwitches ==
  ASSUME LibraryInv, EditProfile
  PROVE  InSetup /\ (Writes \/ Switches)
  <1>1. InSetup
    BY DEF EditProfile, AddAlicat, AddSupply, AddGuardian, AddTemperatureProbe, AddEzoHum, AddPump,
           AddBoard, UpdateIdentity, MakeEditableCopy, SaveAs, CreateNew, SwitchProfile
  <1>2. PICK p : p = editor.profile
    OBVIOUS
  <1>3. Sound(p) /\ editor.path \in Paths
    BY <1>1, <1>2 DEF LibraryInv, EditorInOrder, InSetup
  <1>4. \A q : Sound(q) /\ Commit(q) => Writes
    BY <1>3 DEF Commit, Writes
  <1>5. CASE \E d \in DeviceIds, port \in Ports :
                \/ \E address \in Addresses : AddAlicat(d, port, address)
                \/ AddGuardian(d, port)
                \/ AddTemperatureProbe(d, port)
                \/ AddEzoHum(d, port)
                \/ AddPump(d, port)
    <2>1. PICK d \in DeviceIds, port \in Ports :
                \/ \E address \in Addresses : AddAlicat(d, port, address)
                \/ AddGuardian(d, port)
                \/ AddTemperatureProbe(d, port)
                \/ AddEzoHum(d, port)
                \/ AddPump(d, port)
      BY <1>5
    <2>2. PICK q : /\ Accepts(q, d) /\ Commit(q)
                   /\ \/ \E address \in Addresses : q \in WithNewAlicat(p, d, port, address)
                      \/ q \in WithNewGuardian(p, d, port)
                      \/ q \in WithNewTemperatureProbe(p, d, port)
                      \/ q \in WithNewEzoHum(p, d, port)
                      \/ q \in WithNewPump(p, d, port)
      BY <1>2, <2>1, Zenon DEF AddAlicat, AddGuardian, AddTemperatureProbe, AddEzoHum, AddPump,
                               AddChecked
    <2>3. Sound(q)
      BY <1>3, <2>1, <2>2, AddedIsSound
    <2> QED
      BY <1>1, <1>4, <2>2, <2>3
  <1>6. CASE \E d \in DeviceIds, host \in Hosts : AddSupply(d, host)
    <2>1. PICK d \in DeviceIds, host \in Hosts : AddSupply(d, host)
      BY <1>6
    <2>2. PICK q \in WithNewSupply(p, d, host) : Commit(q)
      BY <1>2, <2>1, Zenon DEF AddSupply, AddChecked
    <2>3. Sound(q)
      BY <1>3, <2>1, <2>2, AddedIsSound
    <2> QED
      BY <1>1, <1>4, <2>2, <2>3
  <1>7. CASE \E port \in Ports, chosen \in SUBSET DOMAIN SensorDriver : AddBoard(port, chosen)
    <2>1. PICK port \in Ports, chosen \in SUBSET DOMAIN SensorDriver : AddBoard(port, chosen)
      BY <1>7
    <2>2. PICK q \in WithBoard(p, port, chosen) : Commit(q)
      BY <1>2, <2>1, Zenon DEF AddBoard
    <2>3. Sound(q)
      BY <1>3, <2>1, <2>2, BoardIsSound
    <2> QED
      BY <1>1, <1>4, <2>2, <2>3
  <1>8. CASE \E d \in Configured(p) :
                \/ \E edit \in Edits(p, d) : UpdateDevice(d, edit)
                \/ RemoveDevice(d)
                \/ UpdateInterval(d)
                \/ AcknowledgeInstallation(d)
    <2>1. PICK d \in Configured(p) :
                \/ \E edit \in Edits(p, d) : UpdateDevice(d, edit)
                \/ RemoveDevice(d)
                \/ UpdateInterval(d)
                \/ AcknowledgeInstallation(d)
      BY <1>8
    <2>2. CASE \E edit \in Edits(p, d) : UpdateDevice(d, edit)
      <3>1. PICK edit \in Edits(p, d) : UpdateDevice(d, edit)
        BY <2>2
      <3>2. PICK q : q = Edited(p, d, edit)
        OBVIOUS
      <3>3. Validates(q, d) /\ Commit(q)
        BY <1>2, <3>1, <3>2, Zenon DEF UpdateDevice
      <3>4. Sound(q)
        BY <1>3, <2>1, <3>1, <3>2, <3>3, EditedIsSound
      <3> QED
        BY <1>1, <1>4, <3>3, <3>4
    <2>3. CASE RemoveDevice(d)
      <3>1. Sound(Without(p, d)) /\ Commit(Without(p, d))
        BY <1>2, <1>3, <2>1, <2>3, RemovedIsSound DEF RemoveDevice
      <3> QED
        BY <1>1, <1>4, <3>1
    <2>4. CASE UpdateInterval(d) \/ AcknowledgeInstallation(d)
      <3>1. Sound(Reworded(p)) /\ Commit(Reworded(p))
        BY <1>2, <1>3, <2>4, RewordedIsSound DEF UpdateInterval, AcknowledgeInstallation
      <3> QED
        BY <1>1, <1>4, <3>1
    <2> QED
      BY <2>1, <2>2, <2>3, <2>4
  <1>9. CASE UpdateIdentity
    <2>1. Sound(Reworded(p)) /\ Commit(Reworded(p))
      BY <1>2, <1>3, <1>9, RewordedIsSound DEF UpdateIdentity
    <2> QED
      BY <1>1, <1>4, <2>1
  <1>10. CASE \E path \in Paths :
                 MakeEditableCopy(path) \/ SaveAs(path) \/ CreateNew(path) \/ SwitchProfile(path)
    <2>1. PICK path \in Paths :
             MakeEditableCopy(path) \/ SaveAs(path) \/ CreateNew(path) \/ SwitchProfile(path)
      BY <1>10
    <2>2. CASE MakeEditableCopy(path) \/ SaveAs(path)
      <3>1. Write(path, p)
        BY <1>2, <2>2 DEF MakeEditableCopy, SaveAs
      <3> QED
        BY <1>1, <1>3, <2>1, <3>1 DEF Writes
    <2>3. CASE CreateNew(path)
      BY <1>1, <2>1, <2>3, BlankIsSound DEF CreateNew, Writes
    <2>4. CASE SwitchProfile(path)
      BY <1>1, <2>1, <2>4 DEF Switches
    <2> QED
      BY <2>1, <2>2, <2>3, <2>4
  <1> QED
    BY <1>2, <1>5, <1>6, <1>7, <1>8, <1>9, <1>10, Zenon DEF EditProfile

(* What a save does to the files, the backups and the editor. *)
LEMMA WriteDoes ==
  ASSUME LibraryInv, NEW path \in Paths, NEW profile, Write(path, profile)
  PROVE  /\ path \notin Shipped
         /\ UNCHANGED <<program, home, trouble>>
         /\ DOMAIN files' = Paths /\ files' = [p \in Paths |-> files'[p]]
         /\ DOMAIN backups' = Paths /\ backups' = [p \in Paths |-> backups'[p]]
         /\ \/ files' = files /\ editor' = editor
            \/ /\ files'[path] = profile
               /\ \A p \in Paths : p # path => files'[p] = files[p]
               /\ files[path] # Missing => backups'[path] = files[path]
               /\ editor' = [path |-> path, profile |-> profile]
  <1>1. /\ path \notin Shipped
        /\ UNCHANGED <<program, home, trouble>>
    BY DEF Write
  <1>2. /\ DOMAIN files = Paths /\ files = [p \in Paths |-> files[p]]
        /\ DOMAIN backups = Paths /\ backups = [p \in Paths |-> backups[p]]
    BY DEF LibraryInv
  <1>3. PICK outcome \in Outcomes :
           /\ files' = Replaced(path, profile, outcome)
           /\ backups' = BackedUp(path, outcome)
           /\ editor' = IF outcome = "replaced" THEN [path |-> path, profile |-> profile]
                                                ELSE editor
    BY Zenon DEF Write
  <1>4. /\ DOMAIN backups' = Paths /\ backups' = [p \in Paths |-> backups'[p]]
        /\ outcome = "replaced" /\ files[path] # Missing => backups'[path] = files[path]
    <2>1. CASE files[path] = Missing
      BY <1>2, <1>3, <2>1 DEF BackedUp
    <2>2. CASE files[path] # Missing
      <3>1. backups' = [backups EXCEPT ![path] = IF outcome = "backup torn" THEN Torn
                                                 ELSE files[path]]
        BY <1>3, <2>2 DEF BackedUp
      <3> QED
        BY <1>2, <3>1
    <2> QED
      BY <2>1, <2>2
  <1>5. CASE outcome = "replaced"
    <2>1. files' = [files EXCEPT ![path] = profile]
          /\ editor' = [path |-> path, profile |-> profile]
      BY <1>3, <1>5 DEF Replaced
    <2>2. /\ DOMAIN files' = Paths /\ files' = [p \in Paths |-> files'[p]]
          /\ files'[path] = profile
          /\ \A p \in Paths : p # path => files'[p] = files[p]
      BY <1>2, <2>1
    <2> QED
      BY <1>1, <1>4, <1>5, <2>1, <2>2
  <1>6. CASE outcome # "replaced"
    <2>1. files' = files /\ editor' = editor
      BY <1>3, <1>6 DEF Replaced
    <2> QED
      BY <1>1, <1>2, <1>4, <2>1
  <1> QED
    BY <1>5, <1>6

LEMMA WriteKeepsLibrary ==
  ASSUME LibraryInv, InSetup, NEW path \in Paths, NEW profile, Sound(profile),
         Write(path, profile)
  PROVE  LibraryInv'
  <1>1. /\ UNCHANGED <<program, home, trouble>>
        /\ DOMAIN files' = Paths /\ files' = [p \in Paths |-> files'[p]]
        /\ DOMAIN backups' = Paths /\ backups' = [p \in Paths |-> backups'[p]]
    BY WriteDoes
  <1>2. /\ program = "setup" /\ HomeInOrder /\ EditorInOrder
        /\ \A p \in Paths : files[p] # Missing => Sound(files[p])
    BY DEF LibraryInv, InSetup
  <1>3. CASE files' = files /\ editor' = editor
    <2>1. HomeInOrder' /\ EditorInOrder'
      BY <1>1, <1>2, <1>3 DEF HomeInOrder, EditorInOrder
    <2> QED
      BY <1>1, <1>2, <1>3, <2>1 DEF LibraryInv
  <1>4. CASE /\ files'[path] = profile
             /\ \A p \in Paths : p # path => files'[p] = files[p]
             /\ editor' = [path |-> path, profile |-> profile]
    <2>1. \A p \in Paths : files'[p] # Missing => Sound(files'[p])
      BY <1>2, <1>4
    <2>2. HomeInOrder'
      <3>1. home.path \in Paths /\ Sound(files[home.path])
        BY <1>2 DEF HomeInOrder
      <3>2. Sound(files'[home.path])
        BY <1>4, <3>1
      <3> QED
        BY <1>1, <1>2, <3>2 DEF HomeInOrder
    <2>3. EditorInOrder'
      BY <1>4 DEF EditorInOrder
    <2> QED
      BY <1>1, <1>2, <2>1, <2>2, <2>3 DEF LibraryInv
  <1> QED
    BY <1>3, <1>4, WriteDoes

LEMMA LibraryStays == LibraryInv /\ [LibraryNext]_library => LibraryInv'
  <1> SUFFICES ASSUME LibraryInv, [LibraryNext]_library PROVE LibraryInv'
    OBVIOUS
  <1>1. /\ DOMAIN files = Paths /\ files = [path \in Paths |-> files[path]]
        /\ DOMAIN backups = Paths /\ backups = [path \in Paths |-> backups[path]]
        /\ program \in {"ended", "home", "screen", "setup"}
        /\ \A path \in Paths : files[path] # Missing => Sound(files[path])
        /\ program # "ended" => HomeInOrder
        /\ program = "setup" => EditorInOrder
    BY DEF LibraryInv
  <1>2. CASE EditProfile
    <2>1. InSetup /\ (Writes \/ Switches)
      BY <1>2, EditWritesOrSwitches
    <2>2. CASE Writes
      BY <2>1, <2>2, WriteKeepsLibrary DEF Writes
    <2>3. CASE Switches
      <3>1. PICK path \in Paths : SwitchProfile(path)
        BY <2>3 DEF Switches
      <3>2. /\ files[path] # Missing /\ editor' = [path |-> path, profile |-> files[path]]
            /\ UNCHANGED <<files, backups, program, home>>
        BY <3>1 DEF SwitchProfile
      <3>3. HomeInOrder'
        BY <1>1, <2>1, <3>2 DEF HomeInOrder, InSetup
      <3>4. EditorInOrder'
        BY <1>1, <3>1, <3>2 DEF EditorInOrder
      <3> QED
        BY <1>1, <3>2, <3>3, <3>4 DEF LibraryInv
    <2> QED
      BY <2>1, <2>2, <2>3
  <1>3. ASSUME NEW path \in Paths, Start(path) \/ SelectProfile(path) PROVE LibraryInv'
    <2>1. /\ files[path] # Missing /\ program' = "home" /\ home' = Running(path, files[path])
          /\ UNCHANGED <<files, backups>>
      BY <1>3 DEF Start, SelectProfile, Loads
    <2>2. HomeInOrder'
      BY <1>1, <1>3, <2>1 DEF HomeInOrder, Running
    <2> QED
      BY <1>1, <2>1, <2>2 DEF LibraryInv
  <1>4. CASE OpenScreen \/ CloseScreens
    <2>1. /\ program # "ended" /\ program' \in {"home", "screen"}
          /\ UNCHANGED <<files, backups, home>>
      BY <1>4 DEF OpenScreen, CloseScreens
    <2>2. HomeInOrder'
      BY <1>1, <2>1 DEF HomeInOrder
    <2> QED
      BY <1>1, <2>1, <2>2 DEF LibraryInv
  <1>5. CASE OpenSetup
    <2>1. /\ program = "home" /\ program' = "setup"
          /\ editor' = [path |-> home.path, profile |-> home.profile]
          /\ UNCHANGED <<files, backups, home>>
      BY <1>5 DEF OpenSetup
    <2>2. HomeInOrder' /\ EditorInOrder'
      BY <1>1, <2>1 DEF HomeInOrder, EditorInOrder
    <2> QED
      BY <1>1, <2>1, <2>2 DEF LibraryInv
  <1>6. CASE CloseSetup
    <2>1. /\ program = "setup" /\ program' = "home" /\ UNCHANGED <<files, backups>>
          /\ \/ home' = [home EXCEPT !.path = editor.path]
             \/ home' = [home EXCEPT !.path = editor.path, !.profile = files[editor.path]]
             \/ home' = Running(editor.path, files[editor.path])
      BY <1>6, Zenon DEF CloseSetup
    <2>2. /\ HomeInOrder /\ editor.path \in Paths /\ Sound(files[editor.path])
      BY <1>1, <2>1 DEF EditorInOrder
    <2>3. PICK a, b, c : home = [path |-> a, profile |-> b, session |-> c] /\ Sound(b)
      BY <2>2 DEF HomeInOrder
    <2>4. \/ home' = [path |-> editor.path, profile |-> b, session |-> c]
          \/ home' = [path |-> editor.path, profile |-> files[editor.path], session |-> c]
          \/ home' = [path |-> editor.path, profile |-> files[editor.path],
                      session |-> files[editor.path]]
      BY <2>1, <2>3 DEF Running
    <2>5. HomeInOrder'
      BY <2>1, <2>2, <2>3, <2>4 DEF HomeInOrder
    <2> QED
      BY <1>1, <2>1, <2>5 DEF LibraryInv
  <1>7. CASE End
    BY <1>1, <1>7 DEF End, LibraryInv
  <1>8. CASE UNCHANGED library
    BY <1>1, <1>8 DEF library, LibraryInv, HomeInOrder, EditorInOrder
  <1> QED
    BY <1>2, <1>3, <1>4, <1>5, <1>6, <1>7, <1>8 DEF LibraryNext

LEMMA LibraryInOrder == LibrarySpec => []LibraryInv
  BY LibraryStarts, LibraryStays, PTL DEF LibrarySpec

(* After any sequence of additions, edits, disablings and removals, every device that
   Device Setup validates can be built from the file it was saved in, and no connection
   is left behind. *)
THEOREM SavedProfilesAreSound == LibrarySpec => []LibraryIsSound
  <1>1. LibraryInv => LibraryIsSound
    <2> SUFFICES ASSUME LibraryInv, NEW path \in Paths, files[path] # Missing,
                        NEW profile, profile = files[path]
                 PROVE  /\ \A d \in Enabled(profile) :
                              profile.roles[d].driver \in Validated => Accepts(profile, d)
                        /\ {connection.id : connection \in Connections(profile)} =
                              {profile.roles[d].connection : d \in Configured(profile)}
      BY DEF LibraryIsSound
    <2>1. Sound(profile)
      BY DEF LibraryInv
    <2>2. Wired(profile) /\ Checked(profile)
      BY <2>1, SoundIsChecked
    <2>3. {connection.id : connection \in Connections(profile)} =
             {profile.connections[i].id : i \in DOMAIN profile.connections}
      BY DEF Connections, Range
    <2>4. {profile.connections[i].id : i \in DOMAIN profile.connections} =
             {profile.roles[d].connection : d \in DOMAIN profile.roles}
      BY <2>2 DEF Wired
    <2> QED
      BY <2>2, <2>3, <2>4 DEF Checked, Configured
  <1> QED
    BY <1>1, LibraryInOrder, PTL

(* Device Setup edits what its file holds, and the session that runs was built from the
   file the home screen names, unless the return from Device Setup failed. *)
THEOREM WhatRunsIsSaved == LibrarySpec => []UsesWhatIsSaved
  <1>1. LibraryInit => UsesWhatIsSaved
    BY DEF LibraryInit, UsesWhatIsSaved, InSetup
  <1>2. ASSUME LibraryInv, UsesWhatIsSaved, [LibraryNext]_library
        PROVE  UsesWhatIsSaved'
    <2>1. /\ program = "setup" => HomeInOrder /\ EditorInOrder
          /\ program # "ended" => HomeInOrder
      BY <1>2 DEF LibraryInv
    <2>2. CASE EditProfile
      <3>1. program = "setup" /\ (Writes \/ Switches)
        BY <1>2, <2>2, EditWritesOrSwitches DEF InSetup
      <3>2. ASSUME NEW path \in Paths, NEW profile, Write(path, profile)
            PROVE  UsesWhatIsSaved'
        <4>1. /\ UNCHANGED <<program, home, trouble>>
              /\ \/ files' = files /\ editor' = editor
                 \/ files'[path] = profile /\ editor' = [path |-> path, profile |-> profile]
          BY <1>2, <3>2, WriteDoes
        <4> QED
          BY <1>2, <3>1, <4>1 DEF UsesWhatIsSaved, InSetup
      <3>3. ASSUME NEW path \in Paths, SwitchProfile(path)
            PROVE  UsesWhatIsSaved'
        BY <1>2, <3>1, <3>3 DEF SwitchProfile, UsesWhatIsSaved, InSetup
      <3> QED
        BY <3>1, <3>2, <3>3 DEF Writes, Switches
    <2>3. ASSUME NEW path \in Paths, Start(path) PROVE UsesWhatIsSaved'
      BY <2>3 DEF Start, Running, UsesWhatIsSaved, InSetup
    <2>4. ASSUME NEW path \in Paths, SelectProfile(path) PROVE UsesWhatIsSaved'
      BY <2>4 DEF SelectProfile, Running, UsesWhatIsSaved, InSetup
    <2>5. CASE OpenScreen \/ CloseScreens
      BY <1>2, <2>5 DEF OpenScreen, CloseScreens, UsesWhatIsSaved, InSetup
    <2>6. CASE OpenSetup
      BY <1>2, <2>6 DEF OpenSetup, UsesWhatIsSaved, InSetup
    <2>7. CASE CloseSetup
      <3>1. /\ program' = "home" /\ UNCHANGED <<files, backups>> /\ HomeInOrder
            /\ \/ trouble' = "unread"
               \/ /\ trouble' = "unbuilt"
                  /\ home' = [home EXCEPT !.path = editor.path, !.profile = files[editor.path]]
               \/ /\ trouble' = "none"
                  /\ home' = Running(editor.path, files[editor.path])
        BY <2>1, <2>7, Zenon DEF CloseSetup
      <3>2. PICK a, b, c : home = [path |-> a, profile |-> b, session |-> c]
        BY <3>1 DEF HomeInOrder
      <3>3. \/ trouble' = "unread"
            \/ /\ trouble' = "unbuilt"
               /\ home' = [path |-> editor.path, profile |-> files[editor.path], session |-> c]
            \/ /\ trouble' = "none"
               /\ home' = [path |-> editor.path, profile |-> files[editor.path],
                           session |-> files[editor.path]]
        BY <3>1, <3>2 DEF Running
      <3>4. \/ trouble' = "unread"
            \/ /\ trouble' = "unbuilt"
               /\ home'.path = editor.path /\ home'.profile = files[editor.path]
            \/ /\ trouble' = "none"
               /\ home'.path = editor.path /\ home'.profile = files[editor.path]
               /\ home'.session = home'.profile
        BY <3>3
      <3> QED
        BY <3>1, <3>4 DEF UsesWhatIsSaved, InSetup
    <2>8. CASE End
      BY <2>8 DEF End, UsesWhatIsSaved, InSetup
    <2>9. CASE UNCHANGED library
      BY <1>2, <2>9 DEF library, UsesWhatIsSaved, InSetup
    <2> QED
      BY <1>2, <2>2, <2>3, <2>4, <2>5, <2>6, <2>7, <2>8, <2>9 DEF LibraryNext
  <1> QED
    BY <1>1, <1>2, LibraryInOrder, PTL DEF LibrarySpec

(* A file changes only to another whole profile, what it held is in its backup, and a
   template does not change at all. *)
THEOREM ProfilesAreKept == LibrarySpec => NothingSavedIsLost
  <1>1. ASSUME LibraryInv, [LibraryNext]_library
        PROVE  [StepLosesNothing]_library
    <2>1. CASE EditProfile
      <3>1. InSetup /\ (Writes \/ Switches)
        BY <1>1, <2>1, EditWritesOrSwitches
      <3>2. ASSUME NEW path \in Paths, NEW profile, Sound(profile), Write(path, profile)
            PROVE  StepLosesNothing
        <4>1. /\ path \notin Shipped
              /\ \/ files' = files /\ editor' = editor
                 \/ /\ files'[path] = profile
                    /\ \A p \in Paths : p # path => files'[p] = files[p]
                    /\ files[path] # Missing => backups'[path] = files[path]
          BY <1>1, <3>2, WriteDoes
        <4>2. profile # Torn
          BY <3>2, ProfilesAssumption DEF Sound
        <4> QED
          BY <4>1, <4>2 DEF StepLosesNothing
      <3>3. ASSUME NEW path \in Paths, SwitchProfile(path)
            PROVE  StepLosesNothing
        BY <3>3 DEF SwitchProfile, StepLosesNothing
      <3> QED
        BY <3>1, <3>2, <3>3 DEF Writes, Switches
    <2>2. ASSUME ~EditProfile PROVE files' = files
      <3>1. ASSUME NEW path \in Paths, Start(path) \/ SelectProfile(path) PROVE files' = files
        BY <3>1 DEF Start, SelectProfile
      <3>2. CASE OpenScreen \/ CloseScreens \/ OpenSetup \/ CloseSetup \/ End
        BY <3>2 DEF OpenScreen, CloseScreens, OpenSetup, CloseSetup, End
      <3> QED
        BY <1>1, <2>2, <3>1, <3>2 DEF LibraryNext, library
    <2> QED
      BY <2>1, <2>2 DEF StepLosesNothing
  <1> QED
    BY <1>1, LibraryInOrder, PTL DEF LibrarySpec, NothingSavedIsLost

(***************************************************************************)
(* The settings.                                                           *)
(***************************************************************************)

(* Which limits settings raise. *)
LEMMA LimitsSay ==
  ASSUME NEW s
  PROVE  /\ s.pressure => "pressure" \in Limits(s)
         /\ s.current => "current" \in Limits(s)
         /\ Raises(s) => "maximum" \in Limits(s)
  <1>1. s.pressure => "pressure" \in Limits(s)
    BY DEF Limits
  <1>2. s.current => "current" \in Limits(s)
    BY DEF Limits
  <1>3. s.maximum > Normal => "maximum" \in Limits(s)
    BY DEF Limits
  <1> QED
    BY <1>1, <1>2, <1>3, Zenon DEF Raises

(* What is ticked on a sheet was agreed to there, or is in force. *)
InOrder(s, allowed) ==
    /\ s = [page |-> s.page, pressure |-> s.pressure, maximum |-> s.maximum,
            current |-> s.current, confirmed |-> s.confirmed]
    /\ s.pressure => "pressure" \in allowed \/ "pressure" \in s.confirmed
    /\ s.current => "current" \in allowed \/ "current" \in s.confirmed

LEMMA SheetMade ==
  ASSUME NEW page, NEW pressure, NEW maximum, NEW current, NEW confirmed, NEW allowed,
         pressure => "pressure" \in allowed \/ "pressure" \in confirmed,
         current => "current" \in allowed \/ "current" \in confirmed
  PROVE  InOrder([page |-> page, pressure |-> pressure, maximum |-> maximum,
                  current |-> current, confirmed |-> confirmed], allowed)
  <1>1. PICK s : s = [page |-> page, pressure |-> pressure, maximum |-> maximum,
                      current |-> current, confirmed |-> confirmed]
    OBVIOUS
  <1>2. s.page = page /\ s.maximum = maximum /\ s.confirmed = confirmed
    BY <1>1
  <1>3. s.pressure = pressure
    BY <1>1
  <1>4. s.current = current
    BY <1>1
  <1>5. InOrder(s, allowed)
    BY <1>1, <1>2, <1>3, <1>4, Zenon DEF InOrder
  <1> QED
    BY <1>1, <1>5, Zenon

(* A sheet shows settings that were agreed to. *)
LEMMA SheetShows ==
  ASSUME NEW page, NEW s, NEW allowed,
         s.pressure => "pressure" \in allowed, s.current => "current" \in allowed
  PROVE  InOrder(Sheet(page, s), allowed)
  <1>1. PICK pressure, current, maximum :
           pressure = s.pressure /\ current = s.current /\ maximum = s.maximum
    OBVIOUS
  <1>2. pressure => "pressure" \in allowed
    BY <1>1, Zenon
  <1>3. current => "current" \in allowed
    BY <1>1, Zenon
  <1>4. InOrder([page |-> page, pressure |-> pressure, maximum |-> maximum,
                 current |-> current, confirmed |-> {}], allowed)
    BY <1>2, <1>3, SheetMade, Zenon
  <1> QED
    BY <1>1, <1>4, Zenon DEF Sheet

(* Limits are raised as agreed, and what a sheet shows that is not agreed to yet was
   confirmed on it. *)
SettingsInv ==
    /\ DOMAIN disk = Files /\ DOMAIN kept = Files
    /\ RaisedAsAgreed
    /\ sheet # Absent => InOrder(sheet, agreed)

(* With settings that somebody chose everything they raise is agreed to. *)
LEMMA ChosenIsAgreed ==
  ASSUME NEW s, Runs(s), agreed' = Limits(s), working' \in {Absent, s}
  PROVE  RaisedAsAgreed'
  <1>1. inForce' = s /\ builtWith' = s
    BY DEF Runs
  <1>2. /\ s.pressure => "pressure" \in agreed'
        /\ s.current => "current" \in agreed'
        /\ Raises(s) => "maximum" \in agreed'
    BY LimitsSay, Zenon
  <1>3. /\ inForce'.pressure => "pressure" \in agreed'
        /\ inForce'.current => "current" \in agreed'
        /\ Raises(inForce') => "maximum" \in agreed'
    BY <1>1, <1>2, Zenon
  <1>4. Raises(inForce)' => "maximum" \in agreed'
    BY <1>3, Zenon DEF Raises
  <1> QED
    BY <1>1, <1>3, <1>4, Zenon DEF RaisedAsAgreed

(* What was ticked and what is typed is what is applied. *)
LEMMA WrittenShows ==
  /\ Written.pressure = sheet.pressure
  /\ Written.current = sheet.current
  /\ Written.maximum = sheet.maximum
  <1>1. PICK pressure, maximum, current :
           pressure = sheet.pressure /\ maximum = sheet.maximum /\ current = sheet.current
    OBVIOUS
  <1>2. PICK s : s = [Default EXCEPT !.pressure = pressure, !.maximum = maximum,
                                     !.current = current]
    OBVIOUS
  <1>3. Written = s
    BY <1>1, <1>2, Zenon DEF Written
  <1>4. s = [pressure |-> pressure, maximum |-> maximum, current |-> current, units |-> "native"]
    BY <1>2 DEF Default
  <1>5. s.pressure = pressure /\ s.maximum = maximum /\ s.current = current
    BY <1>4
  <1> QED
    BY <1>1, <1>3, <1>5

LEMMA AppliedIsAgreed ==
  ASSUME SettingsInv, sheet # Absent, Applied, UNCHANGED working
  PROVE  RaisedAsAgreed' /\ InOrder(sheet', agreed')
  <1>1. PICK s, allowed : s = Written /\ allowed = agreed'
    OBVIOUS
  <1>2. /\ working = Absent /\ sheet.maximum # Unreadable
        /\ inForce' = s /\ builtWith' = s /\ sheet' = Sheet(sheet.page, s)
        /\ allowed = {limit \in Limits(s) :
                        IF limit = "maximum" THEN Asks ELSE limit \in agreed \cup sheet.confirmed}
    BY <1>1, Zenon DEF Applied, Runs, Refreshed, Valid
  <1>3. InOrder(sheet, agreed)
    BY DEF SettingsInv
  <1>4. s.pressure => "pressure" \in agreed \cup sheet.confirmed
    <2>1. s.pressure = sheet.pressure
      BY <1>1, WrittenShows, Zenon
    <2>2. sheet.pressure => "pressure" \in agreed \/ "pressure" \in sheet.confirmed
      BY <1>3, Zenon DEF InOrder
    <2> QED
      BY <2>1, <2>2, Zenon
  <1>5. s.current => "current" \in agreed \cup sheet.confirmed
    <2>1. s.current = sheet.current
      BY <1>1, WrittenShows, Zenon
    <2>2. sheet.current => "current" \in agreed \/ "current" \in sheet.confirmed
      BY <1>3, Zenon DEF InOrder
    <2> QED
      BY <2>1, <2>2, Zenon
  <1>6. s.pressure => "pressure" \in allowed
    <2>1. "pressure" # "maximum"
      OBVIOUS
    <2> QED
      BY <1>2, <1>4, <2>1, LimitsSay, Zenon
  <1>7. s.current => "current" \in allowed
    <2>1. "current" # "maximum"
      OBVIOUS
    <2> QED
      BY <1>2, <1>5, <2>1, LimitsSay, Zenon
  <1>8. Raises(s) => "maximum" \in allowed
    <2> SUFFICES ASSUME Raises(s) PROVE "maximum" \in allowed
      OBVIOUS
    <2>1. s.pressure = sheet.pressure /\ s.maximum = sheet.maximum
      BY <1>1, WrittenShows, Zenon
    <2>2. Asks
      BY <1>2, <2>1, Zenon DEF Asks, Raises
    <2> QED
      BY <1>2, <2>2, LimitsSay, Zenon
  <1>9. InOrder(sheet', agreed')
    <2>1. InOrder(Sheet(sheet.page, s), allowed)
      BY <1>6, <1>7, SheetShows, Zenon
    <2> QED
      BY <1>1, <1>2, <2>1
  <1>10. RaisedAsAgreed'
    <2>1. Raises(inForce)' => "maximum" \in agreed'
      BY <1>1, <1>2, <1>8, Zenon DEF Raises
    <2>2. /\ inForce'.pressure => "pressure" \in agreed'
          /\ inForce'.current => "current" \in agreed'
      BY <1>1, <1>2, <1>6, <1>7, Zenon
    <2>3. working' \in {Absent, inForce'} /\ builtWith' = inForce'
      BY <1>2
    <2> QED
      BY <2>1, <2>2, <2>3, Zenon DEF RaisedAsAgreed
  <1> QED
    BY <1>9, <1>10, Zenon

(* What a save of settings does to files. *)
LEMMA WritingDoes ==
  ASSUME SettingsInv, NEW file \in Files, NEW s, WriteSettings(s, file)
  PROVE  /\ DOMAIN disk' = Files /\ DOMAIN kept' = Files
         /\ \A f \in Files :
               disk'[f] # disk[f] => disk'[f] = s /\ (disk[f] # Absent => kept'[f] = disk[f])
         /\ saidSaved' => remembered' = namedFile' /\ disk'[remembered'] = s
  <1>1. DOMAIN disk = Files /\ DOMAIN kept = Files
    BY DEF SettingsInv
  <1>2. PICK done \in {"nothing", "backup", "replaced", "all"} :
           /\ kept' = IF done # "nothing" /\ disk[file] # Absent
                      THEN [kept EXCEPT ![file] = disk[file]] ELSE kept
           /\ disk' = IF done \in {"replaced", "all"} THEN [disk EXCEPT ![file] = s] ELSE disk
           /\ namedFile' = IF done \in {"replaced", "all"} THEN file ELSE namedFile
           /\ remembered' = IF done = "all" THEN file ELSE remembered
           /\ saidSaved' = (done = "all")
    BY Zenon DEF WriteSettings
  <1>3. DOMAIN disk' = Files /\ DOMAIN kept' = Files
    BY <1>1, <1>2
  <1>4. ASSUME NEW f \in Files, disk'[f] # disk[f]
        PROVE  disk'[f] = s /\ (disk[f] # Absent => kept'[f] = disk[f])
    <2>1. done \in {"replaced", "all"} /\ disk' = [disk EXCEPT ![file] = s]
      BY <1>2, <1>4
    <2>2. f = file /\ disk'[f] = s
      BY <1>1, <1>4, <2>1
    <2>3. done # "nothing"
      BY <2>1
    <2>4. disk[f] # Absent => kept' = [kept EXCEPT ![file] = disk[file]]
      BY <1>2, <2>2, <2>3
    <2> QED
      BY <1>1, <2>2, <2>4
  <1>5. ASSUME saidSaved'
        PROVE  remembered' = namedFile' /\ disk'[remembered'] = s
    <2>1. done = "all"
      BY <1>2, <1>5, Zenon
    <2>2. remembered' = file /\ namedFile' = file /\ disk' = [disk EXCEPT ![file] = s]
      BY <1>2, <2>1
    <2> QED
      BY <1>1, <2>2
  <1> QED
    BY <1>3, <1>4, <1>5

LEMMA SettingsStart == SettingsInit => SettingsInv
  <1> SUFFICES ASSUME SettingsInit PROVE SettingsInv
    OBVIOUS
  <1>1. DOMAIN disk = Files /\ DOMAIN kept = Files
    BY DEF SettingsInit
  <1>2. /\ builtWith = inForce /\ agreed = Limits(inForce) /\ sheet = Absent /\ working = Absent
    BY Zenon DEF SettingsInit
  <1>3. PICK s : s = inForce
    OBVIOUS
  <1>4. /\ s.pressure => "pressure" \in agreed
        /\ s.current => "current" \in agreed
        /\ Raises(s) => "maximum" \in agreed
    BY <1>2, <1>3, LimitsSay, Zenon
  <1>5. RaisedAsAgreed
    BY <1>2, <1>3, <1>4, Zenon DEF RaisedAsAgreed
  <1> QED
    BY <1>1, <1>2, <1>5 DEF SettingsInv

(* Steps that change the sheet and nothing that is in force. *)
LEMMA SheetChanges ==
  ASSUME SettingsInv, UNCHANGED <<inForce, builtWith, agreed>>,
         working' \in {Absent, builtWith, working},
         DOMAIN disk' = Files, DOMAIN kept' = Files,
         sheet' # Absent => InOrder(sheet', agreed)
  PROVE  SettingsInv'
  <1>1. RaisedAsAgreed
    BY DEF SettingsInv
  <1>2. working' \in {Absent, inForce}
    BY <1>1, Zenon DEF RaisedAsAgreed
  <1>3. Raises(inForce)' <=> Raises(inForce)
    BY Zenon DEF Raises
  <1>4. RaisedAsAgreed'
    BY <1>1, <1>2, <1>3, Zenon DEF RaisedAsAgreed
  <1> QED
    BY <1>4 DEF SettingsInv

(* A sheet that shows what is in force. *)
LEMMA InForceIsAgreed ==
  ASSUME SettingsInv, NEW page
  PROVE  InOrder(Sheet(page, inForce), agreed)
  <1>1. inForce.pressure => "pressure" \in agreed
    BY Zenon DEF SettingsInv, RaisedAsAgreed
  <1>2. inForce.current => "current" \in agreed
    BY Zenon DEF SettingsInv, RaisedAsAgreed
  <1> QED
    BY <1>1, <1>2, SheetShows, Zenon

(* What a step of the sheet alone leaves. *)
OnlySheet ==
    /\ UNCHANGED <<inForce, builtWith, agreed, disk, kept, working>>
    /\ saidSaved' = FALSE

LEMMA TicksAreConfirmed ==
  ASSUME SettingsInv, TurnPage \/ TypeMaximum \/ TickPressure \/ TickCurrent
  PROVE  OnlySheet /\ InOrder(sheet', agreed)
  <1>1. sheet # Absent /\ OnlySheet
    BY DEF TurnPage, TypeMaximum, TickPressure, TickCurrent, EditSheet, Others, OnlySheet
  <1>2. PICK page, pressure, maximum, current, confirmed :
           /\ sheet = [page |-> page, pressure |-> pressure, maximum |-> maximum,
                       current |-> current, confirmed |-> confirmed]
           /\ pressure => "pressure" \in agreed \/ "pressure" \in confirmed
           /\ current => "current" \in agreed \/ "current" \in confirmed
    <2>1. InOrder(sheet, agreed)
      BY <1>1 DEF SettingsInv
    <2> QED
      BY <2>1, Zenon DEF InOrder
  <1>3. CASE TurnPage
    <2>1. PICK to : sheet' = [sheet EXCEPT !.page = to]
      BY <1>3, Zenon DEF TurnPage
    <2>2. sheet' = [page |-> to, pressure |-> pressure, maximum |-> maximum,
                    current |-> current, confirmed |-> confirmed]
      BY <1>2, <2>1
    <2> QED
      BY <1>1, <1>2, <2>2, SheetMade, Zenon
  <1>4. CASE TypeMaximum
    <2>1. PICK text : sheet' = [sheet EXCEPT !.maximum = text]
      BY <1>4, Zenon DEF TypeMaximum, EditSheet
    <2>2. sheet' = [page |-> page, pressure |-> pressure, maximum |-> text,
                    current |-> current, confirmed |-> confirmed]
      BY <1>2, <2>1
    <2> QED
      BY <1>1, <1>2, <2>2, SheetMade, Zenon
  <1>5. CASE TickPressure
    <2>1. PICK more : \/ more = confirmed \ {"pressure"}
                         /\ sheet' = [sheet EXCEPT !.pressure = FALSE,
                                                   !.confirmed = @ \ {"pressure"}]
                      \/ more = confirmed \cup {"pressure"}
                         /\ sheet' = [sheet EXCEPT !.pressure = TRUE,
                                                   !.confirmed = @ \cup {"pressure"}]
      BY <1>5, Zenon DEF TickPressure, EditSheet
    <2>2. \/ more = confirmed \ {"pressure"}
             /\ sheet' = [page |-> page, pressure |-> FALSE, maximum |-> maximum,
                          current |-> current, confirmed |-> more]
          \/ more = confirmed \cup {"pressure"}
             /\ sheet' = [page |-> page, pressure |-> TRUE, maximum |-> maximum,
                          current |-> current, confirmed |-> more]
      BY <1>2, <2>1
    <2>3. "current" # "pressure"
      OBVIOUS
    <2>4. current => "current" \in agreed \/ "current" \in more
      BY <1>2, <2>2, <2>3, Zenon
    <2>5. CASE /\ more = confirmed \ {"pressure"}
               /\ sheet' = [page |-> page, pressure |-> FALSE, maximum |-> maximum,
                            current |-> current, confirmed |-> more]
      BY <1>1, <2>4, <2>5, SheetMade, Zenon
    <2>6. CASE /\ more = confirmed \cup {"pressure"}
               /\ sheet' = [page |-> page, pressure |-> TRUE, maximum |-> maximum,
                            current |-> current, confirmed |-> more]
      <3>1. "pressure" \in more
        BY <2>6
      <3> QED
        BY <1>1, <2>4, <2>6, <3>1, SheetMade, Zenon
    <2> QED
      BY <2>2, <2>5, <2>6
  <1>6. CASE TickCurrent
    <2>1. PICK more : \/ more = confirmed \ {"current"}
                         /\ sheet' = [sheet EXCEPT !.current = FALSE,
                                                   !.confirmed = @ \ {"current"}]
                      \/ more = confirmed \cup {"current"}
                         /\ sheet' = [sheet EXCEPT !.current = TRUE,
                                                   !.confirmed = @ \cup {"current"}]
      BY <1>6, Zenon DEF TickCurrent, EditSheet
    <2>2. \/ more = confirmed \ {"current"}
             /\ sheet' = [page |-> page, pressure |-> pressure, maximum |-> maximum,
                          current |-> FALSE, confirmed |-> more]
          \/ more = confirmed \cup {"current"}
             /\ sheet' = [page |-> page, pressure |-> pressure, maximum |-> maximum,
                          current |-> TRUE, confirmed |-> more]
      BY <1>2, <2>1
    <2>3. "current" # "pressure"
      OBVIOUS
    <2>4. pressure => "pressure" \in agreed \/ "pressure" \in more
      BY <1>2, <2>2, <2>3, Zenon
    <2>5. CASE /\ more = confirmed \ {"current"}
               /\ sheet' = [page |-> page, pressure |-> pressure, maximum |-> maximum,
                            current |-> FALSE, confirmed |-> more]
      BY <1>1, <2>4, <2>5, SheetMade, Zenon
    <2>6. CASE /\ more = confirmed \cup {"current"}
               /\ sheet' = [page |-> page, pressure |-> pressure, maximum |-> maximum,
                            current |-> TRUE, confirmed |-> more]
      <3>1. "current" \in more
        BY <2>6
      <3> QED
        BY <1>1, <2>4, <2>6, <3>1, SheetMade, Zenon
    <2> QED
      BY <2>2, <2>5, <2>6
  <1> QED
    BY <1>3, <1>4, <1>5, <1>6

LEMMA SettingsStay ==
  ASSUME SettingsInv, [SettingsNext]_settingVars
  PROVE  SettingsInv' /\ [SavedAsInForce]_settingVars
  <1>1. /\ DOMAIN disk = Files /\ DOMAIN kept = Files
        /\ builtWith = inForce /\ working \in {Absent, inForce}
    BY Zenon DEF SettingsInv, RaisedAsAgreed
  <1>2. ASSUME UNCHANGED disk, saidSaved' = FALSE PROVE SavedAsInForce
    BY <1>2, Zenon DEF SavedAsInForce
  <1>3. ASSUME TurnPage \/ TypeMaximum \/ TickPressure \/ TickCurrent
        PROVE  SettingsInv' /\ SavedAsInForce
    <2>1. OnlySheet /\ InOrder(sheet', agreed)
      BY <1>3, TicksAreConfirmed
    <2> QED
      BY <1>1, <1>2, <2>1, SheetChanges, Zenon DEF OnlySheet
  <1>4. ASSUME OpenSheet \/ CloseSheet \/ OpenOperation \/ CloseOperation \/ Decline \/ ApplyFails
        PROVE  SettingsInv' /\ SavedAsInForce
    <2>1. /\ UNCHANGED <<inForce, builtWith, agreed, disk, kept>> /\ saidSaved' = FALSE
          /\ working' \in {Absent, builtWith, working}
      BY <1>4 DEF OpenSheet, CloseSheet, OpenOperation, CloseOperation, Decline, ApplyFails, Others
    <2>2. \/ sheet' = Absent
          \/ sheet' = sheet
          \/ \E page : sheet' = Sheet(page, inForce)
      BY <1>4, Zenon DEF OpenSheet, CloseSheet, OpenOperation, CloseOperation, Decline, ApplyFails,
                         Others, Refreshed
    <2>3. sheet' # Absent => InOrder(sheet', agreed)
      BY <2>2, InForceIsAgreed, Zenon DEF SettingsInv
    <2> QED
      BY <1>1, <1>2, <2>1, <2>3, SheetChanges, Zenon
  <1>5. CASE Restart
    <2>1. PICK s : s = disk[remembered]
      OBVIOUS
    <2>2. /\ Runs(s) /\ agreed' = Limits(s) /\ sheet' = Absent /\ working' = Absent
          /\ UNCHANGED <<disk, kept>> /\ saidSaved' = FALSE
      BY <1>5, <2>1, Zenon DEF Restart
    <2>3. RaisedAsAgreed'
      BY <2>2, ChosenIsAgreed, Zenon
    <2> QED
      BY <1>1, <1>2, <2>2, <2>3, Zenon DEF SettingsInv
  <1>6. ASSUME NEW file \in Files, ChooseFile(file)
        PROVE  SettingsInv' /\ SavedAsInForce
    <2>1. PICK s : s = disk[file]
      OBVIOUS
    <2>2. /\ Runs(s) /\ agreed' = Limits(s) /\ sheet' = Sheet(sheet.page, s)
          /\ working' = Absent /\ UNCHANGED <<disk, kept>> /\ saidSaved' = FALSE
      BY <1>6, <2>1, Zenon DEF ChooseFile, Refreshed
    <2>3. RaisedAsAgreed'
      BY <2>2, ChosenIsAgreed, Zenon
    <2>4. InOrder(sheet', agreed')
      BY <2>2, LimitsSay, SheetShows, Zenon
    <2> QED
      BY <1>1, <1>2, <2>2, <2>3, <2>4, Zenon DEF SettingsInv
  <1>7. CASE Apply
    <2>1. sheet # Absent /\ Applied /\ UNCHANGED <<disk, kept, working>> /\ saidSaved' = FALSE
      BY <1>7, Zenon DEF Apply
    <2>2. RaisedAsAgreed' /\ InOrder(sheet', agreed')
      BY <2>1, AppliedIsAgreed
    <2> QED
      BY <1>1, <1>2, <2>1, <2>2, Zenon DEF SettingsInv
  <1>8. ASSUME NEW file \in Files, NEW s, WriteSettings(s, file), inForce' = s
        PROVE  /\ DOMAIN disk' = Files /\ DOMAIN kept' = Files
               /\ SavedAsInForce
    BY <1>8, WritingDoes, Zenon DEF SavedAsInForce
  <1>9. CASE Save
    <2>1. PICK file \in Files : WriteSettings(Written, file)
      BY <1>9, Zenon DEF Save
    <2>2. sheet # Absent /\ Applied /\ UNCHANGED working
      BY <1>9, Zenon DEF Save
    <2>3. inForce' = Written
      BY <2>2, Zenon DEF Applied, Runs
    <2>4. RaisedAsAgreed' /\ InOrder(sheet', agreed')
      BY <2>2, AppliedIsAgreed
    <2> QED
      BY <1>8, <2>1, <2>3, <2>4, Zenon DEF SettingsInv
  <1>10. CASE SaveBesideInstrument
    <2>1. PICK file \in Files : WriteSettings(inForce, file)
      BY <1>10, Zenon DEF SaveBesideInstrument
    <2>2. /\ UNCHANGED <<inForce, builtWith, agreed, working>>
          /\ sheet' = Sheet(sheet.page, inForce)
      BY <1>10, Zenon DEF SaveBesideInstrument, Refreshed
    <2>3. DOMAIN disk' = Files /\ DOMAIN kept' = Files /\ SavedAsInForce
      BY <1>8, <2>1, <2>2
    <2>4. InOrder(sheet', agreed)
      BY <2>2, InForceIsAgreed
    <2>5. SettingsInv'
      BY <2>2, <2>3, <2>4, SheetChanges, Zenon
    <2> QED
      BY <2>3, <2>5
  <1>11. CASE UNCHANGED settingVars
    <2>1. UNCHANGED <<inForce, builtWith, agreed, working, disk, kept, sheet>>
      BY <1>11 DEF settingVars
    <2>2. sheet' # Absent => InOrder(sheet', agreed)
      BY <2>1, Zenon DEF SettingsInv
    <2> QED
      BY <1>1, <1>11, <2>1, <2>2, SheetChanges, Zenon
  <1> QED
    BY <1>3, <1>4, <1>5, <1>6, <1>7, <1>9, <1>10, <1>11, Zenon DEF SettingsNext

(* However sheets are edited, refused, refreshed, applied and saved, a limit is raised
   only as the operator agreed to, on the sheet or by choosing the file; the session and
   Operation work with the settings in force; and a file changes only to those, with what
   it held in its backup. *)
THEOREM SettingsAreAsAgreed == SettingsSpec => []RaisedAsAgreed /\ SettingsAsAgreed
  <1>1. SettingsInv => RaisedAsAgreed
    BY DEF SettingsInv
  <1>2. ASSUME SettingsInv, [SettingsNext]_settingVars
        PROVE  SettingsInv' /\ [StepAsAgreed]_settingVars
    <2>1. SettingsInv' /\ [SavedAsInForce]_settingVars
      BY <1>2, SettingsStay
    <2>2. RaisedAsAgreed'
      BY <2>1, Zenon DEF SettingsInv
    <2> QED
      BY <2>1, <2>2, Zenon DEF StepAsAgreed
  <1> QED
    BY <1>1, <1>2, SettingsStart, PTL DEF SettingsSpec, SettingsAsAgreed

=============================================================================

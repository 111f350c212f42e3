------------------------------- MODULE Config -------------------------------
(***************************************************************************)
(* The vocabulary the other modules share: the three sides, the fields of  *)
(* Config that steer control flow, and what NewIGMPReporter and Run derive *)
(* from a configuration.  Everything here is a function of the             *)
(* configuration c; module Setup shows that the constructor, executed      *)
(* block by block, opens exactly the sockets these operators name.         *)
(* (Module Configurations holds those the runs use.)                       *)
(***************************************************************************)
EXTENDS Naturals, Sequences, FiniteSets

\* The side IN of the source is INSIDE here: IN is a keyword of TLA+.
OUT    == "outside"
INSIDE == "inside"
ALTOUT == "altOutside"
Side   == {OUT, INSIDE, ALTOUT}

NoSide == "none"    \* the zero value 0 of type side: String() of it is ""

\* The flags of Config and of Testing that the code branches on.  AltOut is
\* len(AltOutIntName) > 0, the other fields carry their source names.
Config ==
  [AltOut                       : BOOLEAN,
   ProxyOutToIn                 : BOOLEAN,
   ProxyInToOut                 : BOOLEAN,
   UnicastProxyInToOut          : BOOLEAN,
   QueryNotify                  : BOOLEAN,
   MembershipReportsFromNetwork : BOOLEAN,
   MembershipReportsToNetwork   : BOOLEAN,
   UnicastMembershipReports     : BOOLEAN,
   LeaveToNetwork               : BOOLEAN,
   ConnectQueryToReport         : BOOLEAN,
   MembershipReportsReader      : BOOLEAN]

AltOutExists(c) == c.AltOut

Interfaces(c) == IF AltOutExists(c) THEN {INSIDE, OUT, ALTOUT} ELSE {INSIDE, OUT}

\* A nil map, hence empty, unless there is an alternative outside interface.
OutsideInterfaces(c) == IF AltOutExists(c) THEN {OUT, ALTOUT} ELSE {}

-----------------------------------------------------------------------------
\* Sides for which Run starts recvIGMP goroutines, one per multicast group.
RecvSides(c) ==
  (IF c.ProxyOutToIn \/ c.QueryNotify \/ c.MembershipReportsFromNetwork
     THEN Interfaces(c) \ {INSIDE} ELSE {})
  \cup (IF c.ProxyInToOut THEN {INSIDE} ELSE {})

\* Sides whose conRaw entry the constructor fills; any other entry is nil.
RawSides(c) ==
  (IF c.UnicastProxyInToOut \/ c.ProxyInToOut \/ c.MembershipReportsToNetwork
     THEN {OUT} ELSE {})
  \cup (IF c.ProxyOutToIn THEN {INSIDE} ELSE {})

\* Sides whose mConIGMP entries (one socket per group) the constructor fills.
McastSides(c) ==
  (IF c.QueryNotify \/ c.MembershipReportsFromNetwork \/ c.ProxyOutToIn
     THEN {OUT} ELSE {})
  \cup (IF c.ProxyInToOut \/ c.MembershipReportsToNetwork THEN {INSIDE} ELSE {})
  \cup (IF AltOutExists(c) /\ (c.ProxyOutToIn \/ c.ProxyInToOut
                               \/ c.MembershipReportsToNetwork)
          THEN {ALTOUT} ELSE {})

\* Whether packets received on a side are relayed at all.
proxyIt(c, s) ==
  \/ s = OUT /\ c.ProxyOutToIn
  \/ s = INSIDE /\ c.ProxyInToOut

-----------------------------------------------------------------------------
\* NetIFIndex is filled in the order IN, OUT, ALTOUT, so when two names
\* denote the same kernel interface the later side owns its index; an index
\* that is not in the map reads as the zero side.  ifIndex maps each
\* configured side to the kernel's index for it.
NetIFIndex(c, ifIndex, i) ==
  LET owners == {s \in Interfaces(c) : ifIndex[s] = i}
  IN  IF ALTOUT \in owners THEN ALTOUT
      ELSE IF OUT \in owners THEN OUT
      ELSE IF INSIDE \in owners THEN INSIDE
      ELSE NoSide

\* IntOutName as the constructor stores it.  There is no entry for ALTOUT.
InitialIntOutName == [s \in {INSIDE, OUT} |-> IF s = INSIDE THEN OUT ELSE INSIDE]
=============================================================================

--------------------------- MODULE Encodings_proofs ---------------------------
(***************************************************************************)
(* What is written is read back, whatever the text, its length, the calls  *)
(* of a builder and the blanks behind a name; a connection string means    *)
(* what it was written for; both clients make the same of a column and of  *)
(* the counts of an execution; a name in a statement becomes a question    *)
(* mark, which stands for it alone; and each error of a failed request is  *)
(* told with its own arguments.                                            *)
(***************************************************************************)
EXTENDS Encodings, SequenceTheorems, FiniteSetTheorems, WellFoundedInduction, TLAPS

IsText(t) == t = [w |-> t.w, enc |-> t.enc] /\ t.enc \in Nat

WantOK(w) ==
  /\ w = [user |-> w.user, pass |-> w.pass, port |-> w.port, host |-> w.host, db |-> w.db,
         lib |-> w.lib, role |-> w.role, dialect |-> w.dialect]
  /\ w.db = [drive |-> w.db.drive, slashes |-> w.db.slashes, rest |-> w.db.rest]
  /\ IsText(w.user) /\ IsText(w.pass) /\ IsText(w.host) /\ IsText(w.lib) /\ IsText(w.role)
  /\ IsText(w.db.drive) /\ IsText(w.db.rest) /\ w.port \in Nat /\ w.db.slashes \in Nat
  /\ w.dialect \in {Nothing, Text("1", 0), Text("2", 0), Text("3", 0), Text("9", 0)}
  /\ w.host = Nothing => w.user = Nothing /\ w.pass = Nothing /\ w.port = 0
  /\ w.host # Nothing => w.db.drive = Nothing
  /\ w.db.drive # Nothing => w.db.drive.w \in Drives /\ w.db.slashes = 0
  /\ w.db.rest # Nothing

LEMMA DecodeEncode ==
  ASSUME NEW t, IsText(t)
  PROVE  /\ decode(Encode(t)) = t
         /\ IsText(Encode(t))
         /\ (Encode(t) = Nothing) <=> (t = Nothing)
         /\ Encode(t).w = t.w
<1>1. CASE t = Nothing
  <2>1. Encode(t) = t /\ t.enc = 0
    BY <1>1 DEF Encode, Nothing
  <2>2. decode(t) = t
    BY <2>1 DEF decode
  <2> QED BY <1>1, <2>1, <2>2
<1>2. CASE t # Nothing
  <2> DEFINE u == Encode(t)
  <2>1. u = [t EXCEPT !.enc = @ + 1]
    BY <1>2 DEF Encode
  <2>2. u = [w |-> t.w, enc |-> t.enc + 1]
    <3>1. PICK a, n : t = [w |-> a, enc |-> n] /\ n \in Nat
      BY DEF IsText
    <3> QED BY <2>1, <3>1
  <2> HIDE DEF u
  <2>3. u.w = t.w /\ u.enc = t.enc + 1 /\ u.enc > 0 /\ IsText(u)
    BY <2>2 DEF IsText
  <2>4. decode(u) = [u EXCEPT !.enc = @ - 1]
    BY <2>3 DEF decode
  <2>5. decode(u) = [w |-> t.w, enc |-> t.enc]
    <3>1. PICK a, n : t = [w |-> a, enc |-> n] /\ n \in Nat
      BY DEF IsText
    <3>2. u = [w |-> a, enc |-> n + 1]
      BY <2>2, <3>1
    <3>3. decode(u) = [w |-> a, enc |-> (n + 1) - 1] /\ (n + 1) - 1 = n
      BY <2>4, <3>1, <3>2
    <3> QED BY <3>1, <3>3
  <2>6. decode(u) = t
    BY <2>5 DEF IsText
  <2>7. u # Nothing
    <3>1. Nothing.enc = 0
      BY DEF Nothing
    <3> QED BY <2>3, <3>1
  <2> QED BY <1>2, <2>3, <2>6, <2>7 DEF u
<1> QED BY <1>1, <1>2

LEMMA ParseWritten ==
  ASSUME NEW w, WantOK(w), w.lib.enc = 0,
         w.host.w \in Drives => w.user # Nothing \/ w.pass # Nothing \/ w.port # 0
  PROVE  parse_string(Write(w)) = [w EXCEPT !.dialect = IF @.w = "9" THEN Nothing ELSE @]
<1> DEFINE url == Write(w)
           remote == w.host # Nothing
           file == ~remote /\ w.db.drive = Nothing /\ w.db.slashes = 0
<1>1. /\ IsText(w.user) /\ IsText(w.pass) /\ IsText(w.host) /\ IsText(w.lib) /\ IsText(w.role)
      /\ IsText(w.db.drive) /\ IsText(w.db.rest) /\ w.port \in Nat /\ w.db.slashes \in Nat
      /\ w.dialect \in {Nothing, Text("1", 0), Text("2", 0), Text("3", 0), Text("9", 0)}
      /\ w.db = [drive |-> w.db.drive, slashes |-> w.db.slashes, rest |-> w.db.rest]
  BY DEF WantOK
<1>2. IsText(w.dialect)
  <2>1. IsText(Nothing) /\ IsText(Text("1", 0)) /\ IsText(Text("2", 0)) /\ IsText(Text("3", 0)) /\ IsText(Text("9", 0))
    BY DEF Nothing, Text, IsText
  <2> QED BY <1>1, <2>1
<1>3. /\ url.user = Encode(w.user) /\ url.pass = Encode(w.pass) /\ url.port = w.port
      /\ url.host = IF remote THEN Encode(w.host)
                    ELSE IF file THEN Encode(w.db.rest) ELSE Encode(w.db.drive)
      /\ url.path = IF file THEN NoPath
                    ELSE Path(Nothing, w.db.slashes + (IF remote \/ w.db.drive # Nothing THEN 1 ELSE 0),
                              Encode(w.db.rest))
      /\ url.query["lib"] = w.lib /\ url.query["role"] = w.role /\ url.query["dialect"] = w.dialect
  <2> DEFINE q == [lib |-> Encode(w.lib), role |-> Encode(w.role), dialect |-> Encode(w.dialect)]
  <2>1. url.query = [k \in DOMAIN q |-> decode(q[k])]
    BY DEF Write, Url
  <2>2. /\ url.query["lib"] = decode(Encode(w.lib)) /\ url.query["role"] = decode(Encode(w.role))
        /\ url.query["dialect"] = decode(Encode(w.dialect))
    BY <2>1
  <2>3. decode(Encode(w.lib)) = w.lib /\ decode(Encode(w.role)) = w.role
        /\ decode(Encode(w.dialect)) = w.dialect
    BY <1>1, <1>2, DecodeEncode
  <2> QED BY <2>2, <2>3 DEF Write, Url
<1> HIDE DEF url
<1>4. /\ decode(url.user) = w.user /\ decode(url.pass) = w.pass
      /\ (url.user = Nothing <=> w.user = Nothing) /\ (url.pass = Nothing <=> w.pass = Nothing)
  BY <1>1, <1>3, DecodeEncode
<1>5. decode(url.query["lib"]) = w.lib
  BY <1>3 DEF decode
<1> DEFINE host == decode(url.host)
           db == db_of(url)
           local == HostIsPath(url, host, db)
<1>6. /\ local <=> ~remote /\ (file \/ w.db.drive # Nothing)
      /\ ~local => host = w.host /\ db = w.db
      /\ local => IF db = NoPath THEN Path(Nothing, 0, host) = w.db ELSE [db EXCEPT !.drive = host] = w.db
  <2>1. CASE file
    <3>1. db = NoPath /\ host = w.db.rest /\ host # Nothing
      BY <1>1, <1>3, <2>1, DecodeEncode DEF db_of, WantOK
    <3>2. url.user = Nothing /\ url.pass = Nothing /\ url.port = 0
      BY <1>3, <1>4, <2>1 DEF WantOK
    <3>3. local
      BY <3>1, <3>2 DEF HostIsPath
    <3>4. Path(Nothing, 0, host) = w.db
      BY <1>1, <2>1, <3>1 DEF Path
    <3> QED BY <2>1, <3>1, <3>3, <3>4
  <2>2. CASE ~file
    <3> DEFINE more == IF remote \/ w.db.drive # Nothing THEN 1 ELSE 0
    <3>1. url.path = [drive |-> Nothing, slashes |-> w.db.slashes + more, rest |-> Encode(w.db.rest)]
      BY <1>3, <2>2 DEF Path
    <3>2. Encode(w.db.rest) # Nothing /\ decode(Encode(w.db.rest)) = w.db.rest
      BY <1>1, DecodeEncode DEF WantOK
    <3>3. url.path # NoPath
      BY <3>1, <3>2 DEF NoPath, Path
    <3>4. url.host # Nothing <=> remote \/ w.db.drive # Nothing
      BY <1>1, <1>3, <2>2, DecodeEncode
    <3>5. db = [drive |-> Nothing, slashes |-> w.db.slashes, rest |-> w.db.rest]
      <4>1. db = [url.path EXCEPT !.rest = decode(@),
                                  !.slashes = IF @ > 0 /\ url.host # Nothing THEN @ - 1 ELSE @]
        BY <3>3 DEF db_of
      <4>2. more \in {0, 1} /\ (more = 1 <=> url.host # Nothing)
        BY <3>4
      <4> HIDE DEF more
      <4>3. PICK slashes : slashes = w.db.slashes
        OBVIOUS
      <4>4. PICK rest : rest = Encode(w.db.rest)
        OBVIOUS
      <4>5. url.path = [drive |-> Nothing, slashes |-> slashes + more, rest |-> rest]
        BY <3>1, <4>3, <4>4
      <4>6. PICK decoded, less :
              /\ decoded = decode(rest)
              /\ less = IF slashes + more > 0 /\ url.host # Nothing THEN (slashes + more) - 1
                        ELSE slashes + more
        OBVIOUS
      <4>7. db = [url.path EXCEPT !.rest = decoded, !.slashes = less]
        BY <4>1, <4>5, <4>6
      <4>8. db = [drive |-> Nothing, slashes |-> less, rest |-> decoded]
        <5>1. PICK path, none, all : path = url.path /\ none = Nothing /\ all = slashes + more
          OBVIOUS
        <5>2. path = [drive |-> none, slashes |-> all, rest |-> rest]
          BY <4>5, <5>1
        <5>3. [path EXCEPT !.rest = decoded, !.slashes = less]
              = [drive |-> none, slashes |-> less, rest |-> decoded]
          <6>1. [path EXCEPT !.rest = decoded] = [drive |-> none, slashes |-> all, rest |-> decoded]
            BY <5>2
          <6>2. [[drive |-> none, slashes |-> all, rest |-> decoded] EXCEPT !.slashes = less]
                = [drive |-> none, slashes |-> less, rest |-> decoded]
            OBVIOUS
          <6> QED BY <6>1, <6>2, Zenon
        <5> QED BY <4>7, <5>1, <5>3
      <4>9. less = slashes
        BY <1>1, <4>2, <4>3, <4>6
      <4> QED BY <3>2, <4>3, <4>4, <4>6, <4>8, <4>9
    <3>6. host = IF remote THEN w.host ELSE w.db.drive
      BY <1>1, <1>3, <2>2, DecodeEncode
    <3>7. db # NoPath
      BY <3>5 DEF NoPath, Path, WantOK
    <3>8. local <=> ~remote /\ w.db.drive # Nothing
      <4>1. CASE remote
        BY <1>3, <1>4, <3>6, <3>7, <4>1 DEF HostIsPath, WantOK
      <4>2. CASE ~remote
        BY <1>3, <1>4, <3>6, <3>7, <4>2 DEF HostIsPath, WantOK
      <4> QED BY <4>1, <4>2
    <3>9. CASE local
      <4>1. [db EXCEPT !.drive = host] = [drive |-> w.db.drive, slashes |-> w.db.slashes, rest |-> w.db.rest]
        BY <3>5, <3>6, <3>8, <3>9
      <4> QED BY <1>1, <2>2, <3>7, <3>8, <3>9, <4>1
    <3>10. CASE ~local
      <4>1. w.db.drive = Nothing
        BY <3>8, <3>10 DEF WantOK
      <4>2. w.db = [drive |-> w.db.drive, slashes |-> w.db.slashes, rest |-> w.db.rest]
        BY <1>1
      <4>3. remote => host = w.host
        BY <3>6
      <4>4. ~remote => host = w.host
        BY <3>6, <4>1
      <4> QED BY <2>2, <3>5, <3>8, <3>10, <4>1, <4>2, <4>3, <4>4
    <3> QED BY <3>9, <3>10
  <2> QED BY <2>1, <2>2
<1> DEFINE dialect == IF url.query["dialect"].w \in {"1", "2", "3"} THEN url.query["dialect"] ELSE Nothing
<1>7. dialect = IF w.dialect.w = "9" THEN Nothing ELSE w.dialect
  <2>1. w.dialect = Nothing \/ w.dialect.w \in {"1", "2", "3", "9"}
    BY <1>1 DEF Text
  <2>2. Nothing.w = ""
    BY DEF Nothing
  <2> QED BY <1>3, <2>1, <2>2
<1> DEFINE h == IF local THEN Nothing ELSE host
           d == IF ~local THEN db
                ELSE IF db = NoPath THEN Path(Nothing, 0, host) ELSE [db EXCEPT !.drive = host]
<1>8. h = w.host /\ d = w.db
  BY <1>6
<1>9. parse_string(url) = [user |-> w.user, pass |-> w.pass, port |-> w.port, host |-> h, db |-> d,
                           lib |-> w.lib, role |-> w.role, dialect |-> dialect]
  <2>1. parse_string(url) = [user |-> decode(url.user), pass |-> decode(url.pass), port |-> url.port,
          host |-> h, db |-> d, lib |-> decode(url.query["lib"]), role |-> url.query["role"],
          dialect |-> dialect]
    BY DEF parse_string
  <2> HIDE DEF h, d, dialect
  <2> QED BY <1>3, <1>4, <1>5, <2>1
<1> HIDE DEF h, d, dialect
<1> QED BY <1>7, <1>8, <1>9 DEF url, WantOK

BuilderFields == {"host", "port", "user", "pass", "db", "role", "lib", "dialect", "error"}

LEMMA FromString ==
  ASSUME NEW b, DOMAIN b = BuilderFields, NEW url, NEW s, s = parse_string(url), s.db # NoPath
  PROVE  LET r == from_string(b, url)
         IN /\ r.host = Given(s.host, b.host) /\ r.port = IF s.port = 0 THEN b.port ELSE s.port
            /\ r.user = Given(s.user, b.user) /\ r.pass = Given(s.pass, b.pass)
            /\ r.db = s.db /\ r.role = Given(s.role, b.role)
            /\ r.dialect = Given(s.dialect, b.dialect)
            /\ r.lib = b.lib /\ r.error = b.error
<1>1. PICK host, port, user, pass, role, dialect :
        /\ host = Given(s.host, b.host) /\ port = IF s.port = 0 THEN b.port ELSE s.port
        /\ user = Given(s.user, b.user) /\ pass = Given(s.pass, b.pass)
        /\ role = Given(s.role, b.role) /\ dialect = Given(s.dialect, b.dialect)
  OBVIOUS
<1>2. PICK r, db : r = from_string(b, url) /\ db = s.db
  OBVIOUS
<1>3. r = [b EXCEPT !.host = host, !.port = port, !.user = user, !.pass = pass, !.db = db,
                    !.role = role, !.dialect = dialect]
  BY <1>1, <1>2 DEF from_string
<1>4. /\ r.host = host /\ r.port = port /\ r.user = user /\ r.pass = pass /\ r.db = db
      /\ r.role = role /\ r.dialect = dialect /\ r.lib = b.lib /\ r.error = b.error
  BY <1>3 DEF BuilderFields
<1> QED BY <1>1, <1>2, <1>4

LEMMA NativeFromString ==
  ASSUME NEW b, DOMAIN b = BuilderFields, NEW url, NEW s, s = parse_string(url), s.db # NoPath,
         s.host # Nothing
  PROVE  LET r == native_from_string(b, url)
         IN /\ r.host = s.host /\ r.port = IF s.port = 0 THEN Remote.port ELSE s.port
            /\ r.user = Given(s.user, b.user) /\ r.pass = Given(s.pass, Remote.pass)
            /\ r.db = s.db /\ r.role = Given(s.role, b.role)
            /\ r.dialect = Given(s.dialect, b.dialect)
            /\ r.lib = Given(s.lib, b.lib) /\ r.error = b.error
<1>1. PICK host, port, user, pass :
        /\ host = s.host /\ port = IF s.port = 0 THEN Remote.port ELSE s.port
        /\ user = Given(s.user, b.user) /\ pass = Given(s.pass, Remote.pass)
  OBVIOUS
<1>2. PICK role, dialect, lib :
        /\ role = Given(s.role, b.role) /\ dialect = Given(s.dialect, b.dialect)
        /\ lib = Given(s.lib, b.lib)
  OBVIOUS
<1>3. PICK r, db : r = native_from_string(b, url) /\ db = s.db
  OBVIOUS
<1>4. PICK local : local = [b EXCEPT !.db = db, !.role = role, !.lib = lib, !.dialect = dialect]
  OBVIOUS
<1>5. /\ DOMAIN local = BuilderFields /\ local.user = b.user /\ local.error = b.error
      /\ local.db = db /\ local.role = role /\ local.lib = lib /\ local.dialect = dialect
  BY <1>4 DEF BuilderFields
<1>6. r = [local EXCEPT !.host = host, !.port = port, !.user = user, !.pass = pass]
  <2>1. r = [local EXCEPT !.host = s.host, !.port = IF s.port = 0 THEN Remote.port ELSE s.port,
                          !.user = Given(s.user, @), !.pass = Given(s.pass, Remote.pass)]
    BY <1>2, <1>3, <1>4 DEF native_from_string
  <2> QED BY <1>1, <1>5, <2>1
<1>7. /\ r.host = host /\ r.port = port /\ r.user = user /\ r.pass = pass /\ r.db = db
      /\ r.role = role /\ r.dialect = dialect /\ r.lib = lib /\ r.error = b.error
  BY <1>5, <1>6 DEF BuilderFields
<1> QED BY <1>1, <1>2, <1>3, <1>7

\* What ConnStringsMean says of a string.
LEMMA WrittenIsMeant ==
  ASSUME NEW w, WantOK(w), w.lib.enc = 0,
         w.host.w \in Drives => w.user # Nothing \/ w.pass # Nothing \/ w.port # 0
  PROVE  LET url == Write(w)
             wire == from_string(Configured, url)
         IN /\ parse_string(url) = [w EXCEPT !.dialect = IF @.w = "9" THEN Nothing ELSE @]
            /\ wire.db = w.db /\ wire.user = Given(w.user, Configured.user)
            /\ wire.pass = Given(w.pass, Configured.pass) /\ wire.host = Given(w.host, Configured.host)
            /\ wire.port = IF w.port = 0 THEN Configured.port ELSE w.port
            /\ w.host # Nothing =>
                 \A f \in DOMAIN Default0 \ {"lib"} :
                   from_string(Default0, url)[f] = native_from_string(Default0, url)[f]
<1>1. PICK url : url = Write(w)
  OBVIOUS
<1>2. PICK s : s = parse_string(url)
  OBVIOUS
<1>3. s = [w EXCEPT !.dialect = IF @.w = "9" THEN Nothing ELSE @]
  BY <1>1, <1>2, ParseWritten
<1>4. /\ s.user = w.user /\ s.pass = w.pass /\ s.port = w.port /\ s.host = w.host /\ s.db = w.db
      /\ s.lib = w.lib /\ s.role = w.role
  <2>1. DOMAIN w = {"user", "pass", "port", "host", "db", "lib", "role", "dialect"}
    <3>1. PICK user, pass, port, host, db, lib, role, dialect :
            w = [user |-> user, pass |-> pass, port |-> port, host |-> host, db |-> db,
                 lib |-> lib, role |-> role, dialect |-> dialect]
      BY DEF WantOK
    <3> QED BY <3>1
  <2>2. PICK dialect : s = [w EXCEPT !.dialect = dialect]
    BY <1>3
  <2> QED BY <2>1, <2>2
<1>5. s.db # NoPath
  <2>1. NoPath.rest = Nothing
    BY DEF NoPath, Path
  <2> QED BY <1>4, <2>1 DEF WantOK
<1>6. DOMAIN Configured = BuilderFields
  BY DEF Configured, BuilderFields
<1>7. /\ DOMAIN Default0 = BuilderFields /\ Default0.port = Remote.port
      /\ Default0.pass = Remote.pass
  <2>1. PICK host, port, pass : host = Remote.host /\ port = Remote.port /\ pass = Remote.pass
    OBVIOUS
  <2>2. Default0 = [Configured EXCEPT !.host = host, !.port = port, !.pass = pass]
    BY <2>1 DEF Default0
  <2> QED BY <1>6, <2>1, <2>2 DEF BuilderFields
<1>8. PICK wire : wire = from_string(Configured, url)
  OBVIOUS
<1>9. /\ wire.db = w.db /\ wire.user = Given(w.user, Configured.user)
      /\ wire.pass = Given(w.pass, Configured.pass) /\ wire.host = Given(w.host, Configured.host)
      /\ wire.port = IF w.port = 0 THEN Configured.port ELSE w.port
  BY <1>2, <1>4, <1>5, <1>6, <1>8, FromString
<1>10. ASSUME w.host # Nothing, NEW f \in DOMAIN Default0 \ {"lib"}
       PROVE  from_string(Default0, url)[f] = native_from_string(Default0, url)[f]
  <2>1. PICK one, other, b : /\ one = from_string(Default0, url) /\ other = native_from_string(Default0, url)
                            /\ b = Default0
    OBVIOUS
  <2>2. /\ one.host = Given(s.host, b.host) /\ one.port = IF s.port = 0 THEN b.port ELSE s.port
        /\ one.user = Given(s.user, b.user) /\ one.pass = Given(s.pass, b.pass)
        /\ one.db = s.db /\ one.role = Given(s.role, b.role)
        /\ one.dialect = Given(s.dialect, b.dialect)
        /\ one.lib = b.lib /\ one.error = b.error
    BY <1>2, <1>5, <1>7, <2>1, FromString
  <2>3. /\ other.host = s.host /\ other.port = IF s.port = 0 THEN Remote.port ELSE s.port
        /\ other.user = Given(s.user, b.user) /\ other.pass = Given(s.pass, Remote.pass)
        /\ other.db = s.db /\ other.role = Given(s.role, b.role)
        /\ other.dialect = Given(s.dialect, b.dialect) /\ other.error = b.error
    BY <1>2, <1>4, <1>5, <1>7, <1>10, <2>1, NativeFromString
  <2>4. Given(s.host, b.host) = s.host
    BY <1>4, <1>10 DEF Given
  <2>5. f \in BuilderFields \ {"lib"}
    BY <1>7
  <2> QED BY <1>7, <2>1, <2>2, <2>3, <2>4, <2>5 DEF BuilderFields
<1> QED BY <1>1, <1>2, <1>3, <1>8, <1>9, <1>10

\* A set that has zero, and with a number the next one, has them all.
LEMMA Counting ==
  ASSUME NEW n \in Nat, NEW T, 0 \in T,
         \A k \in 0 .. n : k < n /\ k \in T => k + 1 \in T
  PROVE  \A k \in 0 .. n : k \in T
<1> DEFINE Below == {ss \in Nat \X Nat : ss[1] < ss[2]}
           Unsolved == {k \in 0 .. n : k \notin T}
<1>1. IsWellFoundedOn(Below, Nat)
  BY NatLessThanWellFounded DEF OpToRel
<1>2. CASE Unsolved # {}
  <2>1. PICK x \in Unsolved : \A y \in Unsolved : ~ (<<y, x>> \in Below)
    <3> HIDE DEF Below
    <3>1. Unsolved \subseteq Nat
      OBVIOUS
    <3> HIDE DEF Unsolved
    <3> QED BY <1>1, <1>2, <3>1, WFMin
  <2>2. x \in 1 .. n /\ x - 1 \in 0 .. n /\ x - 1 < n
    <3>1. x # 0 /\ x \in 0 .. n
      OBVIOUS
    <3> QED BY <3>1
  <2>3. x - 1 \in T
    <3>1. <<x - 1, x>> \in Below
      BY <2>2
    <3> QED BY <2>1, <2>2, <3>1
  <2>4. (x - 1) + 1 \in T
    BY <2>2, <2>3
  <2> QED BY <2>2, <2>4
<1> QED BY <1>2

\* A recursive function has the values its definition gives it, if each of them
\* depends only on the values of a lower rank.
Lower(D, V, rank, S) ==
  \A d \in D : \A f, g \in [D -> V] :
    (\A e \in D : rank[e] < rank[d] => f[e] = g[e]) => S[<<d, f>>] = S[<<d, g>>]
Solved(D, V, S) == \E h \in [D -> V] : \A d \in D : h[d] = S[<<d, h>>]
LEMMA Recursion ==
  ASSUME NEW D, NEW V, NEW v \in V, NEW n \in Nat, NEW rank \in [D -> 0 .. n],
         NEW S \in [D \X [D -> V] -> V], Lower(D, V, rank, S)
  PROVE  Solved(D, V, S)
<1> USE DEF Lower, Solved
<1> DEFINE Good(m, f) == \A d \in D : rank[d] =< m => f[d] = S[<<d, f>>]
           T == {m \in 0 .. n : \E f \in [D -> V] : Good(m, f)}
<1>1. ASSUME NEW f \in [D -> V]
      PROVE  [d \in D |-> S[<<d, f>>]] \in [D -> V]
  OBVIOUS
<1>2. 0 \in T
  <2> DEFINE f == [d \in D |-> v]
             g == [d \in D |-> S[<<d, f>>]]
  <2>1. f \in [D -> V]
    OBVIOUS
  <2>2. g \in [D -> V]
    BY <1>1, <2>1
  <2> HIDE DEF f
  <2>3. ASSUME NEW d \in D, rank[d] =< 0 PROVE g[d] = S[<<d, g>>]
    <3>1. \A e \in D : ~(rank[e] < rank[d])
      BY <2>3
    <3>2. g[d] = S[<<d, f>>]
      OBVIOUS
    <3> HIDE DEF g
    <3> QED BY <2>1, <2>2, <3>1, <3>2
  <2> HIDE DEF g
  <2>4. Good(0, g)
    BY <2>3
  <2> QED BY <2>2, <2>4
<1>3. ASSUME NEW m \in 0 .. n, m < n, m \in T PROVE m + 1 \in T
  <2>1. PICK f \in [D -> V] : Good(m, f)
    BY <1>3
  <2> DEFINE g == [d \in D |-> S[<<d, f>>]]
  <2>2. g \in [D -> V]
    BY <1>1
  <2>3. ASSUME NEW d \in D, rank[d] =< m + 1 PROVE g[d] = S[<<d, g>>]
    <3>1. ASSUME NEW e \in D, rank[e] < rank[d] PROVE f[e] = g[e]
      <4>1. rank[e] =< m
        BY <2>3, <3>1
      <4> QED BY <2>1, <4>1
    <3>2. g[d] = S[<<d, f>>]
      OBVIOUS
    <3> HIDE DEF g
    <3> QED BY <2>2, <3>1, <3>2
  <2> HIDE DEF g
  <2>4. Good(m + 1, g)
    BY <2>3
  <2> QED BY <1>3, <2>2, <2>4
<1>4. \A m \in 0 .. n : m \in T
  <2> HIDE DEF T
  <2> QED BY <1>2, <1>3, Counting
<1>5. PICK h \in [D -> V] : Good(n, h)
  <2>1. n \in 0 .. n
    OBVIOUS
  <2> HIDE DEF Good
  <2>2. n \in T
    BY <1>4, <2>1
  <2> QED BY <2>2
<1>6. \A d \in D : rank[d] =< n
  OBVIOUS
<1> QED BY <1>5, <1>6

\* f[i] is the first i sequences of q, joined.
Folded(q, f) ==
  /\ f[1] = q[1]
  /\ \A i \in 2 .. Len(q) : f[i] = f[i - 1] \o q[i]

\* Joined one after the other, they give what the library's recursion gives.
LEMMA FlattenIs ==
  ASSUME NEW S, NEW q \in Seq(Seq(S)), Len(q) > 0,
         NEW f \in [1 .. Len(q) -> Seq(S)], Folded(q, f)
  PROVE  FlattenSeq(q) = f[Len(q)]
<1> DEFINE n == Len(q)
           Step(g) == [i \in 1 .. n |-> IF i = 1 THEN q[i] ELSE g[i - 1] \o q[i]]
           h == CHOOSE g : g = Step(g)
<1>1. n \in Nat /\ n > 0
  BY LenProperties
<1>2. FlattenSeq(q) = h[n]
  BY <1>1 DEF FlattenSeq
<1>3. f = Step(f)
  <2>1. ASSUME NEW i \in 1 .. n PROVE f[i] = IF i = 1 THEN q[i] ELSE f[i - 1] \o q[i]
    <3>1. CASE i = 1
      BY <3>1, Zenon DEF Folded
    <3>2. CASE i # 1
      <4>1. i \in 2 .. Len(q)
        BY <1>1, <3>2
      <4> QED BY <3>2, <4>1, Zenon DEF Folded
    <3> QED BY <3>1, <3>2
  <2> QED BY <2>1, Zenon
<1>4. h = Step(h)
  BY <1>3, Zenon
<1> HIDE DEF h
<1>5. \A i \in 1 .. n : h[i] = IF i = 1 THEN q[i] ELSE h[i - 1] \o q[i]
  BY <1>4
<1> DEFINE T == {k \in 0 .. n : k = 0 \/ h[k] = f[k]}
<1>6. \A k \in 0 .. n : k < n /\ k \in T => k + 1 \in T
  <2> SUFFICES ASSUME NEW k \in 0 .. n, k < n, k \in T PROVE k + 1 \in T
    OBVIOUS
  <2>1. k + 1 \in 1 .. n /\ (k + 1) - 1 = k
    BY <1>1
  <2>2. CASE k = 0
    <3>1. h[1] = f[1] /\ k + 1 = 1 /\ 1 \in 0 .. n
      BY <1>1, <1>5, <2>2 DEF Folded
    <3> QED BY <3>1
  <2>3. CASE k # 0
    <3>1. k + 1 \in 2 .. n
      BY <2>1, <2>3
    <3>2. h[k] = f[k]
      BY <2>3
    <3>3. f[k + 1] = f[k] \o q[k + 1]
      BY <2>1, <3>1 DEF Folded
    <3>4. h[k + 1] = h[k] \o q[k + 1]
      <4>1. k + 1 # 1
        BY <2>3
      <4>2. h[k + 1] = h[(k + 1) - 1] \o q[k + 1]
        BY <1>5, <2>1, <4>1
      <4> QED BY <2>1, <4>2
    <3>5. k + 1 \in 0 .. n
      BY <2>1
    <3> QED BY <3>2, <3>3, <3>4, <3>5
  <2> QED BY <2>2, <2>3
<1>7. 0 \in T
  BY <1>1
<1>8. \A k \in 0 .. n : k \in T
  <2> HIDE DEF T, n
  <2> QED BY <1>1, <1>6, <1>7, Counting
<1>9. n \in T
  <2>1. n \in 0 .. n
    BY <1>1
  <2> HIDE DEF T, n
  <2> QED BY <1>8, <2>1
<1> QED BY <1>1, <1>2, <1>9

\* One sequence more.
LEMMA FoldedMore ==
  ASSUME NEW S, NEW q \in Seq(Seq(S)), NEW x \in Seq(S),
         NEW f \in [1 .. Len(q) -> Seq(S)], Len(q) > 0 => Folded(q, f)
  PROVE  \E g \in [1 .. Len(q) + 1 -> Seq(S)] :
            /\ Folded(Append(q, x), g)
            /\ g[Len(q) + 1] = IF Len(q) = 0 THEN x ELSE f[Len(q)] \o x
<1> DEFINE n == Len(q)
           r == Append(q, x)
           last == IF n = 0 THEN x ELSE f[n] \o x
           g == [i \in 1 .. n + 1 |-> IF i = n + 1 THEN last ELSE f[i]]
<1>1. n \in Nat
  BY LenProperties
<1>2. /\ Len(r) = n + 1 /\ r[n + 1] = x
      /\ \A i \in 1 .. n : r[i] = q[i]
  BY AppendProperties
<1>3. last \in Seq(S)
  <2>1. CASE n = 0
    BY <2>1
  <2>2. CASE n # 0
    <3>1. n \in 1 .. n
      BY <1>1, <2>2
    <3>2. f[n] \in Seq(S)
      BY <3>1
    <3> QED BY <2>2, <3>2, ConcatProperties
  <2> QED BY <2>1, <2>2
<1> HIDE DEF last
<1>4. /\ g \in [1 .. n + 1 -> Seq(S)] /\ g[n + 1] = last
      /\ \A i \in 1 .. n : g[i] = f[i]
  BY <1>1, <1>3
<1> HIDE DEF g, r
<1>5. Folded(r, g)
  <2>1. CASE n = 0
    BY <1>1, <1>2, <1>4, <2>1 DEF Folded, last
  <2>2. CASE n # 0
    <3>0. Folded(q, f) /\ 1 \in 1 .. n
      BY <1>1, <2>2
    <3>1. g[1] = r[1]
      <4>1. f[1] = q[1]
        BY <3>0 DEF Folded
      <4> QED BY <1>2, <1>4, <3>0, <4>1
    <3>2. ASSUME NEW i \in 2 .. n + 1 PROVE g[i] = g[i - 1] \o r[i]
      <4>1. CASE i = n + 1
        <5>1. i - 1 = n /\ n \in 1 .. n
          BY <1>1, <2>2, <4>1
        <5> QED BY <1>2, <1>4, <2>2, <4>1, <5>1 DEF last
      <4>2. CASE i # n + 1
        <5>1. i \in 2 .. n /\ i \in 1 .. n /\ i - 1 \in 1 .. n
          BY <1>1, <4>2
        <5>2. f[i] = f[i - 1] \o q[i]
          BY <3>0, <5>1 DEF Folded
        <5> QED BY <1>2, <1>4, <5>1, <5>2
      <4> QED BY <4>1, <4>2
    <3> QED BY <1>2, <3>1, <3>2 DEF Folded
  <2> QED BY <2>1, <2>2
<1> QED BY <1>4, <1>5 DEF r, last

\* The first k sequences.
Upto(q, k) == SubSeq(q, 1, k)

\* It has them, in their order, and is one longer with the next.
LEMMA UptoIs ==
  ASSUME NEW S, NEW q \in Seq(S), NEW k \in 0 .. Len(q)
  PROVE  /\ Upto(q, k) \in Seq(S) /\ Len(Upto(q, k)) = k
         /\ \A i \in 1 .. k : Upto(q, k)[i] = q[i]
         /\ k = 0 => Upto(q, k) = << >>
         /\ k = Len(q) => Upto(q, k) = q
         /\ k < Len(q) => Upto(q, k + 1) = Append(Upto(q, k), q[k + 1]) /\ q[k + 1] \in S
<1>1. Len(q) \in Nat /\ k \in Nat /\ k =< Len(q)
  BY LenProperties
<1>2. ASSUME NEW j \in 0 .. Len(q)
      PROVE  /\ Upto(q, j) \in Seq(S) /\ Len(Upto(q, j)) = j
             /\ \A i \in 1 .. j : Upto(q, j)[i] = q[i]
  <2>1. 1 \in Int /\ j \in Int /\ \A i \in 1 .. j : q[i] \in S
    BY <1>1, ElementOfSeq
  <2>2. /\ SubSeq(q, 1, j) \in Seq(S)
        /\ Len(SubSeq(q, 1, j)) = IF 1 <= j THEN j - 1 + 1 ELSE 0
        /\ \A i \in 1 .. j - 1 + 1 : SubSeq(q, 1, j)[i] = q[1 + i - 1]
    BY <2>1, SubSeqProperties
  <2> QED BY <1>1, <2>2 DEF Upto
<1>3. k = 0 => Upto(q, k) = << >>
  BY <1>2, EmptySeq
<1>4. k = Len(q) => Upto(q, k) = q
  BY SubSeqFull DEF Upto
<1>5. ASSUME k < Len(q) PROVE Upto(q, k + 1) = Append(Upto(q, k), q[k + 1]) /\ q[k + 1] \in S
  <2>1. k + 1 \in 0 .. Len(q) /\ k + 1 \in 1 .. Len(q)
    BY <1>1, <1>5
  <2>2. q[k + 1] \in S
    BY <2>1, ElementOfSeq
  <2> DEFINE a == Upto(q, k + 1)
             b == Append(Upto(q, k), q[k + 1])
  <2>3. a \in Seq(S) /\ Len(a) = k + 1 /\ \A i \in 1 .. k + 1 : a[i] = q[i]
    BY <1>2, <2>1
  <2>4. /\ b \in Seq(S) /\ Len(b) = k + 1 /\ b[k + 1] = q[k + 1]
        /\ \A i \in 1 .. k : b[i] = q[i]
    BY <1>2, <2>2, AppendProperties
  <2> HIDE DEF a, b
  <2>5. \A i \in 1 .. Len(a) : a[i] = b[i]
    BY <1>1, <2>3, <2>4
  <2>6. a = b
    BY <2>3, <2>4, <2>5, SeqEqual
  <2> QED BY <2>2, <2>6 DEF a, b
<1> QED BY <1>2, <1>3, <1>4, <1>5

\* Any sequence of sequences can be joined so.
LEMMA FoldedExists ==
  ASSUME NEW S, NEW q \in Seq(Seq(S))
  PROVE  \E f \in [1 .. Len(q) -> Seq(S)] : Len(q) > 0 => Folded(q, f)
<1> DEFINE n == Len(q)
           Has(p) == \E f \in [1 .. Len(p) -> Seq(S)] : Len(p) > 0 => Folded(p, f)
           T == {k \in 0 .. n : Has(Upto(q, k))}
<1>1. n \in Nat
  BY LenProperties
<1>2. 0 \in T
  <2>1. Len(Upto(q, 0)) = 0 /\ 0 \in 0 .. n
    BY <1>1, UptoIs
  <2>2. [i \in 1 .. 0 |-> << >>] \in [1 .. 0 -> Seq(S)]
    OBVIOUS
  <2>3. Has(Upto(q, 0))
    <3>1. ~(0 > 0)
      OBVIOUS
    <3> QED BY <2>1, <2>2, <3>1
  <2> QED BY <2>1, <2>3
<1>3. ASSUME NEW k \in 0 .. n, k < n, k \in T PROVE k + 1 \in T
  <2>1. /\ Upto(q, k) \in Seq(Seq(S)) /\ q[k + 1] \in Seq(S)
        /\ Upto(q, k + 1) = Append(Upto(q, k), q[k + 1])
    BY <1>3, UptoIs
  <2>2. PICK f \in [1 .. Len(Upto(q, k)) -> Seq(S)] :
          Len(Upto(q, k)) > 0 => Folded(Upto(q, k), f)
    BY <1>3
  <2>3. PICK g \in [1 .. Len(Upto(q, k)) + 1 -> Seq(S)] : Folded(Append(Upto(q, k), q[k + 1]), g)
    BY <2>1, <2>2, FoldedMore
  <2>4. Len(Append(Upto(q, k), q[k + 1])) = Len(Upto(q, k)) + 1
    BY <2>1, AppendProperties
  <2>5. Has(Upto(q, k + 1))
    BY <2>1, <2>3, <2>4
  <2>6. k + 1 \in 0 .. n
    BY <1>1, <1>3
  <2> QED BY <2>5, <2>6
<1>4. \A k \in 0 .. n : k \in T
  <2> HIDE DEF T, n
  <2> QED BY <1>1, <1>2, <1>3, Counting
<1>5. n \in T /\ Upto(q, n) = q
  BY <1>1, <1>4, UptoIs
<1> QED BY <1>5

\* Flattening nothing gives nothing.
LEMMA FlattenNothing == FlattenSeq(<< >>) = << >>
BY DEF FlattenSeq

\* Flattening gives a sequence, and the last one goes to its end.
LEMMA FlattenAppend ==
  ASSUME NEW S, NEW q \in Seq(Seq(S)), NEW x \in Seq(S)
  PROVE  /\ FlattenSeq(q) \in Seq(S)
         /\ FlattenSeq(Append(q, x)) = FlattenSeq(q) \o x
<1>1. Len(q) \in Nat
  BY LenProperties
<1>2. PICK f \in [1 .. Len(q) -> Seq(S)] : Len(q) > 0 => Folded(q, f)
  BY FoldedExists
<1>3. PICK g \in [1 .. Len(q) + 1 -> Seq(S)] :
         /\ Folded(Append(q, x), g)
         /\ g[Len(q) + 1] = IF Len(q) = 0 THEN x ELSE f[Len(q)] \o x
  BY <1>2, FoldedMore
<1>4. Append(q, x) \in Seq(Seq(S)) /\ Len(Append(q, x)) = Len(q) + 1
  BY AppendProperties
<1>5. FlattenSeq(Append(q, x)) = g[Len(q) + 1]
  <2> DEFINE r == Append(q, x)
  <2>1. r \in Seq(Seq(S)) /\ Len(r) > 0 /\ g \in [1 .. Len(r) -> Seq(S)] /\ Folded(r, g)
    BY <1>1, <1>3, <1>4
  <2> HIDE DEF r
  <2>2. FlattenSeq(r) = g[Len(r)]
    BY <2>1, FlattenIs
  <2> QED BY <1>4, <2>2 DEF r
<1>6. CASE Len(q) = 0
  <2>1. q = << >>
    BY <1>6, EmptySeq
  <2>2. << >> \o x = x /\ << >> \in Seq(S)
    BY ConcatEmptySeq, EmptySeq
  <2> QED BY <1>3, <1>5, <1>6, <2>1, <2>2, FlattenNothing
<1>7. CASE Len(q) # 0
  <2>1. FlattenSeq(q) = f[Len(q)] /\ Len(q) \in 1 .. Len(q)
    BY <1>1, <1>2, <1>7, FlattenIs
  <2> QED BY <1>3, <1>5, <1>7, <2>1
<1> QED BY <1>6, <1>7

\* Concatenations, under names that say of their operands what is known of them.
Longer(S, a, b) == a \o b \in Seq(S) /\ Len(a \o b) = Len(a) + Len(b)
Grouped(a, b, c) == (a \o b) \o c = a \o (b \o c)
Lies(a, b, i) == (a \o b)[Len(a) + i] = b[i]

\* A concatenation is a sequence as long as its two operands.
LEMMA Lengthens ==
  ASSUME NEW S, NEW a \in Seq(S), NEW b \in Seq(S)
  PROVE  Longer(S, a, b)
BY ConcatProperties DEF Longer

\* Three sequences joined may be grouped either way.
LEMMA Groups ==
  ASSUME NEW S, NEW a \in Seq(S), NEW b \in Seq(S), NEW c \in Seq(S)
  PROVE  Grouped(a, b, c)
BY ConcatAssociative DEF Grouped

\* The second operand of a concatenation lies behind the first.
LEMMA LiesBehind ==
  ASSUME NEW S, NEW a \in Seq(S), NEW b \in Seq(S), NEW i \in 1 .. Len(b)
  PROVE  Lies(a, b, i)
<1>1. Len(a) \in Nat /\ Len(b) \in Nat
  BY LenProperties
<1>2. PICK k : k = Len(a) + i
  OBVIOUS
<1>3. k \in 1 .. Len(a) + Len(b) /\ ~(k <= Len(a)) /\ k - Len(a) = i
  BY <1>1, <1>2
<1>4. (a \o b)[k] = IF k <= Len(a) THEN a[k] ELSE b[k - Len(a)]
  BY <1>3, ConcatProperties
<1> QED BY <1>2, <1>3, <1>4 DEF Lies

LEMMA AppendBehind ==
  ASSUME NEW S, NEW p \in Seq(S), NEW q \in Seq(S), NEW x \in S
  PROVE  p \o Append(q, x) = Append(p \o q, x)
<1>1. PICK l, k : l = Len(p) /\ k = Len(q)
  OBVIOUS
<1>2. l \in Nat /\ k \in Nat
  BY <1>1, LenProperties
<1>3. PICK u, y, v, z : u = Append(q, x) /\ y = p \o u /\ v = p \o q /\ z = Append(v, x)
  OBVIOUS
<1>4. u \in Seq(S) /\ Len(u) = k + 1 /\ (\A i \in 1 .. k : u[i] = q[i]) /\ u[k + 1] = x
  BY <1>1, <1>2, <1>3, AppendProperties
<1>5. v \in Seq(S) /\ Len(v) = l + k
  BY <1>1, <1>3, ConcatProperties
<1>6. z \in Seq(S) /\ Len(z) = l + k + 1 /\ (\A i \in 1 .. l + k : z[i] = v[i]) /\ z[l + k + 1] = x
  BY <1>2, <1>3, <1>5, AppendProperties
<1>7. y \in Seq(S) /\ Len(y) = l + (k + 1)
  BY <1>1, <1>3, <1>4, ConcatProperties
<1>8. ASSUME NEW i \in 1 .. l + k + 1 PROVE y[i] = z[i]
  <2>1. y[i] = IF i <= l THEN p[i] ELSE u[i - l]
    <3>1. i \in 1 .. Len(p) + Len(u)
      BY <1>1, <1>2, <1>4
    <3> QED BY <1>1, <1>3, <1>4, <3>1, ConcatProperties
  <2>2. CASE i = l + k + 1
    <3>1. ~(i <= l) /\ i - l = k + 1
      BY <1>2, <2>2
    <3> QED BY <1>4, <1>6, <2>1, <2>2, <3>1
  <2>3. CASE i # l + k + 1
    <3>1. i \in 1 .. l + k /\ i \in 1 .. Len(p) + Len(q)
      BY <1>1, <1>2, <2>3
    <3>2. v[i] = IF i <= l THEN p[i] ELSE q[i - l]
      BY <1>1, <1>3, <3>1, ConcatProperties
    <3>3. ~(i <= l) => i - l \in 1 .. k
      BY <1>2, <3>1
    <3> QED BY <1>4, <1>6, <2>1, <3>1, <3>2, <3>3
  <2> QED BY <2>2, <2>3
<1>9. y = z
  BY <1>2, <1>6, <1>7, <1>8, SeqEqual
<1> QED BY <1>3, <1>9

LEMMA UptoNext ==
  ASSUME NEW S, NEW q \in Seq(S), NEW k \in 0 .. Len(q), k < Len(q)
  PROVE  Upto(q, k) \in Seq(S) /\ Upto(q, k + 1) = Append(Upto(q, k), q[k + 1]) /\ q[k + 1] \in S
BY UptoIs

\* Appending to the second operand appends to the whole.
Appends(p, q, x) == p \o Append(q, x) = Append(p \o q, x)
LEMMA AppendGroups ==
  ASSUME NEW S, NEW p \in Seq(S), NEW q \in Seq(S), NEW x \in S
  PROVE  Appends(p, q, x)
BY AppendBehind DEF Appends

\* Flattening two parts one behind the other.
LEMMA FlattenConcat ==
  ASSUME NEW S, NEW p \in Seq(Seq(S)), NEW q \in Seq(Seq(S))
  PROVE  FlattenSeq(p \o q) = FlattenSeq(p) \o FlattenSeq(q)
<1> DEFINE n == Len(q)
           T == {k \in 0 .. n : FlattenSeq(p \o Upto(q, k)) = FlattenSeq(p) \o FlattenSeq(Upto(q, k))}
<1>1. n \in Nat
  BY LenProperties
<1>2. FlattenSeq(p) \in Seq(S)
  <2>1. << >> \in Seq(S)
    BY EmptySeq
  <2> QED BY <2>1, FlattenAppend
<1>3. 0 \in T
  <2>1. 0 \in 0 .. n /\ Upto(q, 0) = << >>
    BY <1>1, UptoIs
  <2>2. p \o << >> = p /\ FlattenSeq(p) \o << >> = FlattenSeq(p)
    BY <1>2, ConcatEmptySeq
  <2> QED BY <2>1, <2>2, FlattenNothing
<1>4. ASSUME NEW k \in 0 .. n, k < n, k \in T PROVE k + 1 \in T
  <2> DEFINE h == Upto(q, k)
             x == q[k + 1]
  <2>1. h \in Seq(Seq(S)) /\ x \in Seq(S) /\ Upto(q, k + 1) = Append(h, x)
    BY <1>4, UptoIs
  <2>2. FlattenSeq(p \o h) = FlattenSeq(p) \o FlattenSeq(h)
    BY <1>4
  <2>3. k + 1 \in 0 .. n
    BY <1>1, <1>4
  <2> HIDE DEF h, x
  <2>4. p \o Append(h, x) = Append(p \o h, x) /\ p \o h \in Seq(Seq(S))
    <3>1. p \o Append(h, x) = Append(p \o h, x)
      <4>1. Appends(p, h, x)
        BY <2>1, AppendGroups
      <4> QED BY <4>1 DEF Appends
    <3>2. Longer(Seq(S), p, h)
      BY <2>1, Lengthens
    <3> QED BY <3>1, <3>2 DEF Longer
  <2>5. /\ FlattenSeq(h) \in Seq(S)
        /\ FlattenSeq(Append(h, x)) = FlattenSeq(h) \o x
        /\ FlattenSeq(Append(p \o h, x)) = FlattenSeq(p \o h) \o x
    BY <2>1, <2>4, FlattenAppend
  <2>6. (FlattenSeq(p) \o FlattenSeq(h)) \o x = FlattenSeq(p) \o (FlattenSeq(h) \o x)
    <3> DEFINE u == FlattenSeq(p)
               v == FlattenSeq(h)
    <3> HIDE DEF u, v
    <3>1. u \in Seq(S) /\ v \in Seq(S) /\ x \in Seq(S)
      BY <1>2, <2>1, <2>5 DEF u, v
    <3>2. Grouped(u, v, x)
      BY <3>1, Groups
    <3> QED BY <3>2 DEF u, v, Grouped
  <2>7. FlattenSeq(p \o Upto(q, k + 1)) = FlattenSeq(p) \o FlattenSeq(Upto(q, k + 1))
    BY <2>1, <2>2, <2>4, <2>5, <2>6
  <2> QED BY <2>3, <2>7
<1>5. n \in T
  <2>1. n \in 0 .. n
    BY <1>1
  <2> HIDE DEF T, n
  <2> QED BY <1>1, <1>3, <1>4, <2>1, Counting
<1> QED BY <1>1, <1>5, UptoIs

\* A set that has a number of 1 .. n once it has all those above has them all.
LEMMA CountingDown ==
  ASSUME NEW n \in Nat, NEW T,
         \A i \in 1 .. n : (\A j \in i + 1 .. n : j \in T) => i \in T
  PROVE  \A i \in 1 .. n : i \in T
<1> DEFINE U == {k \in 0 .. n : \A j \in n + 1 - k .. n : j \in T}
<1>1. 0 \in U
  OBVIOUS
<1>2. ASSUME NEW k \in 0 .. n, k < n, k \in U PROVE k + 1 \in U
  <2> DEFINE i == n - k
  <2>1. i \in 1 .. n /\ i + 1 = n + 1 - k /\ n + 1 - (k + 1) = i /\ k + 1 \in 0 .. n
    BY <1>2
  <2>2. \A j \in i + 1 .. n : j \in T
    BY <1>2, <2>1
  <2> HIDE DEF i
  <2>3. i \in T
    BY <2>1, <2>2
  <2>4. \A j \in i .. n : j = i \/ j \in i + 1 .. n
    BY <2>1
  <2>5. \A j \in n + 1 - (k + 1) .. n : j \in T
    BY <2>1, <2>2, <2>3, <2>4
  <2> QED BY <2>1, <2>5
<1>3. \A k \in 0 .. n : k \in U
  <2> HIDE DEF U
  <2> QED BY <1>1, <1>2, Counting
<1>4. \A j \in n + 1 - n .. n : j \in T
  BY <1>3
<1> QED BY <1>4

Byte == 0 .. 255

\* What w bytes can count to.
Limit(w) == IF w = 1 THEN 256 ELSE IF w = 2 THEN 65536 ELSE 65536 * 65536

LEMMA LeIs ==
  ASSUME NEW n \in Nat, NEW w \in {1, 2, 4}
  PROVE  le(n, w) \in [1 .. w -> Byte]
<1>2. Weight[1] = 1 /\ Weight[2] = 256 /\ Weight[3] = 65536 /\ Weight[4] = 16777216
  BY DEF Weight
<1>3. ASSUME NEW k \in 1 .. w PROVE (n \div Weight[k]) % 256 \in Byte
  <2>1. PICK d : d = Weight[k]
    OBVIOUS
  <2>2. d \in Nat \ {0}
    BY <1>2, <2>1
  <2>3. n \div d \in Nat
    BY <2>2
  <2>4. (n \div d) % 256 \in Byte
    BY <2>3 DEF Byte
  <2> QED BY <2>1, <2>4
<1> QED BY <1>3 DEF le

LEMMA LeBytes ==
  ASSUME NEW n \in Nat, NEW w \in {1, 2, 4}
  PROVE  le(n, w) \in Seq(Byte) /\ Len(le(n, w)) = w
<1>1. PICK f : f = le(n, w)
  OBVIOUS
<1>2. f \in [1 .. w -> Byte]
  BY <1>1, LeIs
<1>3. f \in Seq(Byte) /\ Len(f) = w
  BY <1>2, SeqDef, LenProperties
<1> QED BY <1>1, <1>3

LEMMA LeFirst ==
  ASSUME NEW n \in Nat, NEW w \in {1, 2, 4}
  PROVE  le(n, w)[1] = n % 256
<1>1. Weight[1] = 1 /\ n \div 1 = n /\ 1 \in 1 .. w
  BY DEF Weight
<1> QED BY <1>1 DEF le

LEMMA LeSecond ==
  ASSUME NEW n \in Nat, NEW w \in {2, 4}
  PROVE  le(n, w)[2] = (n \div 256) % 256
<1>1. Weight[2] = 256 /\ 2 \in 1 .. w
  BY DEF Weight
<1> QED BY <1>1 DEF le

LEMMA LeOthers ==
  ASSUME NEW n \in Nat
  PROVE  le(n, 4)[3] = (n \div 65536) % 256 /\ le(n, 4)[4] = (n \div 16777216) % 256
<1>1. Weight[3] = 65536 /\ Weight[4] = 16777216 /\ 3 \in 1 .. 4 /\ 4 \in 1 .. 4
  BY DEF Weight
<1> QED BY <1>1 DEF le

LEMMA Two ==
  ASSUME NEW n \in Nat, n < 65536
  PROVE  (n % 256) + 256 * ((n \div 256) % 256) = n
BY SMT

LEMMA Join ==
  ASSUME NEW a \in Int, NEW b \in Int, NEW c \in Int, NEW d \in Int,
         NEW l \in Int, NEW h \in Int, NEW n \in Int,
         a + 256 * b = l, c + 256 * d = h, n = l + 65536 * h
  PROVE  a + 256 * b + (65536 * c + 16777216 * d) = n
BY SMT

LEMMA Four ==
  ASSUME NEW n \in Nat, n < 65536 * 65536
  PROVE  (n % 256) + 256 * ((n \div 256) % 256) + (65536 * ((n \div 65536) % 256)
                    + 16777216 * ((n \div 16777216) % 256)) = n
<1> DEFINE h == n \div 65536  l == n % 65536
<1>1. h \in Nat /\ l \in Nat /\ h < 65536 /\ l < 65536 /\ n = l + 65536 * h
  BY SMT
<1>2. n % 256 = l % 256 /\ (n \div 256) % 256 = (l \div 256) % 256
  BY SMT
<1>3. n \div 16777216 = h \div 256
  BY SMT
<1>4. (l % 256) + 256 * ((l \div 256) % 256) = l /\ (h % 256) + 256 * ((h \div 256) % 256) = h
  <2> HIDE DEF l, h
  <2> QED BY <1>1, Two
<1>6. l % 256 \in Int /\ (l \div 256) % 256 \in Int /\ h % 256 \in Int /\ (h \div 256) % 256 \in Int
  <2> HIDE DEF l, h
  <2> QED BY <1>1, SMT
<1>5. PICK a, b, c, d : a = l % 256 /\ b = (l \div 256) % 256 /\ c = h % 256 /\ d = (h \div 256) % 256
  <2> HIDE DEF l, h
  <2> QED OBVIOUS
<1>7. (l % 256) + 256 * ((l \div 256) % 256) + (65536 * (h % 256) + 16777216 * ((h \div 256) % 256)) = n
  <2> HIDE DEF l, h
  <2>1. a \in Int /\ b \in Int /\ c \in Int /\ d \in Int /\ l \in Int /\ h \in Int /\ n \in Int
    BY <1>1, <1>5, <1>6
  <2>2. a + 256 * b = l /\ c + 256 * d = h
    BY <1>4, <1>5
  <2>3. a + 256 * b + (65536 * c + 16777216 * d) = n
    <3>1. n = l + 65536 * h
      BY <1>1
    <3> QED BY <2>1, <2>2, <3>1, Join
  <2> QED BY <1>5, <2>3
<1>8. (n \div 65536) % 256 = h % 256
  OBVIOUS
<1>9. (n \div 16777216) % 256 = (h \div 256) % 256
  <2> HIDE DEF h
  <2> QED BY <1>3
<1> HIDE DEF h, l
<1> QED BY <1>2, <1>7, <1>8, <1>9

\* Bytes hold a number below their limit.
LEMMA LeReads ==
  ASSUME NEW w \in {1, 2, 4}, NEW n \in Nat, n < Limit(w)
  PROVE  FromLe(le(n, w)) = n
<1>1. PICK b : b = le(n, w)
  OBVIOUS
<1>2. Len(b) = w /\ b[1] = n % 256
  <2>1. Len(b) = w
    BY <1>1, LeBytes
  <2>2. b[1] = n % 256
    BY <1>1, LeFirst
  <2> QED BY <2>1, <2>2
<1>3. CASE w = 1
  <2>1. n < 256
    BY <1>3 DEF Limit
  <2>2. FromLe(b) = b[1] + 0 + 0
    BY <1>2, <1>3 DEF FromLe
  <2>3. (n % 256) + 0 + 0 = n
    BY <2>1
  <2> QED BY <1>1, <1>2, <2>2, <2>3
<1>4. CASE w = 2
  <2>1. n < 65536
    BY <1>4 DEF Limit
  <2>2. b[2] = (n \div 256) % 256
    BY <1>1, <1>4, LeSecond
  <2>3. FromLe(b) = b[1] + 256 * b[2] + 0
    BY <1>2, <1>4 DEF FromLe
  <2>4. (n % 256) + 256 * ((n \div 256) % 256) = n
    BY <2>1, Two
  <2>5. n + 0 = n
    OBVIOUS
  <2> QED BY <1>1, <1>2, <2>2, <2>3, <2>4, <2>5
<1>5. CASE w = 4
  <2>1. n < 65536 * 65536
    BY <1>5 DEF Limit
  <2>2. b[2] = (n \div 256) % 256
    BY <1>1, <1>5, LeSecond
  <2>3. b[3] = (n \div 65536) % 256 /\ b[4] = (n \div 16777216) % 256
    <3>1. b = le(n, 4)
      BY <1>1, <1>5
    <3>2. le(n, 4)[3] = (n \div 65536) % 256 /\ le(n, 4)[4] = (n \div 16777216) % 256
      BY LeOthers
    <3> QED BY <3>1, <3>2
  <2>4. FromLe(b) = b[1] + 256 * b[2] + (65536 * b[3] + 16777216 * b[4])
    BY <1>2, <1>5 DEF FromLe
  <2>5. (n % 256) + 256 * ((n \div 256) % 256) + (65536 * ((n \div 65536) % 256)
                    + 16777216 * ((n \div 16777216) % 256)) = n
    BY <2>1, Four
  <2> QED BY <1>1, <1>2, <2>2, <2>3, <2>4, <2>5
<1> QED BY <1>3, <1>4, <1>5

LEMMA OneByte == ASSUME NEW p \in Byte PROVE p + 0 + 0 \in Nat /\ p + 0 + 0 < 256
BY DEF Byte
LEMMA TwoBytes == ASSUME NEW p \in Byte, NEW q \in Byte PROVE p + 256 * q + 0 \in Nat /\ p + 256 * q + 0 < 65536
BY DEF Byte
LEMMA FourBytes ==
  ASSUME NEW p \in Byte, NEW q \in Byte, NEW r \in Byte, NEW s \in Byte
  PROVE  p + 256 * q + (65536 * r + 16777216 * s) \in Nat
BY DEF Byte

\* What bytes hold is a number, of one byte below 256 and of two below 65536.
LEMMA ReadOne ==
  ASSUME NEW b, Len(b) = 1, b[1] \in Byte
  PROVE  FromLe(b) \in Nat /\ FromLe(b) < 256
<1>1. PICK p : p = b[1]
  OBVIOUS
<1>2. FromLe(b) = p + 0 + 0
  BY <1>1 DEF FromLe
<1>3. p + 0 + 0 \in Nat /\ p + 0 + 0 < 256
  BY <1>1, OneByte
<1> QED BY <1>2, <1>3

LEMMA ReadTwo ==
  ASSUME NEW b, Len(b) = 2, b[1] \in Byte, b[2] \in Byte
  PROVE  FromLe(b) \in Nat /\ FromLe(b) < 65536
<1>1. PICK p, q : p = b[1] /\ q = b[2]
  OBVIOUS
<1>2. FromLe(b) = p + 256 * q + 0
  BY <1>1 DEF FromLe
<1>3. p + 256 * q + 0 \in Nat /\ p + 256 * q + 0 < 65536
  BY <1>1, TwoBytes
<1> QED BY <1>2, <1>3

LEMMA ReadFour ==
  ASSUME NEW b, Len(b) = 4, b[1] \in Byte, b[2] \in Byte, b[3] \in Byte, b[4] \in Byte
  PROVE  FromLe(b) \in Nat
<1>1. PICK p, q, r, s : p = b[1] /\ q = b[2] /\ r = b[3] /\ s = b[4]
  OBVIOUS
<1>2. FromLe(b) = p + 256 * q + (65536 * r + 16777216 * s)
  BY <1>1 DEF FromLe
<1>3. p + 256 * q + (65536 * r + 16777216 * s) \in Nat
  BY <1>1, FourBytes
<1> QED BY <1>2, <1>3

LEMMA BytesRead ==
  ASSUME NEW w \in {1, 2, 4}, NEW b, Len(b) = w, \A i \in 1 .. w : b[i] \in Byte
  PROVE  /\ FromLe(b) \in Nat
         /\ w = 1 => FromLe(b) < 256
         /\ w = 2 => FromLe(b) < 65536
<1>1. CASE w = 1
  BY <1>1, ReadOne
<1>2. CASE w = 2
  BY <1>2, ReadTwo
<1>3. CASE w = 4
  BY <1>3, ReadFour
<1> QED BY <1>1, <1>2, <1>3

\* Any part of a sequence.
LEMMA PartOf ==
  ASSUME NEW S, NEW s \in Seq(S), NEW m \in Nat, NEW n \in Int, m > 0, n =< Len(s)
  PROVE  /\ SubSeq(s, m, n) \in Seq(S)
         /\ Len(SubSeq(s, m, n)) = IF m =< n THEN n - m + 1 ELSE 0
         /\ \A i \in 1 .. n - m + 1 : SubSeq(s, m, n)[i] = s[m + i - 1]
<1>1. Len(s) \in Nat /\ m \in Int
  BY LenProperties
<1>2. \A i \in m .. n : s[i] \in S
  <2> SUFFICES ASSUME NEW i \in m .. n PROVE s[i] \in S
    OBVIOUS
  <2>1. i \in 1 .. Len(s)
    BY <1>1
  <2> QED BY <2>1, ElementOfSeq
<1> QED BY <1>1, <1>2, SubSeqProperties

\* The part of a sequence behind another one is the part of that.
LEMMA ShiftedPart ==
  ASSUME NEW S, NEW s \in Seq(S), NEW t \in Seq(S), NEW d \in Nat,
         NEW m \in Nat, NEW n \in Int, m > 0, n =< Len(t), Len(s) = d + Len(t),
         \A i \in 1 .. Len(t) : s[d + i] = t[i]
  PROVE  SubSeq(s, d + m, d + n) = SubSeq(t, m, n)
<1>1. Len(t) \in Nat
  BY LenProperties
<1>2. d + m \in Nat /\ d + m > 0 /\ d + n \in Int /\ d + n =< Len(s)
  BY <1>1
<1>3. PICK p, q : p = SubSeq(s, d + m, d + n) /\ q = SubSeq(t, m, n)
  OBVIOUS
<1>4. /\ p \in Seq(S) /\ Len(p) = IF d + m =< d + n THEN (d + n) - (d + m) + 1 ELSE 0
      /\ \A i \in 1 .. (d + n) - (d + m) + 1 : p[i] = s[(d + m) + i - 1]
  BY <1>2, <1>3, PartOf
<1>5. /\ q \in Seq(S) /\ Len(q) = IF m =< n THEN n - m + 1 ELSE 0
      /\ \A i \in 1 .. n - m + 1 : q[i] = t[m + i - 1]
  BY <1>3, PartOf
<1>6. (d + n) - (d + m) + 1 = n - m + 1 /\ (d + m =< d + n <=> m =< n)
  OBVIOUS
<1>7. ASSUME NEW i \in 1 .. n - m + 1 PROVE p[i] = q[i]
  <2>1. m + i - 1 \in 1 .. Len(t) /\ (d + m) + i - 1 = d + (m + i - 1)
    BY <1>1
  <2>2. s[d + (m + i - 1)] = t[m + i - 1]
    BY <2>1
  <2>3. p[i] = s[(d + m) + i - 1]
    BY <1>4, <1>6
  <2>4. q[i] = t[m + i - 1]
    BY <1>5
  <2> QED BY <2>1, <2>2, <2>3, <2>4
<1>8. Len(p) = Len(q)
  BY <1>4, <1>5, <1>6
<1>9. \A i \in 1 .. Len(p) : p[i] = q[i]
  <2> SUFFICES ASSUME NEW i \in 1 .. Len(p) PROVE p[i] = q[i]
    OBVIOUS
  <2>1. i \in 1 .. n - m + 1
    BY <1>4, <1>6
  <2> QED BY <1>7, <2>1
<1> QED BY <1>3, <1>4, <1>5, <1>8, <1>9, SeqEqual

\* A sequence that repeats t from place d on has t's parts d places later.
SamePart(s, t, d, m, n) == SubSeq(s, d + m, d + n) = SubSeq(t, m, n)
LEMMA PartsMatch ==
  ASSUME NEW S, NEW s \in Seq(S), NEW t \in Seq(S), NEW d \in Nat,
         NEW m \in Nat, NEW n \in Int, m > 0, n =< Len(t), Len(s) = d + Len(t),
         \A i \in 1 .. Len(t) : s[d + i] = t[i]
  PROVE  SamePart(s, t, d, m, n)
BY ShiftedPart DEF SamePart

\* Cut where it was joined.
LEMMA CutFront ==
  ASSUME NEW S, NEW a \in Seq(S), NEW b \in Seq(S)
  PROVE  SubSeq(a \o b, 1, Len(a)) = a
<1>1. Len(a) \in Nat /\ Len(b) \in Nat
  BY LenProperties
<1>2. PICK c : c = a \o b
  OBVIOUS
<1>3. /\ c \in Seq(S) /\ Len(c) = Len(a) + Len(b)
      /\ \A i \in 1 .. Len(a) + Len(b) : c[i] = IF i <= Len(a) THEN a[i] ELSE b[i - Len(a)]
  BY <1>2, ConcatProperties
<1>4. PICK p : p = SubSeq(c, 1, Len(a))
  OBVIOUS
<1>5. /\ p \in Seq(S) /\ Len(p) = IF 1 =< Len(a) THEN Len(a) - 1 + 1 ELSE 0
      /\ \A i \in 1 .. Len(a) - 1 + 1 : p[i] = c[1 + i - 1]
  <2>1. 1 \in Nat /\ Len(a) \in Int /\ 1 > 0 /\ Len(a) =< Len(c)
    BY <1>1, <1>3
  <2> QED BY <1>3, <1>4, <2>1, PartOf
<1>6. Len(p) = Len(a)
  BY <1>1, <1>5
<1>7. ASSUME NEW i \in 1 .. Len(a) PROVE p[i] = a[i]
  <2>1. 1 + i - 1 = i /\ i \in 1 .. Len(a) - 1 + 1 /\ i \in 1 .. Len(a) + Len(b) /\ i =< Len(a)
    BY <1>1
  <2> QED BY <1>3, <1>5, <2>1
<1> QED BY <1>2, <1>4, <1>5, <1>6, <1>7, SeqEqual

LEMMA Behind ==
  ASSUME NEW S, NEW a \in Seq(S), NEW b \in Seq(S)
  PROVE  /\ a \o b \in Seq(S) /\ Len(a \o b) = Len(a) + Len(b)
         /\ \A i \in 1 .. Len(b) : (a \o b)[Len(a) + i] = b[i]
<1>1. Len(a) \in Nat /\ Len(b) \in Nat
  BY LenProperties
<1>2. ASSUME NEW i \in 1 .. Len(b) PROVE (a \o b)[Len(a) + i] = b[i]
  <2>1. Len(a) + i \in 1 .. Len(a) + Len(b) /\ ~(Len(a) + i <= Len(a)) /\ (Len(a) + i) - Len(a) = i
    BY <1>1
  <2> QED BY <2>1, ConcatProperties
<1> QED BY <1>2, ConcatProperties

LEMMA BehindAt ==
  ASSUME NEW S, NEW a \in Seq(S), NEW b \in Seq(S), NEW i \in 1 .. Len(b)
  PROVE  (a \o b)[Len(a) + i] = b[i]
BY Behind

LEMMA CutBehind ==
  ASSUME NEW S, NEW a \in Seq(S), NEW b \in Seq(S)
  PROVE  After(a \o b, Len(a)) = b
<1>1. Len(a) \in Nat /\ Len(b) \in Nat
  BY LenProperties
<1>2. PICK c : c = a \o b
  OBVIOUS
<1>3. c \in Seq(S) /\ Len(c) = Len(a) + Len(b) /\ \A i \in 1 .. Len(b) : c[Len(a) + i] = b[i]
  BY <1>2, Behind
<1>4. 1 \in Nat /\ Len(b) \in Int /\ 1 > 0 /\ Len(b) =< Len(b)
  BY <1>1
<1>5. SubSeq(c, Len(a) + 1, Len(a) + Len(b)) = SubSeq(b, 1, Len(b))
  BY <1>1, <1>3, <1>4, ShiftedPart
<1>6. SubSeq(b, 1, Len(b)) = b
  BY SubSeqFull
<1> QED BY <1>2, <1>3, <1>5, <1>6 DEF After

LEMMA CutBetween ==
  ASSUME NEW S, NEW a \in Seq(S), NEW b \in Seq(S), NEW c \in Seq(S)
  PROVE  SubSeq(a \o (b \o c), Len(a) + 1, Len(a) + Len(b)) = b
<1>1. Len(a) \in Nat /\ Len(b) \in Nat /\ Len(c) \in Nat
  BY LenProperties
<1>2. PICK t : t = b \o c
  OBVIOUS
<1>3. t \in Seq(S) /\ Len(t) = Len(b) + Len(c)
  BY <1>2, ConcatProperties
<1>4. PICK s : s = a \o t
  OBVIOUS
<1>5. s \in Seq(S) /\ Len(s) = Len(a) + Len(t) /\ \A i \in 1 .. Len(t) : s[Len(a) + i] = t[i]
  <2>1. t \in Seq(S)
    BY <1>3
  <2>2. s \in Seq(S)
    BY <1>4, <2>1, ConcatProperties
  <2>3. Len(s) = Len(a) + Len(t)
    BY <1>4, <2>1, ConcatProperties
  <2>4. \A i \in 1 .. Len(t) : s[Len(a) + i] = t[i]
    BY <1>4, <2>1, Behind
  <2> QED BY <2>2, <2>3, <2>4
<1>6. 1 \in Nat /\ Len(b) \in Int /\ 1 > 0 /\ Len(b) =< Len(t)
  BY <1>1, <1>3
<1>7. SubSeq(s, Len(a) + 1, Len(a) + Len(b)) = SubSeq(t, 1, Len(b))
  BY <1>1, <1>3, <1>5, <1>6, ShiftedPart
<1>8. SubSeq(t, 1, Len(b)) = b
  BY <1>2, CutFront
<1> QED BY <1>2, <1>4, <1>7, <1>8

Fields == [tag : Int, data : Seq(Byte)]

\* What the server makes of the bytes from place i on, of width w, if f is what it
\* makes of those behind.
LengthAt(bytes, w, i) == FromLe(SubSeq(bytes, i + 1, i + w))
Reading(bytes, w, f, i) ==
  IF i > Len(bytes) THEN <<>>
  ELSE IF Len(bytes) < i + w \/ Len(bytes) < i + w + LengthAt(bytes, w, i) THEN <<Malformed>>
  ELSE <<Field(bytes[i], SubSeq(bytes, i + w + 1, i + w + LengthAt(bytes, w, i)))>>
       \o f[i + w + LengthAt(bytes, w, i) + 1]

LEMMA PartBytes ==
  ASSUME NEW bytes, Len(bytes) \in Nat, \A k \in 1 .. Len(bytes) : bytes[k] \in Byte,
         NEW w \in {1, 2, 4}, NEW i \in 1 .. Len(bytes), i + w =< Len(bytes)
  PROVE  /\ Len(SubSeq(bytes, i + 1, i + w)) = w
         /\ \A k \in 1 .. w : SubSeq(bytes, i + 1, i + w)[k] \in Byte
<1>1. i + 1 \in Int /\ i + w \in Int /\ \A k \in i + 1 .. i + w : bytes[k] \in Byte
  OBVIOUS
<1>2. PICK b : b = SubSeq(bytes, i + 1, i + w)
  OBVIOUS
<1>3. /\ Len(b) = IF i + 1 =< i + w THEN (i + w) - (i + 1) + 1 ELSE 0
      /\ \A k \in 1 .. (i + w) - (i + 1) + 1 : b[k] = bytes[(i + 1) + k - 1]
  BY <1>1, <1>2, SubSeqProperties
<1>4. (i + w) - (i + 1) + 1 = w /\ i + 1 =< i + w
  OBVIOUS
<1>5. \A k \in 1 .. w : b[k] = bytes[i + k]
  BY <1>3, <1>4
<1>6. \A k \in 1 .. w : i + k \in 1 .. Len(bytes)
  OBVIOUS
<1> QED BY <1>2, <1>3, <1>4, <1>5, <1>6

LEMMA LengthOf ==
  ASSUME NEW bytes, Len(bytes) \in Nat, \A k \in 1 .. Len(bytes) : bytes[k] \in Byte,
         NEW w \in {1, 2, 4}, NEW i \in 1 .. Len(bytes), i + w =< Len(bytes)
  PROVE  /\ LengthAt(bytes, w, i) \in Nat
         /\ w = 1 => LengthAt(bytes, w, i) < 256
         /\ w = 2 => LengthAt(bytes, w, i) < 65536
<1>1. PICK b : b = SubSeq(bytes, i + 1, i + w)
  OBVIOUS
<1>2. Len(b) = w /\ \A k \in 1 .. w : b[k] \in Byte
  BY <1>1, PartBytes
<1>3. FromLe(b) \in Nat /\ (w = 1 => FromLe(b) < 256) /\ (w = 2 => FromLe(b) < 65536)
  <2>1. CASE w = 1
    BY <1>2, <2>1, ReadOne
  <2>2. CASE w = 2
    BY <1>2, <2>2, ReadTwo
  <2>3. CASE w = 4
    BY <1>2, <2>3, ReadFour
  <2> QED BY <2>1, <2>2, <2>3
<1> QED BY <1>1, <1>3 DEF LengthAt

LEMMA LengthIs ==
  ASSUME NEW bytes \in Seq(Byte), NEW w \in {1, 2, 4}, NEW i \in 1 .. Len(bytes), i + w =< Len(bytes)
  PROVE  /\ LengthAt(bytes, w, i) \in Nat
         /\ w = 1 => LengthAt(bytes, w, i) < 256
         /\ w = 2 => LengthAt(bytes, w, i) < 65536
<1>1. Len(bytes) \in Nat /\ \A k \in 1 .. Len(bytes) : bytes[k] \in Byte
  BY LenProperties, ElementOfSeq
<1> QED BY <1>1, LengthOf

\* A field that fits: its tag, its data, and where the next one is.
LEMMA FieldIs ==
  ASSUME NEW bytes \in Seq(Byte), NEW w \in {1, 2, 4}, NEW i \in 1 .. Len(bytes),
         i + w =< Len(bytes), i + w + LengthAt(bytes, w, i) =< Len(bytes)
  PROVE  /\ i + w + LengthAt(bytes, w, i) + 1 \in i + 1 .. Len(bytes) + 1
         /\ bytes[i] \in Byte
         /\ SubSeq(bytes, i + w + 1, i + w + LengthAt(bytes, w, i)) \in Seq(Byte)
         /\ Len(SubSeq(bytes, i + w + 1, i + w + LengthAt(bytes, w, i))) = LengthAt(bytes, w, i)
<1>1. PICK x : x = LengthAt(bytes, w, i)
  OBVIOUS
<1>2. Len(bytes) \in Nat
  BY LenProperties
<1>3. x \in Nat
  BY <1>1, LengthIs
<1>4. i + w + 1 \in Nat /\ i + w + 1 > 0 /\ i + w + x \in Int /\ i + w + x =< Len(bytes)
  BY <1>1, <1>2, <1>3
<1>5. PICK d : d = SubSeq(bytes, i + w + 1, i + w + x)
  OBVIOUS
<1>6. d \in Seq(Byte) /\ Len(d) = IF i + w + 1 =< i + w + x THEN (i + w + x) - (i + w + 1) + 1 ELSE 0
  BY <1>4, <1>5, PartOf
<1>7. Len(d) = x
  BY <1>3, <1>6
<1>8. bytes[i] \in Byte
  BY ElementOfSeq
<1>9. i + w + x + 1 \in i + 1 .. Len(bytes) + 1
  BY <1>2, <1>3, <1>4
<1> QED BY <1>1, <1>5, <1>6, <1>7, <1>8, <1>9

\* What is read is fields.
LEMMA ReadingIn ==
  ASSUME NEW bytes \in Seq(Byte), NEW w \in {1, 2, 4}, NEW i \in 1 .. Len(bytes) + 1,
         NEW f \in [1 .. Len(bytes) + 1 -> Seq(Fields)]
  PROVE  Reading(bytes, w, f, i) \in Seq(Fields)
<1>0. Len(bytes) \in Nat
  BY LenProperties
<1>1. <<>> \in Seq(Fields)
  BY EmptySeq
<1>2. <<Malformed>> \in Seq(Fields)
  BY DEF Malformed, Field, Fields
<1>3. ASSUME ~(i > Len(bytes)), ~(Len(bytes) < i + w \/ Len(bytes) < i + w + LengthAt(bytes, w, i))
      PROVE  Reading(bytes, w, f, i) \in Seq(Fields)
  <2>1. PICK x, d, n : /\ x = bytes[i] /\ d = SubSeq(bytes, i + w + 1, i + w + LengthAt(bytes, w, i))
                       /\ n = i + w + LengthAt(bytes, w, i) + 1
    OBVIOUS
  <2>2. i \in 1 .. Len(bytes) /\ i + w =< Len(bytes) /\ LengthAt(bytes, w, i) \in Nat
    <3>1. i \in 1 .. Len(bytes) /\ i + w =< Len(bytes)
      BY <1>0, <1>3
    <3> QED BY <3>1, LengthIs
  <2>3. i + w + LengthAt(bytes, w, i) =< Len(bytes)
    BY <1>0, <1>3, <2>2
  <2>4. x \in Byte /\ d \in Seq(Byte) /\ n \in i + 1 .. Len(bytes) + 1
    BY <2>1, <2>2, <2>3, FieldIs
  <2>5. <<Field(x, d)>> \in Seq(Fields)
    <3>1. x \in Int
      BY <2>4 DEF Byte
    <3>2. Field(x, d) \in Fields
      BY <2>4, <3>1 DEF Field, Fields
    <3> QED BY <3>2
  <2>6. f[n] \in Seq(Fields)
    <3>1. n \in 1 .. Len(bytes) + 1
      BY <1>0, <2>2, <2>4
    <3> QED BY <3>1
  <2>7. Reading(bytes, w, f, i) = <<Field(x, d)>> \o f[n]
    BY <1>3, <2>1 DEF Reading
  <2> QED BY <2>5, <2>6, <2>7, ConcatProperties
<1> QED BY <1>1, <1>2, <1>3 DEF Reading

\* It depends on what is behind alone.
LEMMA ReadingBehind ==
  ASSUME NEW bytes \in Seq(Byte), NEW w \in {1, 2, 4}, NEW i \in 1 .. Len(bytes) + 1, NEW f, NEW g,
         \A k \in i + 1 .. Len(bytes) + 1 : f[k] = g[k]
  PROVE  Reading(bytes, w, f, i) = Reading(bytes, w, g, i)
<1>0. Len(bytes) \in Nat
  BY LenProperties
<1>1. ASSUME ~(i > Len(bytes)), ~(Len(bytes) < i + w \/ Len(bytes) < i + w + LengthAt(bytes, w, i))
      PROVE  f[i + w + LengthAt(bytes, w, i) + 1] = g[i + w + LengthAt(bytes, w, i) + 1]
  <2>2. i \in 1 .. Len(bytes) /\ i + w =< Len(bytes) /\ LengthAt(bytes, w, i) \in Nat
    <3>1. i \in 1 .. Len(bytes) /\ i + w =< Len(bytes)
      BY <1>0, <1>1
    <3> QED BY <3>1, LengthIs
  <2>3. i + w + LengthAt(bytes, w, i) =< Len(bytes)
    BY <1>0, <1>1, <2>2
  <2>4. i + w + LengthAt(bytes, w, i) + 1 \in i + 1 .. Len(bytes) + 1
    BY <2>2, <2>3, FieldIs
  <2> QED BY <2>4
<1> QED BY <1>1 DEF Reading

Reads(bytes, w, h) ==
  /\ h \in [1 .. Len(bytes) + 1 -> Seq(Fields)]
  /\ \A i \in 1 .. Len(bytes) + 1 : h[i] = Reading(bytes, w, h, i)

LEMMA ReadsExists ==
  ASSUME NEW bytes \in Seq(Byte), NEW w \in {1, 2, 4}
  PROVE  \E h : Reads(bytes, w, h)
<1> DEFINE n == Len(bytes)
           D == 1 .. n + 1
           V == Seq(Fields)
           rank == [i \in D |-> n + 1 - i]
           S == [p \in D \X [D -> V] |-> Reading(bytes, w, p[2], p[1])]
<1>0. n \in Nat
  BY LenProperties
<1>1. rank \in [D -> 0 .. n]
  BY <1>0
<1>2. S \in [D \X [D -> V] -> V]
  BY ReadingIn
<1>3. ASSUME NEW d \in D, NEW f \in [D -> V], NEW g \in [D -> V],
             \A e \in D : rank[e] < rank[d] => f[e] = g[e]
      PROVE  S[<<d, f>>] = S[<<d, g>>]
  <2>1. ASSUME NEW k \in d + 1 .. Len(bytes) + 1 PROVE f[k] = g[k]
    <3>1. k \in D /\ rank[k] < rank[d]
      BY <1>0
    <3> QED BY <1>3, <3>1
  <2>2. Reading(bytes, w, f, d) = Reading(bytes, w, g, d)
    BY <2>1, ReadingBehind
  <2>3. S[<<d, f>>] = Reading(bytes, w, f, d) /\ S[<<d, g>>] = Reading(bytes, w, g, d)
    OBVIOUS
  <2> QED BY <2>2, <2>3
<1>4. PICK v : v \in V
  BY EmptySeq
<1>5. \E h \in [D -> V] : \A d \in D : h[d] = S[<<d, h>>]
  <2> HIDE DEF D, V, rank, S, n
  <2>1. Lower(D, V, rank, S)
    BY <1>3 DEF Lower
  <2>2. Solved(D, V, S)
    BY <1>0, <1>1, <1>2, <1>4, <2>1, Recursion
  <2> QED BY <2>2 DEF Solved
<1>6. PICK h \in [D -> V] : \A d \in D : h[d] = S[<<d, h>>]
  BY <1>5
<1>7. \A d \in D : h[d] = Reading(bytes, w, h, d)
  BY <1>6
<1> QED BY <1>7 DEF Reads

LEMMA ReadsIs ==
  ASSUME NEW bytes \in Seq(Byte), NEW w \in {1, 2, 4}
  PROVE  \E h : Reads(bytes, w, h) /\ ReadClumplets(bytes, w) = h[1]
<1> DEFINE D == 1 .. Len(bytes) + 1
           Step(g) == [i \in D |-> Reading(bytes, w, g, i)]
           h == CHOOSE g : g = Step(g)
<1>1. ReadClumplets(bytes, w) = h[1]
  BY DEF ReadClumplets, Reading, LengthAt
<1>2. PICK f : Reads(bytes, w, f)
  BY ReadsExists
<1>3. f = Step(f)
  BY <1>2 DEF Reads
<1>4. h = Step(h)
  BY <1>3
<1> HIDE DEF h
<1>5. Len(bytes) \in Nat
  BY LenProperties
<1>6. \A i \in D : h[i] = Reading(bytes, w, h, i)
  BY <1>4
<1>7. \A i \in D : f[i] = Reading(bytes, w, f, i)
  BY <1>2 DEF Reads
<1> DEFINE T == {i \in D : h[i] = f[i]}
<1>8. ASSUME NEW i \in 1 .. Len(bytes) + 1, \A j \in i + 1 .. Len(bytes) + 1 : j \in T PROVE i \in T
  <2>1. \A j \in i + 1 .. Len(bytes) + 1 : h[j] = f[j]
    BY <1>8
  <2>2. Reading(bytes, w, h, i) = Reading(bytes, w, f, i)
    BY <2>1, ReadingBehind
  <2> QED BY <1>6, <1>7, <2>2
<1>9. \A i \in 1 .. Len(bytes) + 1 : i \in T
  <2>1. Len(bytes) + 1 \in Nat
    BY <1>5
  <2> HIDE DEF T
  <2> QED BY <1>8, <2>1, CountingDown
<1>10. h \in [D -> Seq(Fields)]
  <2>1. \A i \in D : h[i] = f[i]
    BY <1>9
  <2>2. \A i \in D : f[i] \in Seq(Fields)
    BY <1>2 DEF Reads
  <2>3. h = [i \in D |-> h[i]]
    BY <1>4
  <2> QED BY <2>1, <2>2, <2>3
<1> QED BY <1>1, <1>6, <1>10 DEF Reads

\* What is read of the bytes behind some others is what is read of them alone.
LEMMA ShiftedLength ==
  ASSUME NEW b1 \in Seq(Byte), NEW b2 \in Seq(Byte), NEW w \in {1, 2, 4}, NEW m \in Nat,
         Len(b1) = m + Len(b2), \A i \in 1 .. Len(b2) : b1[m + i] = b2[i],
         NEW i \in 1 .. Len(b2), i + w =< Len(b2)
  PROVE  LengthAt(b1, w, m + i) = LengthAt(b2, w, i)
<1>1. Len(b2) \in Nat
  BY LenProperties
<1>2. i + 1 \in Nat /\ i + 1 > 0 /\ i + w \in Int /\ i + w =< Len(b2)
  BY <1>1
<1>3. SubSeq(b1, m + (i + 1), m + (i + w)) = SubSeq(b2, i + 1, i + w)
  BY <1>2, ShiftedPart
<1>4. m + (i + 1) = (m + i) + 1 /\ m + (i + w) = (m + i) + w
  OBVIOUS
<1> QED BY <1>3, <1>4 DEF LengthAt

LEMMA ShiftedReading ==
  ASSUME NEW b1 \in Seq(Byte), NEW b2 \in Seq(Byte), NEW w \in {1, 2, 4}, NEW m \in Nat,
         Len(b1) = m + Len(b2), \A i \in 1 .. Len(b2) : b1[m + i] = b2[i],
         NEW i \in 1 .. Len(b2) + 1, NEW h1, NEW h2,
         \A k \in i + 1 .. Len(b2) + 1 : h1[m + k] = h2[k]
  PROVE  Reading(b1, w, h1, m + i) = Reading(b2, w, h2, i)
<1>1. Len(b2) \in Nat
  BY LenProperties
<1>2. m + i > Len(b1) <=> i > Len(b2)
  BY <1>1
<1>3. Len(b1) < m + i + w <=> Len(b2) < i + w
  BY <1>1
<1>4. ASSUME ~(i > Len(b2)), ~(Len(b2) < i + w)
      PROVE  Reading(b1, w, h1, m + i) = Reading(b2, w, h2, i)
  <2>1. PICK x : x = LengthAt(b2, w, i)
    OBVIOUS
  <2>2. i \in 1 .. Len(b2) /\ i + w =< Len(b2)
    BY <1>1, <1>4
  <2>3. x \in Nat
    BY <2>1, <2>2, LengthIs
  <2>4. LengthAt(b1, w, m + i) = x
    BY <2>1, <2>2, ShiftedLength
  <2>5. Len(b1) < m + i + w + x <=> Len(b2) < i + w + x
    BY <1>1, <2>3
  <2>6. CASE Len(b2) < i + w + x
    BY <1>2, <1>3, <1>4, <2>1, <2>4, <2>5, <2>6 DEF Reading
  <2>7. CASE ~(Len(b2) < i + w + x)
    <3>1. i + w + 1 \in Nat /\ i + w + 1 > 0 /\ i + w + x \in Int /\ i + w + x =< Len(b2)
      BY <1>1, <2>2, <2>3, <2>7
    <3>2. SubSeq(b1, m + (i + w + 1), m + (i + w + x)) = SubSeq(b2, i + w + 1, i + w + x)
      <4>1. PICK j, k : j = i + w + 1 /\ k = i + w + x
        OBVIOUS
      <4>2. j \in Nat /\ j > 0 /\ k \in Int /\ k =< Len(b2)
        BY <3>1, <4>1
      <4>3. SamePart(b1, b2, m, j, k)
        BY <4>2, PartsMatch
      <4> QED BY <4>1, <4>3 DEF SamePart
    <3>3. m + (i + w + 1) = m + i + w + 1 /\ m + (i + w + x) = m + i + w + x
      BY <2>3
    <3>4. b1[m + i] = b2[i]
      BY <2>2
    <3>5. i + w + x + 1 \in i + 1 .. Len(b2) + 1 /\ m + (i + w + x + 1) = m + i + w + x + 1
      BY <1>1, <2>3, <3>1
    <3>6. h1[m + i + w + x + 1] = h2[i + w + x + 1]
      BY <3>5
    <3>7. Reading(b2, w, h2, i) = <<Field(b2[i], SubSeq(b2, i + w + 1, i + w + x))>> \o h2[i + w + x + 1]
      BY <1>4, <2>1, <2>7 DEF Reading
    <3>8. Reading(b1, w, h1, m + i)
            = <<Field(b1[m + i], SubSeq(b1, m + i + w + 1, m + i + w + x))>> \o h1[m + i + w + x + 1]
      BY <1>2, <1>3, <1>4, <2>4, <2>5, <2>7 DEF Reading
    <3> QED BY <3>2, <3>3, <3>4, <3>6, <3>7, <3>8
  <2> QED BY <2>6, <2>7
<1> QED BY <1>2, <1>3, <1>4 DEF Reading

LEMMA Shifted ==
  ASSUME NEW b1 \in Seq(Byte), NEW b2 \in Seq(Byte), NEW w \in {1, 2, 4}, NEW m \in Nat,
         Len(b1) = m + Len(b2), \A i \in 1 .. Len(b2) : b1[m + i] = b2[i],
         NEW h1, NEW h2, Reads(b1, w, h1), Reads(b2, w, h2)
  PROVE  h1[m + 1] = h2[1]
<1> DEFINE T == {i \in 1 .. Len(b2) + 1 : h1[m + i] = h2[i]}
<1>1. Len(b2) \in Nat
  BY LenProperties
<1>2. ASSUME NEW i \in 1 .. Len(b2) + 1, \A j \in i + 1 .. Len(b2) + 1 : j \in T PROVE i \in T
  <2>1. \A k \in i + 1 .. Len(b2) + 1 : h1[m + k] = h2[k]
    BY <1>2
  <2>2. Reading(b1, w, h1, m + i) = Reading(b2, w, h2, i)
    BY <2>1, ShiftedReading
  <2>3. h2[i] = Reading(b2, w, h2, i)
    BY DEF Reads
  <2>4. m + i \in 1 .. Len(b1) + 1
    BY <1>1
  <2>5. h1[m + i] = Reading(b1, w, h1, m + i)
    BY <2>4 DEF Reads
  <2> QED BY <2>2, <2>3, <2>5
<1>3. \A i \in 1 .. Len(b2) + 1 : i \in T
  <2>1. Len(b2) + 1 \in Nat
    BY <1>1
  <2> HIDE DEF T
  <2> QED BY <1>2, <2>1, CountingDown
<1>4. 1 \in 1 .. Len(b2) + 1
  BY <1>1
<1> QED BY <1>3, <1>4

\* Nothing is read of nothing.
LEMMA ReadsNothing ==
  ASSUME NEW w \in {1, 2, 4}
  PROVE  ReadClumplets(<<>>, w) = <<>>
<1>1. PICK e \in Seq(Byte) : e = <<>> /\ Len(e) = 0
  BY EmptySeq
<1>2. PICK h : Reads(e, w, h) /\ ReadClumplets(e, w) = h[1]
  BY ReadsIs
<1>3. 1 \in 1 .. Len(e) + 1 /\ 1 > Len(e)
  BY <1>1
<1>4. h[1] = Reading(e, w, h, 1)
  BY <1>2, <1>3 DEF Reads
<1> QED BY <1>1, <1>2, <1>3, <1>4 DEF Reading

LEMMA ByteIs == ASSUME NEW x \in Byte PROVE x \in Nat /\ x % 256 = x
BY DEF Byte

\* A field with its length before some bytes is read, and then the bytes.
Written(field, w) == put_u8(field.tag) \o le(Len(field.data), w) \o field.data

LEMMA WrittenIs ==
  ASSUME NEW field, field.tag \in Byte, field.data \in Seq(Byte), NEW w \in {1, 2, 4}
  PROVE  /\ Written(field, w) \in Seq(Byte)
         /\ Len(Written(field, w)) = 1 + w + Len(field.data)
         /\ put_u8(field.tag) = <<field.tag>>
         /\ Written(field, w) = <<field.tag>> \o (le(Len(field.data), w) \o field.data)
<1>1. PICK tag, data : tag = field.tag /\ data = field.data
  OBVIOUS
<1>2. data \in Seq(Byte) /\ Len(data) \in Nat
  BY <1>1, LenProperties
<1>3. PICK p : p = put_u8(tag)
  OBVIOUS
<1>4. tag \in Nat /\ tag % 256 = tag
  BY <1>1, ByteIs
<1>5. p \in Seq(Byte) /\ Len(p) = 1
  <2>1. 1 \in {1, 2, 4}
    OBVIOUS
  <2> QED BY <1>3, <1>4, <2>1, LeBytes DEF put_u8
<1>6. p[1] = tag
  <2>1. 1 \in {1, 2, 4}
    OBVIOUS
  <2> QED BY <1>3, <1>4, <2>1, LeFirst DEF put_u8
<1>7. <<tag>> \in Seq(Byte) /\ Len(<<tag>>) = 1 /\ <<tag>>[1] = tag
  BY <1>1
<1>8. p = <<tag>>
  <2>1. PICK q : q = <<tag>>
    OBVIOUS
  <2>2. q \in Seq(Byte) /\ Len(q) = 1 /\ q[1] = tag
    BY <1>7, <2>1
  <2>3. \A i \in 1 .. Len(p) : p[i] = q[i]
    BY <1>5, <1>6, <2>2
  <2> QED BY <1>5, <2>1, <2>2, <2>3, SeqEqual
<1>9. PICK l : l = le(Len(data), w)
  OBVIOUS
<1>10. l \in Seq(Byte) /\ Len(l) = w
  BY <1>2, <1>9, LeBytes
<1>11. Written(field, w) = (p \o l) \o data
  BY <1>1, <1>3, <1>9 DEF Written
<1>12. (p \o l) \o data = p \o (l \o data)
  BY <1>2, <1>5, <1>10, ConcatAssociative
<1>13. p \o l \in Seq(Byte) /\ Len(p \o l) = 1 + w
  <2>1. Longer(Byte, p, l)
    BY <1>5, <1>10, Lengthens
  <2> QED BY <1>5, <1>10, <2>1 DEF Longer
<1>14. (p \o l) \o data \in Seq(Byte) /\ Len((p \o l) \o data) = 1 + w + Len(data)
  BY <1>2, <1>13, ConcatProperties
<1> QED BY <1>1, <1>3, <1>8, <1>9, <1>11, <1>12, <1>14

LEMMA ReadsField ==
  ASSUME NEW field, field.tag \in Byte, field.data \in Seq(Byte), NEW w \in {1, 2, 4},
         Len(field.data) < Limit(w), NEW rest \in Seq(Byte)
  PROVE  ReadClumplets(Written(field, w) \o rest, w)
           = <<Field(field.tag, field.data)>> \o ReadClumplets(rest, w)
<1>1. PICK tag, data : tag = field.tag /\ data = field.data
  OBVIOUS
<1>2. data \in Seq(Byte) /\ Len(data) \in Nat
  BY <1>1, LenProperties
<1>3. PICK wr : wr = Written(field, w)
  OBVIOUS
<1>4. PICK l : l = le(Len(data), w)
  OBVIOUS
<1>5. l \in Seq(Byte) /\ Len(l) = w /\ FromLe(l) = Len(data)
  <2>1. l \in Seq(Byte) /\ Len(l) = w
    BY <1>2, <1>4, LeBytes
  <2>2. FromLe(l) = Len(data)
    BY <1>1, <1>2, <1>4, LeReads
  <2> QED BY <2>1, <2>2
<1>6. PICK t : t = <<tag>>
  OBVIOUS
<1>7. t \in Seq(Byte) /\ Len(t) = 1 /\ t[1] = tag
  BY <1>1, <1>6
<1>8. wr \in Seq(Byte) /\ Len(wr) = 1 + w + Len(data) /\ wr = t \o (l \o data)
  BY <1>1, <1>3, <1>4, <1>6, WrittenIs
<1>9. PICK ld : ld = l \o data
  OBVIOUS
<1>10. ld \in Seq(Byte)
  BY <1>2, <1>5, <1>9, ConcatProperties
<1>11. PICK bytes : bytes = wr \o rest
  OBVIOUS
<1>12. bytes \in Seq(Byte) /\ Len(bytes) = Len(wr) + Len(rest)
       /\ \A i \in 1 .. Len(rest) : bytes[Len(wr) + i] = rest[i]
  <2>1. bytes \in Seq(Byte)
    BY <1>8, <1>11, ConcatProperties
  <2>2. Len(bytes) = Len(wr) + Len(rest)
    BY <1>8, <1>11, ConcatProperties
  <2>3. \A i \in 1 .. Len(rest) : bytes[Len(wr) + i] = rest[i]
    <3>1. wr \in Seq(Byte)
      BY <1>8
    <3> QED BY <1>11, <3>1, BehindAt
  <2> QED BY <2>1, <2>2, <2>3
<1>13. Len(rest) \in Nat
  BY LenProperties
\* the three parts of what is written, where they are
<1>14. bytes = t \o (l \o (data \o rest)) /\ bytes = (t \o l) \o (data \o rest)
  <2>1. bytes = (t \o ld) \o rest
    BY <1>8, <1>9, <1>11
  <2>2. (t \o ld) \o rest = t \o (ld \o rest)
    <3>1. Grouped(t, ld, rest)
      BY <1>7, <1>10, Groups
    <3> QED BY <3>1 DEF Grouped
  <2>3. ld \o rest = l \o (data \o rest)
    <3>1. Grouped(l, data, rest)
      BY <1>2, <1>5, Groups
    <3> QED BY <1>9, <3>1 DEF Grouped
  <2>4. data \o rest \in Seq(Byte)
    BY <1>2, ConcatProperties
  <2>5. (t \o l) \o (data \o rest) = t \o (l \o (data \o rest))
    <3>1. PICK dr : dr = data \o rest
      OBVIOUS
    <3>2. t \in Seq(Byte) /\ l \in Seq(Byte) /\ dr \in Seq(Byte)
      BY <1>5, <1>7, <2>4, <3>1
    <3>3. Grouped(t, l, dr)
      BY <3>2, Groups
    <3> QED BY <3>1, <3>3 DEF Grouped
  <2> QED BY <2>1, <2>2, <2>3, <2>5
<1>15. data \o rest \in Seq(Byte) /\ t \o l \in Seq(Byte) /\ Len(t \o l) = 1 + w
  <2>1. data \o rest \in Seq(Byte)
    BY <1>2, ConcatProperties
  <2>2. t \o l \in Seq(Byte)
    BY <1>5, <1>7, ConcatProperties
  <2>3. Len(t \o l) = 1 + w
    <3>1. Longer(Byte, t, l)
      BY <1>5, <1>7, Lengthens
    <3> QED BY <1>5, <1>7, <3>1 DEF Longer
  <2> QED BY <2>1, <2>2, <2>3
<1>16. SubSeq(bytes, 1 + 1, 1 + w) = l
  <2>1. SubSeq(t \o (l \o (data \o rest)), Len(t) + 1, Len(t) + Len(l)) = l
    BY <1>5, <1>7, <1>15, CutBetween
  <2> QED BY <1>5, <1>7, <1>14, <2>1
<1>17. SubSeq(bytes, 1 + w + 1, 1 + w + Len(data)) = data
  <2>1. PICK a : a = t \o l
    OBVIOUS
  <2>2. SubSeq(a \o (data \o rest), Len(a) + 1, Len(a) + Len(data)) = data
    BY <1>2, <1>15, <2>1, CutBetween
  <2> QED BY <1>14, <1>15, <2>1, <2>2
<1>18. bytes[1] = tag
  <2>1. PICK lr : lr = l \o (data \o rest)
    OBVIOUS
  <2>2. lr \in Seq(Byte) /\ Len(lr) \in Nat
    BY <1>5, <1>15, <2>1, ConcatProperties, LenProperties
  <2>3. 1 \in 1 .. Len(t) + Len(lr) /\ 1 =< Len(t)
    BY <1>7, <2>2
  <2>4. (t \o lr)[1] = t[1]
    BY <1>7, <2>2, <2>3, ConcatProperties
  <2> QED BY <1>7, <1>14, <2>1, <2>4
<1>19. LengthAt(bytes, w, 1) = Len(data)
  BY <1>5, <1>16 DEF LengthAt
<1>20. PICK h1 : Reads(bytes, w, h1) /\ ReadClumplets(bytes, w) = h1[1]
  BY <1>12, ReadsIs
<1>21. PICK h2 : Reads(rest, w, h2) /\ ReadClumplets(rest, w) = h2[1]
  BY ReadsIs
<1>22. h1[Len(wr) + 1] = h2[1]
  <2>1. Len(wr) \in Nat
    BY <1>2, <1>8
  <2> QED BY <1>12, <1>20, <1>21, <2>1, Shifted
<1>23. /\ ~(1 > Len(bytes)) /\ ~(Len(bytes) < 1 + w \/ Len(bytes) < 1 + w + Len(data))
       /\ 1 \in 1 .. Len(bytes) + 1 /\ 1 + w + Len(data) + 1 = Len(wr) + 1
  BY <1>2, <1>8, <1>12, <1>13
<1>24. h1[1] = Reading(bytes, w, h1, 1)
  BY <1>20, <1>23 DEF Reads
<1>25. Reading(bytes, w, h1, 1) = <<Field(tag, data)>> \o h1[Len(wr) + 1]
  BY <1>17, <1>18, <1>19, <1>23 DEF Reading
<1> QED BY <1>1, <1>3, <1>11, <1>20, <1>21, <1>22, <1>24, <1>25

ByteFields == [tag : Byte, data : Seq(Byte)]

LEMMA FlattenOne ==
  ASSUME NEW S, NEW x \in Seq(S)
  PROVE  FlattenSeq(<<x>>) = x
<1>1. <<>> \in Seq(Seq(S))
  BY EmptySeq
<1>2. FlattenSeq(Append(<<>>, x)) = FlattenSeq(<<>>) \o x
  BY <1>1, FlattenAppend
<1>3. Append(<<>>, x) = <<x>>
  OBVIOUS
<1>4. <<>> \o x = x
  BY ConcatEmptySeq
<1> QED BY <1>2, <1>3, <1>4, FlattenNothing

\* Fields one behind the other: the first, and then the rest.
AllWritten(fields, w) == [i \in DOMAIN fields |-> Written(fields[i], w)]

LEMMA ClumpletsAre ==
  ASSUME NEW fields \in Seq(ByteFields), NEW w \in {1, 2, 4}
  PROVE  /\ AllWritten(fields, w) \in Seq(Seq(Byte))
         /\ Clumplets(fields, w) = FlattenSeq(AllWritten(fields, w))
         /\ Clumplets(fields, w) \in Seq(Byte)
<1>1. Len(fields) \in Nat /\ DOMAIN fields = 1 .. Len(fields)
  BY LenProperties
<1>2. ASSUME NEW i \in 1 .. Len(fields) PROVE Written(fields[i], w) \in Seq(Byte)
  <2>1. PICK x \in ByteFields : x = fields[i]
    BY ElementOfSeq
  <2>2. x.tag \in Byte /\ x.data \in Seq(Byte)
    BY DEF ByteFields
  <2> QED BY <2>1, <2>2, WrittenIs
<1>3. PICK q : q = AllWritten(fields, w)
  OBVIOUS
<1>4. q \in [1 .. Len(fields) -> Seq(Byte)]
  BY <1>1, <1>2, <1>3 DEF AllWritten
<1>5. q \in Seq(Seq(Byte))
  BY <1>1, <1>4, SeqDef
<1>6. Clumplets(fields, w) = FlattenSeq(AllWritten(fields, w))
  BY DEF Clumplets, AllWritten, Written
<1>7. FlattenSeq(q) \in Seq(Byte)
  <2>1. <<>> \in Seq(Byte)
    BY EmptySeq
  <2> QED BY <1>5, <2>1, FlattenAppend
<1> QED BY <1>3, <1>5, <1>6, <1>7

LEMMA ClumpletsFirst ==
  ASSUME NEW field \in ByteFields, NEW fields \in Seq(ByteFields), NEW w \in {1, 2, 4}
  PROVE  Clumplets(<<field>> \o fields, w) = Written(field, w) \o Clumplets(fields, w)
<1>1. PICK q : q = AllWritten(fields, w)
  OBVIOUS
<1>2. q \in Seq(Seq(Byte)) /\ Clumplets(fields, w) = FlattenSeq(q)
  BY <1>1, ClumpletsAre
<1>3. PICK x : x = Written(field, w)
  OBVIOUS
<1>4. x \in Seq(Byte)
  <2>1. field.tag \in Byte /\ field.data \in Seq(Byte)
    BY DEF ByteFields
  <2> QED BY <1>3, <2>1, WrittenIs
<1>5. PICK more : more = <<field>> \o fields
  OBVIOUS
<1>6. PICK one : one = <<field>>
  OBVIOUS
<1>7. one \in Seq(ByteFields) /\ Len(one) = 1 /\ one[1] = field
  BY <1>6
<1>8. /\ more \in Seq(ByteFields) /\ Len(more) = 1 + Len(fields)
      /\ \A i \in 1 .. 1 + Len(fields) : more[i] = IF i <= 1 THEN one[1] ELSE fields[i - 1]
  <2>1. more \in Seq(ByteFields) /\ Len(more) = Len(one) + Len(fields)
    BY <1>5, <1>6, <1>7, ConcatProperties
  <2>2. \A i \in 1 .. Len(one) + Len(fields) : more[i] = IF i <= Len(one) THEN one[i] ELSE fields[i - Len(one)]
    BY <1>5, <1>6, <1>7, ConcatProperties
  <2>3. Len(fields) \in Nat
    BY LenProperties
  <2>4. ASSUME NEW i \in 1 .. 1 + Len(fields) PROVE more[i] = IF i <= 1 THEN one[1] ELSE fields[i - 1]
    <3>1. i <= 1 => i = 1
      BY <2>3
    <3> QED BY <1>7, <2>2, <3>1
  <2> QED BY <1>7, <2>1, <2>4
<1>9. PICK p : p = AllWritten(more, w)
  OBVIOUS
<1>10. p \in Seq(Seq(Byte)) /\ Clumplets(more, w) = FlattenSeq(p)
  BY <1>8, <1>9, ClumpletsAre
<1>11. Len(fields) \in Nat /\ DOMAIN fields = 1 .. Len(fields) /\ DOMAIN more = 1 .. 1 + Len(fields)
  BY <1>8, LenProperties
<1>12. /\ Len(q) = Len(fields) /\ \A i \in 1 .. Len(fields) : q[i] = Written(fields[i], w)
  <2>1. DOMAIN q = 1 .. Len(fields) /\ \A i \in 1 .. Len(fields) : q[i] = Written(fields[i], w)
    BY <1>1, <1>11 DEF AllWritten
  <2>2. DOMAIN q = 1 .. Len(q) /\ Len(q) \in Nat
    BY <1>2, LenProperties
  <2> QED BY <1>11, <2>1, <2>2
<1>13. /\ Len(p) = 1 + Len(fields) /\ \A i \in 1 .. 1 + Len(fields) : p[i] = Written(more[i], w)
  <2>1. DOMAIN p = 1 .. 1 + Len(fields) /\ \A i \in 1 .. 1 + Len(fields) : p[i] = Written(more[i], w)
    BY <1>9, <1>11 DEF AllWritten
  <2>2. DOMAIN p = 1 .. Len(p) /\ Len(p) \in Nat
    BY <1>10, LenProperties
  <2> QED BY <1>11, <2>1, <2>2
<1>14. PICK ox : ox = <<x>>
  OBVIOUS
<1>15. ox \in Seq(Seq(Byte)) /\ Len(ox) = 1 /\ ox[1] = x
  BY <1>4, <1>14
<1>16. p = ox \o q
  <2>1. PICK r : r = ox \o q
    OBVIOUS
  <2>2. r \in Seq(Seq(Byte)) /\ Len(r) = Len(ox) + Len(q)
    BY <1>2, <1>15, <2>1, ConcatProperties
  <2>3. \A i \in 1 .. Len(ox) + Len(q) : r[i] = IF i <= Len(ox) THEN ox[i] ELSE q[i - Len(ox)]
    BY <1>2, <1>15, <2>1, ConcatProperties
  <2>4. ASSUME NEW i \in 1 .. 1 + Len(fields) PROVE p[i] = r[i]
    <3>1. p[i] = Written(more[i], w)
      BY <1>13
    <3>2. CASE i = 1
      <4>1. more[i] = field
        BY <1>7, <1>8, <1>11, <3>2
      <4>2. r[i] = x
        BY <1>11, <1>12, <1>15, <2>3, <3>2
      <4> QED BY <1>3, <3>1, <4>1, <4>2
    <3>3. CASE i > 1
      <4>1. i - 1 \in 1 .. Len(fields) /\ ~(i <= 1)
        BY <1>11, <3>3
      <4>2. more[i] = fields[i - 1]
        BY <1>8, <4>1
      <4>3. r[i] = q[i - 1]
        BY <1>12, <1>15, <2>3, <4>1
      <4>4. q[i - 1] = Written(fields[i - 1], w)
        BY <1>12, <4>1
      <4> QED BY <3>1, <4>2, <4>3, <4>4
    <3> QED BY <1>11, <3>2, <3>3
  <2>5. Len(r) = 1 + Len(fields)
    BY <1>12, <1>15, <2>2
  <2>6. Len(p) = Len(r) /\ \A i \in 1 .. Len(p) : p[i] = r[i]
    BY <1>13, <2>4, <2>5
  <2> QED BY <1>10, <2>1, <2>2, <2>6, SeqEqual
<1>17. FlattenSeq(p) = FlattenSeq(ox) \o FlattenSeq(q)
  BY <1>2, <1>15, <1>16, FlattenConcat
<1>18. FlattenSeq(ox) = x
  BY <1>4, <1>14, FlattenOne
<1> QED BY <1>2, <1>3, <1>5, <1>10, <1>17, <1>18

LEMMA ClumpletsNothing ==
  ASSUME NEW w
  PROVE  Clumplets(<<>>, w) = <<>>
<1>1. Clumplets(<<>>, w) = FlattenSeq(<<>>)
  BY DEF Clumplets
<1> QED BY <1>1, FlattenNothing

\* Fields that fit their lengths are read as they were written, however many they are
\* and whatever is in them.
THEOREM ClumpletsSurvive ==
  ASSUME NEW fields \in Seq(ByteFields), NEW w \in {1, 2, 4},
         \A i \in DOMAIN fields : Len(fields[i].data) < Limit(w)
  PROVE  ReadClumplets(Clumplets(fields, w), w) = fields
<1> DEFINE n == Len(fields)
           L(k) == SubSeq(fields, n - k + 1, n)
           T == {k \in 0 .. n : ReadClumplets(Clumplets(L(k), w), w) = L(k)}
<1>1. n \in Nat /\ DOMAIN fields = 1 .. n
  BY LenProperties
<1>2. L(0) = <<>>
  <2>1. n - 0 + 1 \in Int /\ n \in Int /\ n < n - 0 + 1
    BY <1>1
  <2> HIDE DEF n
  <2> QED BY <2>1, SubSeqEmpty
<1>3. 0 \in T
  <2>1. 0 \in 0 .. n
    BY <1>1
  <2> HIDE DEF n
  <2> QED BY <1>2, <2>1, ClumpletsNothing, ReadsNothing
<1>4. ASSUME NEW k \in 0 .. n, k < n, k \in T PROVE k + 1 \in T
  <2>1. n - k \in 1 .. n /\ n \in n - k .. n /\ n - (k + 1) + 1 = n - k /\ k + 1 \in 0 .. n
        /\ n - k + 1 \in Nat /\ n - k + 1 > 0
    BY <1>1, <1>4
  <2>2. SubSeq(fields, n - k, n) = <<fields[n - k]>> \o SubSeq(fields, (n - k) + 1, n)
    BY <2>1, SubSeqRecursiveFirst
  <2>3. L(k + 1) = <<fields[n - k]>> \o L(k)
    <3>1. L(k + 1) = SubSeq(fields, n - (k + 1) + 1, n)
      OBVIOUS
    <3> QED BY <2>1, <2>2, <3>1
  <2>4. PICK x \in ByteFields : x = fields[n - k]
    BY <2>1, ElementOfSeq
  <2>5. PICK r : r = L(k)
    OBVIOUS
  <2>6. r \in Seq(ByteFields)
    <3>1. n =< Len(fields) /\ n \in Int
      BY <1>1
    <3>2. SubSeq(fields, n - k + 1, n) \in Seq(ByteFields)
      BY <2>1, <3>1, PartOf
    <3> QED BY <2>5, <3>2
  <2>7. ReadClumplets(Clumplets(r, w), w) = r
    BY <1>4, <2>5
  <2> HIDE DEF L
  <2>8. Clumplets(L(k + 1), w) = Written(x, w) \o Clumplets(r, w)
    BY <2>3, <2>4, <2>5, <2>6, ClumpletsFirst
  <2>9. Clumplets(r, w) \in Seq(Byte)
    BY <2>6, ClumpletsAre
  <2>10. /\ x.tag \in Byte /\ x.data \in Seq(Byte) /\ Len(x.data) < Limit(w)
         /\ Field(x.tag, x.data) = x
    <3>1. x.tag \in Byte /\ x.data \in Seq(Byte) /\ x = [tag |-> x.tag, data |-> x.data]
      BY DEF ByteFields
    <3>2. Len(x.data) < Limit(w)
      BY <1>1, <2>1, <2>4
    <3> QED BY <3>1, <3>2 DEF Field
  <2>11. ReadClumplets(Written(x, w) \o Clumplets(r, w), w)
           = <<Field(x.tag, x.data)>> \o ReadClumplets(Clumplets(r, w), w)
    BY <2>9, <2>10, ReadsField
  <2>12. ReadClumplets(Clumplets(L(k + 1), w), w) = L(k + 1)
    BY <2>3, <2>4, <2>5, <2>7, <2>8, <2>10, <2>11
  <2> QED BY <2>1, <2>12
<1>5. \A k \in 0 .. n : k \in T
  <2> HIDE DEF T, n
  <2> QED BY <1>1, <1>3, <1>4, Counting
<1>6. L(n) = fields
  <2>1. n - n + 1 = 1
    BY <1>1
  <2> QED BY <2>1, SubSeqFull
<1>7. n \in 0 .. n
  BY <1>1
<1>8. ReadClumplets(Clumplets(L(n), w), w) = L(n)
  <2> HIDE DEF L, n
  <2> QED BY <1>5, <1>7
<1> HIDE DEF L, n
<1> QED BY <1>6, <1>8

\* No field that is read is longer than its length can say.
THEOREM ReadFieldsFit ==
  ASSUME NEW bytes \in Seq(Byte), NEW w \in {1, 2, 4}, NEW fields, fields = ReadClumplets(bytes, w),
         NEW i \in DOMAIN fields
  PROVE  /\ w = 1 => Len(fields[i].data) < 256
         /\ w = 2 => Len(fields[i].data) < 65536
<1> DEFINE Fits(fs) == \A k \in DOMAIN fs : /\ w = 1 => Len(fs[k].data) < 256
                                            /\ w = 2 => Len(fs[k].data) < 65536
<1>1. PICK h : Reads(bytes, w, h) /\ ReadClumplets(bytes, w) = h[1]
  BY ReadsIs
<1>2. Len(bytes) \in Nat
  BY LenProperties
<1> DEFINE T == {k \in 1 .. Len(bytes) + 1 : Fits(h[k])}
<1>3. ASSUME NEW k \in 1 .. Len(bytes) + 1, \A j \in k + 1 .. Len(bytes) + 1 : j \in T PROVE k \in T
  <2>1. h[k] = Reading(bytes, w, h, k)
    BY <1>1 DEF Reads
  <2>2. CASE k > Len(bytes)
    <3>1. h[k] = <<>>
      BY <2>1, <2>2 DEF Reading
    <3> QED BY <3>1
  <2>3. CASE ~(k > Len(bytes)) /\ (Len(bytes) < k + w \/ Len(bytes) < k + w + LengthAt(bytes, w, k))
    <3>1. h[k] = <<Malformed>>
      BY <2>1, <2>3 DEF Reading
    <3>2. Len(Malformed.data) = 0
      BY DEF Malformed, Field
    <3>3. Fits(<<Malformed>>)
      <4>1. \A j \in DOMAIN <<Malformed>> : <<Malformed>>[j] = Malformed
        OBVIOUS
      <4> QED BY <3>2, <4>1
    <3> QED BY <3>1, <3>3
  <2>4. CASE ~(k > Len(bytes)) /\ ~(Len(bytes) < k + w \/ Len(bytes) < k + w + LengthAt(bytes, w, k))
    <3>1. k \in 1 .. Len(bytes) /\ k + w =< Len(bytes)
      BY <1>2, <2>4
    <3>2. PICK x : x = LengthAt(bytes, w, k)
      OBVIOUS
    <3>3. x \in Nat /\ (w = 1 => x < 256) /\ (w = 2 => x < 65536)
      BY <3>1, <3>2, LengthIs
    <3>4. k + w + x =< Len(bytes)
      BY <1>2, <2>4, <3>2, <3>3
    <3>5. PICK d : d = SubSeq(bytes, k + w + 1, k + w + x)
      OBVIOUS
    <3>6. Len(d) = x /\ k + w + x + 1 \in k + 1 .. Len(bytes) + 1
      <4>1. Len(d) = x
        BY <3>1, <3>2, <3>4, <3>5, FieldIs
      <4>2. k + w + x + 1 \in k + 1 .. Len(bytes) + 1
        BY <3>1, <3>2, <3>4, FieldIs
      <4> QED BY <4>1, <4>2
    <3>7. PICK f, r : f = Field(bytes[k], d) /\ r = h[k + w + x + 1]
      OBVIOUS
    <3>8. h[k] = <<f>> \o r
      BY <2>1, <2>4, <3>2, <3>5, <3>7 DEF Reading
    <3>9. Len(f.data) = x
      BY <3>6, <3>7 DEF Field
    <3>10. Fits(r) /\ r \in Seq(Fields)
      <4>1. k + w + x + 1 \in T
        BY <1>3, <3>6
      <4>2. k + w + x + 1 \in 1 .. Len(bytes) + 1
        BY <1>2, <3>1, <3>6
      <4>3. r \in Seq(Fields)
        BY <1>1, <3>7, <4>2 DEF Reads
      <4> QED BY <3>7, <4>1, <4>3
    <3>11. Fits(<<f>> \o r)
      <4>1. Len(r) \in Nat /\ DOMAIN r = 1 .. Len(r)
        BY <3>10, LenProperties
      <4>2. DOMAIN (<<f>> \o r) = 1 .. 1 + Len(r)
            /\ \A j \in 1 .. 1 + Len(r) : (<<f>> \o r)[j] = IF j = 1 THEN f ELSE r[j - 1]
        BY <4>1
      <4>3. \A j \in 2 .. 1 + Len(r) : j - 1 \in DOMAIN r
        BY <4>1
      <4> QED BY <3>3, <3>9, <3>10, <4>1, <4>2, <4>3
    <3> HIDE DEF Fits
    <3>12. Fits(h[k])
      BY <3>8, <3>11
    <3> QED BY <3>12
  <2> QED BY <2>2, <2>3, <2>4
<1>4. \A k \in 1 .. Len(bytes) + 1 : k \in T
  <2>1. Len(bytes) + 1 \in Nat
    BY <1>2
  <2> HIDE DEF T
  <2> QED BY <1>3, <2>1, CountingDown
<1>5. 1 \in T
  BY <1>2, <1>4
<1> QED BY <1>1, <1>5

\* The fields whose length w bytes can say.
Fit(w) == {f \in ByteFields : Len(f.data) < Limit(w)}

LEMMA SeqIn ==
  ASSUME NEW S, NEW F, NEW s \in Seq(S)
  PROVE  s \in Seq(F) <=> \A i \in 1 .. Len(s) : s[i] \in F
<1>1. Len(s) \in Nat /\ s \in [1 .. Len(s) -> S]
  BY LenProperties
<1>2. ASSUME \A i \in 1 .. Len(s) : s[i] \in F PROVE s \in Seq(F)
  <2>1. s \in [1 .. Len(s) -> F]
    BY <1>1, <1>2
  <2> QED BY <1>1, <2>1, SeqDef
<1>3. ASSUME s \in Seq(F) PROVE \A i \in 1 .. Len(s) : s[i] \in F
  BY <1>3, ElementOfSeq
<1> QED BY <1>2, <1>3

\* A joined sequence has the elements of both.
LEMMA JoinedIn ==
  ASSUME NEW S, NEW F, NEW a \in Seq(S), NEW b \in Seq(S)
  PROVE  a \o b \in Seq(F) <=> a \in Seq(F) /\ b \in Seq(F)
<1>1. ASSUME a \in Seq(F), b \in Seq(F) PROVE a \o b \in Seq(F)
  BY <1>1, ConcatProperties
<1>2. ASSUME a \o b \in Seq(F) PROVE a \in Seq(F) /\ b \in Seq(F)
  <2>1. PICK c : c = a \o b
    OBVIOUS
  <2>2. Len(a) \in Nat /\ Len(b) \in Nat
    BY LenProperties
  <2>3. Len(c) = Len(a) + Len(b)
    BY <2>1, ConcatProperties
  <2>4. \A i \in 1 .. Len(a) + Len(b) : c[i] = IF i <= Len(a) THEN a[i] ELSE b[i - Len(a)]
    BY <2>1, ConcatProperties
  <2>5. \A i \in 1 .. Len(a) + Len(b) : c[i] \in F
    BY <1>2, <2>1, <2>3, ElementOfSeq
  <2>6. ASSUME NEW i \in 1 .. Len(a) PROVE a[i] \in F
    <3>1. i \in 1 .. Len(a) + Len(b) /\ i <= Len(a)
      BY <2>2
    <3> QED BY <2>4, <2>5, <3>1
  <2>7. ASSUME NEW i \in 1 .. Len(b) PROVE b[i] \in F
    <3>1. Len(a) + i \in 1 .. Len(a) + Len(b) /\ ~(Len(a) + i <= Len(a)) /\ (Len(a) + i) - Len(a) = i
      BY <2>2
    <3>2. c[Len(a) + i] = b[(Len(a) + i) - Len(a)]
      BY <2>4, <3>1
    <3> QED BY <2>5, <3>1, <3>2
  <2> QED BY <2>6, <2>7, SeqIn
<1> QED BY <1>1, <1>2

LEMMA OneIn ==
  ASSUME NEW F, NEW x
  PROVE  <<x>> \in Seq(F) <=> x \in F
<1>1. <<x>> \in Seq({x}) /\ Len(<<x>>) = 1 /\ <<x>>[1] = x
  OBVIOUS
<1>2. <<x>> \in Seq(F) <=> \A i \in 1 .. Len(<<x>>) : <<x>>[i] \in F
  BY <1>1, SeqIn
<1> QED BY <1>1, <1>2

LEMMA OptionalIn ==
  ASSUME NEW F, NEW x, NEW cond \in BOOLEAN
  PROVE  Optional(cond, x) \in Seq(F) <=> (cond => x \in F)
<1>1. CASE cond
  BY <1>1, OneIn DEF Optional
<1>2. CASE ~cond
  <2>1. <<>> \in Seq(F)
    BY EmptySeq
  <2> QED BY <1>2, <2>1 DEF Optional
<1> QED BY <1>1, <1>2

\* Fields are read as they were written exactly if each fits its length; of more than
\* two bytes every length does that there is.
THEOREM ClumpletsSurviveIfFit ==
  ASSUME NEW fields \in Seq(ByteFields), NEW w \in {1, 2}
  PROVE  ReadClumplets(Clumplets(fields, w), w) = fields <=> fields \in Seq(Fit(w))
<1>0. Len(fields) \in Nat /\ DOMAIN fields = 1 .. Len(fields) /\ w \in {1, 2, 4}
  BY LenProperties
<1>1. ASSUME fields \in Seq(Fit(w)) PROVE ReadClumplets(Clumplets(fields, w), w) = fields
  <2>1. \A i \in 1 .. Len(fields) : fields[i] \in Fit(w)
    BY <1>1, ElementOfSeq
  <2>2. \A i \in DOMAIN fields : Len(fields[i].data) < Limit(w)
    BY <1>0, <2>1 DEF Fit
  <2> QED BY <1>0, <2>2, ClumpletsSurvive
<1>2. ASSUME ReadClumplets(Clumplets(fields, w), w) = fields PROVE fields \in Seq(Fit(w))
  <2>1. Clumplets(fields, w) \in Seq(Byte)
    BY <1>0, ClumpletsAre
  <2>2. ASSUME NEW i \in 1 .. Len(fields) PROVE fields[i] \in Fit(w)
    <3>1. fields[i] \in ByteFields
      BY ElementOfSeq
    <3>2. (w = 1 => Len(fields[i].data) < 256) /\ (w = 2 => Len(fields[i].data) < 65536)
      BY <1>0, <1>2, <2>1, ReadFieldsFit
    <3>3. Len(fields[i].data) < Limit(w)
      <4>1. CASE w = 1
        BY <3>2, <4>1 DEF Limit
      <4>2. CASE w = 2
        BY <3>2, <4>2 DEF Limit
      <4> QED BY <4>1, <4>2
    <3> QED BY <3>1, <3>3 DEF Fit
  <2> QED BY <2>2, SeqIn
<1> QED BY <1>1, <1>2

---------------------------------------------------------------------------
\* What a configuration holds: texts that a length of four bytes can say.
Texts4 == {t \in Seq(Byte) : Len(t) < Limit(4)}
Confs == [user : Texts4, pass : Texts4, role : Texts4, remote : BOOLEAN, triggers : BOOLEAN, page : Nat]

LEMMA FieldIn ==
  ASSUME NEW tag \in Byte, NEW data \in Seq(Byte), NEW w
  PROVE  /\ Field(tag, data) \in ByteFields
         /\ Field(tag, data) \in Fit(w) <=> Len(data) < Limit(w)
BY DEF Field, ByteFields, Fit

LEMMA Tags ==
  /\ page_size \in Byte /\ user_name \in Byte /\ password \in Byte /\ lc_ctype \in Byte
  /\ sql_role_name \in Byte /\ sql_dialect \in Byte /\ no_db_triggers \in Byte
BY DEF page_size, user_name, password, lc_ctype, sql_role_name, sql_dialect, no_db_triggers, Byte

LEMMA Limits == Limit(1) = 256 /\ Limit(2) = 65536 /\ Limit(4) > 65536 /\ Limit(4) \in Nat
<1>1. Limit(1) = 256 /\ Limit(2) = 65536 /\ Limit(4) = 65536 * 65536
  BY DEF Limit
<1>2. 65536 * 65536 > 65536 /\ 65536 * 65536 \in Nat
  BY SMT
<1> QED BY <1>1, <1>2

LEMMA TableIs ==
  ASSUME NEW S, NEW n \in Nat, NEW f, f \in [1 .. n -> S]
  PROVE  f \in Seq(S) /\ Len(f) = n
BY SeqDef, LenProperties

LEMMA SmallData ==
  ASSUME NEW n \in Nat
  PROVE  /\ le(n, 4) \in Seq(Byte) /\ Len(le(n, 4)) = 4
         /\ be(n, 4) \in Seq(Byte) /\ Len(be(n, 4)) = 4
         /\ <<1>> \in Seq(Byte) /\ Len(<<1>>) = 1
         /\ <<2>> \in Seq(Byte) /\ Len(<<2>>) = 1
<1>1. PICK l : l = le(n, 4)
  OBVIOUS
<1>2. l \in Seq(Byte) /\ Len(l) = 4
  <2>1. 4 \in {1, 2, 4}
    OBVIOUS
  <2> QED BY <1>1, <2>1, LeBytes
<1>3. PICK b : b = be(n, 4)
  OBVIOUS
<1>4. b \in Seq(Byte) /\ Len(b) = 4
  <2>1. b = [i \in 1 .. Len(l) |-> l[(Len(l) - i) + 1]]
    BY <1>1, <1>3 DEF be, Reverse
  <2>2. \A i \in 1 .. 4 : l[i] \in Byte
    BY <1>2, ElementOfSeq
  <2>3. \A i \in 1 .. 4 : (4 - i) + 1 \in 1 .. 4
    OBVIOUS
  <2>4. b \in [1 .. 4 -> Byte]
    BY <1>2, <2>1, <2>2, <2>3
  <2>5. 4 \in Nat
    OBVIOUS
  <2> QED BY <2>4, <2>5, TableIs
<1>5. 1 \in Byte /\ 2 \in Byte
  BY DEF Byte
<1>6. <<1>> \in Seq(Byte) /\ <<2>> \in Seq(Byte) /\ Len(<<1>>) = 1 /\ Len(<<2>>) = 1
  BY <1>5, OneIn
<1> QED BY <1>1, <1>2, <1>3, <1>4, <1>6

\* The wire client's attachment block says what it was built from, at every length.
THEOREM DpbSurvives ==
  ASSUME NEW fields \in Seq(Fit(4))
  PROVE  ReadDpb(dpb(fields)) = fields
<1>1. fields \in Seq(ByteFields) /\ Len(fields) \in Nat /\ DOMAIN fields = 1 .. Len(fields)
  <2>1. Fit(4) \subseteq ByteFields
    BY DEF Fit
  <2> QED BY <2>1, SeqMonotonic, LenProperties
<1>2. \A i \in DOMAIN fields : Len(fields[i].data) < Limit(4) /\ Len(fields[i].data) \in Nat
  <2>1. \A i \in DOMAIN fields : fields[i] \in Fit(4)
    BY <1>1, ElementOfSeq
  <2> QED BY <2>1, LenProperties DEF Fit, ByteFields
<1>3. ASSUME NEW v \in {1, 2}, NEW w \in {1, 2, 4}, NEW block, block = put_u8(v) \o Clumplets(fields, w)
      PROVE  Head(block) = v /\ Tail(block) = Clumplets(fields, w)
  <2>1. PICK c : c = Clumplets(fields, w)
    OBVIOUS
  <2>2. c \in Seq(Byte)
    BY <1>1, <2>1, ClumpletsAre
  <2>3. put_u8(v) = <<v>>
    <3>1. v \in Byte /\ 1 \in {1, 2, 4}
      BY DEF Byte
    <3>2. PICK f : f = Field(v, <<>>)
      OBVIOUS
    <3>3. f.tag = v /\ f.data = <<>> /\ <<>> \in Seq(Byte)
      BY <3>2, EmptySeq DEF Field
    <3>4. put_u8(f.tag) = <<f.tag>>
      BY <3>1, <3>3, WrittenIs
    <3> QED BY <3>3, <3>4
  <2>4. block = <<v>> \o c
    BY <1>3, <2>1, <2>3
  <2> QED BY <2>1, <2>2, <2>4
<1>4. CASE \E i \in DOMAIN fields : Len(fields[i].data) > 255
  <2>1. dpb(fields) = put_u8(2) \o Clumplets(fields, 4)
    BY <1>4 DEF dpb
  <2>2. Head(dpb(fields)) = 2 /\ Tail(dpb(fields)) = Clumplets(fields, 4)
    <3>1. 2 \in {1, 2} /\ 4 \in {1, 2, 4}
      OBVIOUS
    <3> QED BY <1>3, <2>1, <3>1
  <2>3. ReadClumplets(Clumplets(fields, 4), 4) = fields
    <3>1. 4 \in {1, 2, 4}
      OBVIOUS
    <3> QED BY <1>1, <1>2, <3>1, ClumpletsSurvive
  <2> QED BY <2>2, <2>3 DEF ReadDpb
<1>5. CASE ~ \E i \in DOMAIN fields : Len(fields[i].data) > 255
  <2>1. dpb(fields) = put_u8(1) \o Clumplets(fields, 1)
    BY <1>5 DEF dpb
  <2>2. Head(dpb(fields)) = 1 /\ Tail(dpb(fields)) = Clumplets(fields, 1)
    <3>1. 1 \in {1, 2} /\ 1 \in {1, 2, 4}
      OBVIOUS
    <3> QED BY <1>3, <2>1, <3>1
  <2>3. ReadClumplets(Clumplets(fields, 1), 1) = fields
    <3>1. 1 \in {1, 2, 4}
      OBVIOUS
    <3>2. \A i \in DOMAIN fields : Len(fields[i].data) < Limit(1)
      BY <1>2, <1>5, Limits
    <3> QED BY <1>1, <3>1, <3>2, ClumpletsSurvive
  <2> QED BY <2>2, <2>3 DEF ReadDpb
<1> QED BY <1>4, <1>5

LEMMA ConfIs ==
  ASSUME NEW c \in Confs
  PROVE  /\ c.user \in Seq(Byte) /\ Len(c.user) < Limit(4)
         /\ c.pass \in Seq(Byte) /\ Len(c.pass) < Limit(4)
         /\ c.role \in Seq(Byte) /\ Len(c.role) < Limit(4)
         /\ c.remote \in BOOLEAN /\ c.triggers \in BOOLEAN /\ c.page \in Nat
BY DEF Confs, Texts4

\* The fields of both clients: each is one of these.
LEMMA ConfFields ==
  ASSUME NEW c \in Confs
  PROVE  /\ Field(page_size, be(c.page, 4)) \in Fit(1) \cap Fit(4)
         /\ Field(page_size, le(c.page, 4)) \in Fit(1) \cap Fit(4)
         /\ Field(lc_ctype, <<1>>) \in Fit(1) \cap Fit(4)
         /\ Field(sql_dialect, <<2>>) \in Fit(1) \cap Fit(4)
         /\ Field(no_db_triggers, <<1>>) \in Fit(1) \cap Fit(4)
         /\ Field(user_name, c.user) \in Fit(4) /\ Field(password, c.pass) \in Fit(4)
         /\ Field(sql_role_name, c.role) \in Fit(4)
         /\ Field(user_name, c.user) \in Fit(1) <=> Len(c.user) < 256
         /\ Field(password, c.pass) \in Fit(1) <=> Len(c.pass) < 256
         /\ Field(sql_role_name, c.role) \in Fit(1) <=> Len(c.role) < 256
<1>1. ASSUME NEW tag \in Byte, NEW data \in Seq(Byte), Len(data) \in {1, 4}
      PROVE  Field(tag, data) \in Fit(1) \cap Fit(4)
  <2>1. Len(data) < Limit(1) /\ Len(data) < Limit(4)
    <3>1. PICK x, y : x = Limit(1) /\ y = Limit(4)
      OBVIOUS
    <3>2. x = 256 /\ y > 65536 /\ y \in Nat
      BY <3>1, Limits
    <3>3. PICK z : z = Len(data)
      OBVIOUS
    <3>4. z < x /\ z < y
      BY <1>1, <3>2, <3>3
    <3> QED BY <3>1, <3>3, <3>4
  <2> QED BY <2>1, FieldIn
<1>2. c.page \in Nat
  BY ConfIs
<1>3. /\ Field(page_size, be(c.page, 4)) \in Fit(1) \cap Fit(4)
      /\ Field(page_size, le(c.page, 4)) \in Fit(1) \cap Fit(4)
  <2>1. PICK b, l : b = be(c.page, 4) /\ l = le(c.page, 4)
    OBVIOUS
  <2>2. b \in Seq(Byte) /\ Len(b) = 4 /\ l \in Seq(Byte) /\ Len(l) = 4
    BY <1>2, <2>1, SmallData
  <2> QED BY <1>1, <2>1, <2>2, Tags
<1>4. PICK one, two : one = <<1>> /\ two = <<2>>
  OBVIOUS
<1>5. one \in Seq(Byte) /\ Len(one) = 1 /\ two \in Seq(Byte) /\ Len(two) = 1
  BY <1>4, SmallData
<1>6. /\ Field(lc_ctype, one) \in Fit(1) \cap Fit(4)
      /\ Field(sql_dialect, two) \in Fit(1) \cap Fit(4)
      /\ Field(no_db_triggers, one) \in Fit(1) \cap Fit(4)
  BY <1>1, <1>5, Tags
<1>7. ASSUME NEW tag \in Byte, NEW t \in Seq(Byte), Len(t) < Limit(4)
      PROVE  Field(tag, t) \in Fit(4) /\ (Field(tag, t) \in Fit(1) <=> Len(t) < 256)
  BY <1>7, Limits, FieldIn
<1>8. /\ Field(user_name, c.user) \in Fit(4) /\ (Field(user_name, c.user) \in Fit(1) <=> Len(c.user) < 256)
      /\ Field(password, c.pass) \in Fit(4) /\ (Field(password, c.pass) \in Fit(1) <=> Len(c.pass) < 256)
      /\ Field(sql_role_name, c.role) \in Fit(4)
      /\ (Field(sql_role_name, c.role) \in Fit(1) <=> Len(c.role) < 256)
  BY <1>7, ConfIs, Tags
<1> QED BY <1>3, <1>4, <1>6, <1>8

LEMMA FitIn == Fit(1) \subseteq ByteFields /\ Fit(2) \subseteq ByteFields /\ Fit(4) \subseteq ByteFields
BY DEF Fit

LEMMA TwoIs ==
  ASSUME NEW x, NEW y
  PROVE  <<x, y>> = <<x>> \o <<y>>
<1>1. PICK S : S = {x, y}
  OBVIOUS
<1>2. PICK a, b, c : a = <<x>> /\ b = <<y>> /\ c = <<x, y>>
  OBVIOUS
<1>3. a \in Seq(S) /\ b \in Seq(S) /\ Len(a) = 1 /\ Len(b) = 1 /\ a[1] = x /\ b[1] = y
  BY <1>1, <1>2
<1>4. c \in Seq(S) /\ Len(c) = 2 /\ c[1] = x /\ c[2] = y
  BY <1>1, <1>2
<1>5. PICK d : d = a \o b
  OBVIOUS
<1>6. d \in Seq(S) /\ Len(d) = 2
  <2>1. Longer(S, a, b)
    BY <1>3, Lengthens
  <2> QED BY <1>3, <1>5, <2>1 DEF Longer
<1>7. \A i \in 1 .. 2 : d[i] = IF i <= 1 THEN a[i] ELSE b[i - 1]
  BY <1>3, <1>5, ConcatProperties, SMTT(20)
<1>8. \A i \in 1 .. Len(c) : c[i] = d[i]
  BY <1>3, <1>4, <1>7
<1> QED BY <1>2, <1>4, <1>5, <1>6, <1>8, SeqEqual

LEMMA WireFields ==
  ASSUME NEW c \in Confs
  PROVE  build_dpb(c) \in Seq(Fit(4))
<1> DEFINE F == Fit(4)
<1>1. PICK pg, ct, us, ro, di, tr, pw :
        /\ pg = Field(page_size, be(c.page, 4)) /\ ct = Field(lc_ctype, <<1>>)
        /\ us = Field(user_name, c.user) /\ ro = Field(sql_role_name, c.role)
        /\ di = Field(sql_dialect, <<2>>) /\ tr = Field(no_db_triggers, <<1>>)
        /\ pw = Field(password, c.pass)
  OBVIOUS
<1>2. pg \in F /\ ct \in F /\ us \in F /\ ro \in F /\ di \in F /\ tr \in F /\ pw \in F
  BY <1>1, ConfFields
<1>3. c.triggers \in BOOLEAN /\ (c.page # 0) \in BOOLEAN /\ (c.role # <<>>) \in BOOLEAN
  BY ConfIs
<1> HIDE DEF F
<1>4. PICK a1, a2, a3, a4, a5, a6 :
        /\ a1 = Optional(c.page # 0, pg) /\ a2 = <<ct, us>> /\ a3 = Optional(c.role # <<>>, ro)
        /\ a4 = <<di>> /\ a5 = Optional(c.triggers, tr) /\ a6 = <<pw>>
  OBVIOUS
<1>5. a1 \in Seq(F) /\ a3 \in Seq(F) /\ a5 \in Seq(F)
  BY <1>2, <1>3, <1>4, OptionalIn
<1>6. a4 \in Seq(F) /\ a6 \in Seq(F)
  BY <1>2, <1>4, OneIn
<1>7. a2 \in Seq(F)
  BY <1>2, <1>4
<1>8. ((((a1 \o a2) \o a3) \o a4) \o a5) \o a6 \in Seq(F)
  BY <1>5, <1>6, <1>7, ConcatProperties
<1>9. build_dpb(c) = ((((a1 \o a2) \o a3) \o a4) \o a5) \o a6
  BY <1>1, <1>4 DEF build_dpb
<1> QED BY <1>8, <1>9 DEF F

LEMMA NativeFields ==
  ASSUME NEW c \in Confs
  PROVE  /\ native_fields(c) \in Seq(ByteFields)
         /\ native_fields(c) \in Seq(Fit(1))
            <=> /\ Len(c.user) < 256 /\ Len(c.role) < 256
                /\ c.remote => Len(c.pass) < 256
<1>1. PICK us, pw, ct, ro, di, tr, pg :
        /\ us = Field(user_name, c.user) /\ pw = Field(password, c.pass)
        /\ ct = Field(lc_ctype, <<1>>) /\ ro = Field(sql_role_name, c.role)
        /\ di = Field(sql_dialect, <<2>>) /\ tr = Field(no_db_triggers, <<1>>)
        /\ pg = Field(page_size, le(c.page, 4))
  OBVIOUS
<1>2. c.remote \in BOOLEAN /\ c.triggers \in BOOLEAN /\ (c.page # 0) \in BOOLEAN /\ (c.role # <<>>) \in BOOLEAN
  BY ConfIs
<1>3. PICK a1, a2, a3, a4, a5, a6, a7 :
        /\ a1 = <<us>> /\ a2 = Optional(c.remote, pw) /\ a3 = <<ct>> /\ a4 = Optional(c.role # <<>>, ro)
        /\ a5 = <<di>> /\ a6 = Optional(c.triggers, tr) /\ a7 = Optional(c.page # 0, pg)
  OBVIOUS
<1>4. native_fields(c) = (((((a1 \o a2) \o a3) \o a4) \o a5) \o a6) \o a7
  BY <1>1, <1>3 DEF native_fields
<1>5. PICK B, F : B = ByteFields /\ F = Fit(1)
  OBVIOUS
<1>6. us \in B /\ pw \in B /\ ct \in B /\ ro \in B /\ di \in B /\ tr \in B /\ pg \in B
  BY <1>1, <1>5, ConfFields, FitIn
<1>7. a1 \in Seq(B) /\ a2 \in Seq(B) /\ a3 \in Seq(B) /\ a4 \in Seq(B) /\ a5 \in Seq(B) /\ a6 \in Seq(B)
      /\ a7 \in Seq(B)
  <2>1. a1 \in Seq(B) /\ a3 \in Seq(B) /\ a5 \in Seq(B)
    BY <1>3, <1>6, OneIn
  <2>2. a2 \in Seq(B) /\ a4 \in Seq(B) /\ a6 \in Seq(B) /\ a7 \in Seq(B)
    BY <1>2, <1>3, <1>6, OptionalIn
  <2> QED BY <2>1, <2>2
<1>8. PICK b2, b3, b4, b5, b6, b7 :
        /\ b2 = a1 \o a2 /\ b3 = b2 \o a3 /\ b4 = b3 \o a4 /\ b5 = b4 \o a5 /\ b6 = b5 \o a6 /\ b7 = b6 \o a7
  OBVIOUS
<1>9. b2 \in Seq(B) /\ b3 \in Seq(B) /\ b4 \in Seq(B) /\ b5 \in Seq(B) /\ b6 \in Seq(B) /\ b7 \in Seq(B)
  BY <1>7, <1>8, ConcatProperties
<1>10. b7 \in Seq(F) <=> /\ a1 \in Seq(F) /\ a2 \in Seq(F) /\ a3 \in Seq(F) /\ a4 \in Seq(F)
                         /\ a5 \in Seq(F) /\ a6 \in Seq(F) /\ a7 \in Seq(F)
  <2>1. b2 \in Seq(F) <=> a1 \in Seq(F) /\ a2 \in Seq(F)
    BY <1>7, <1>8, JoinedIn
  <2>2. b3 \in Seq(F) <=> b2 \in Seq(F) /\ a3 \in Seq(F)
    BY <1>7, <1>8, <1>9, JoinedIn
  <2>3. b4 \in Seq(F) <=> b3 \in Seq(F) /\ a4 \in Seq(F)
    BY <1>7, <1>8, <1>9, JoinedIn
  <2>4. b5 \in Seq(F) <=> b4 \in Seq(F) /\ a5 \in Seq(F)
    BY <1>7, <1>8, <1>9, JoinedIn
  <2>5. b6 \in Seq(F) <=> b5 \in Seq(F) /\ a6 \in Seq(F)
    BY <1>7, <1>8, <1>9, JoinedIn
  <2>6. b7 \in Seq(F) <=> b6 \in Seq(F) /\ a7 \in Seq(F)
    BY <1>7, <1>8, <1>9, JoinedIn
  <2> QED BY <2>1, <2>2, <2>3, <2>4, <2>5, <2>6
<1>11. ct \in F /\ di \in F /\ tr \in F /\ pg \in F
       /\ (us \in F <=> Len(c.user) < 256) /\ (pw \in F <=> Len(c.pass) < 256)
       /\ (ro \in F <=> Len(c.role) < 256)
  BY <1>1, <1>5, ConfFields
<1>12. /\ (a1 \in Seq(F) <=> us \in F) /\ (a3 \in Seq(F) <=> ct \in F) /\ (a5 \in Seq(F) <=> di \in F)
       /\ (a2 \in Seq(F) <=> (c.remote => pw \in F))
       /\ (a4 \in Seq(F) <=> (c.role # <<>> => ro \in F))
       /\ (a6 \in Seq(F) <=> (c.triggers => tr \in F))
       /\ (a7 \in Seq(F) <=> (c.page # 0 => pg \in F))
  BY <1>2, <1>3, OneIn, OptionalIn
<1>13. c.role = <<>> => Len(c.role) < 256
  OBVIOUS
<1>14. b7 \in Seq(F) <=> /\ Len(c.user) < 256 /\ Len(c.role) < 256
                         /\ c.remote => Len(c.pass) < 256
  BY <1>10, <1>11, <1>12, <1>13
<1>15. native_fields(c) = b7
  BY <1>4, <1>8
<1> QED BY <1>5, <1>9, <1>14, <1>15

LEMMA PutBlock ==
  ASSUME NEW v \in {1, 2}, NEW c \in Seq(Byte)
  PROVE  Head(put_u8(v) \o c) = v /\ Tail(put_u8(v) \o c) = c
<1>1. v \in Byte /\ 1 \in {1, 2, 4}
  BY DEF Byte
<1>2. PICK f : f = Field(v, <<>>)
  OBVIOUS
<1>3. f.tag = v /\ f.data = <<>> /\ <<>> \in Seq(Byte)
  BY <1>2, EmptySeq DEF Field
<1>4. put_u8(f.tag) = <<f.tag>>
  BY <1>1, <1>3, WrittenIs
<1>5. put_u8(v) = <<v>>
  BY <1>3, <1>4
<1> QED BY <1>5

\* What both clients attach with: the wire client's block is read as it was built, at
\* every length of the texts in it; the native client's, and the one for services,
\* exactly if each text is shorter than 256 bytes.
THEOREM AttachmentSurvives ==
  ASSUME NEW c \in Confs
  PROVE  /\ ReadDpb(dpb(build_dpb(c))) = build_dpb(c)
         /\ ReadDpb(native_dpb(c)) = native_fields(c)
            <=> Short({c.user, c.role} \cup (IF c.remote THEN {c.pass} ELSE {}))
         /\ ReadClumplets(After(build_attach_spb(c.user, c.pass), 2), 1)
              = <<Field(user_name, c.user), Field(password, c.pass)>>
            <=> Short({c.user, c.pass})
<1>1. ReadDpb(dpb(build_dpb(c))) = build_dpb(c)
  BY WireFields, DpbSurvives
<1>2. c.remote \in BOOLEAN
  BY ConfIs
<1>3. ReadDpb(native_dpb(c)) = native_fields(c)
      <=> Short({c.user, c.role} \cup (IF c.remote THEN {c.pass} ELSE {}))
  <2>1. PICK fs : fs = native_fields(c)
    OBVIOUS
  <2>2. fs \in Seq(ByteFields)
    BY <2>1, NativeFields
  <2>3. PICK cl : cl = Clumplets(fs, 1)
    OBVIOUS
  <2>4. cl \in Seq(Byte)
    <3>1. 1 \in {1, 2, 4}
      OBVIOUS
    <3> QED BY <2>2, <2>3, <3>1, ClumpletsAre
  <2>5. Head(native_dpb(c)) = 1 /\ Tail(native_dpb(c)) = cl
    <3>1. 1 \in {1, 2}
      OBVIOUS
    <3> QED BY <2>1, <2>3, <2>4, <3>1, PutBlock DEF native_dpb
  <2>6. ReadDpb(native_dpb(c)) = ReadClumplets(cl, 1)
    BY <2>5 DEF ReadDpb
  <2>7. ReadClumplets(cl, 1) = fs <=> fs \in Seq(Fit(1))
    <3>1. 1 \in {1, 2}
      OBVIOUS
    <3> QED BY <2>2, <2>3, <3>1, ClumpletsSurviveIfFit
  <2>8. fs \in Seq(Fit(1)) <=> /\ Len(c.user) < 256 /\ Len(c.role) < 256
                               /\ c.remote => Len(c.pass) < 256
    BY <2>1, NativeFields
  <2>9. Short({c.user, c.role} \cup (IF c.remote THEN {c.pass} ELSE {}))
        <=> Len(c.user) < 256 /\ Len(c.role) < 256 /\ (c.remote => Len(c.pass) < 256)
    <3>1. CASE c.remote
      <4>1. {c.user, c.role} \cup (IF c.remote THEN {c.pass} ELSE {}) = {c.user, c.role, c.pass}
        BY <3>1
      <4> QED BY <3>1, <4>1 DEF Short
    <3>2. CASE ~c.remote
      <4>1. {c.user, c.role} \cup (IF c.remote THEN {c.pass} ELSE {}) = {c.user, c.role}
        BY <3>2
      <4> QED BY <3>2, <4>1 DEF Short
    <3> QED BY <3>1, <3>2
  <2> QED BY <2>1, <2>6, <2>7, <2>8, <2>9
<1>4. ReadClumplets(After(build_attach_spb(c.user, c.pass), 2), 1)
        = <<Field(user_name, c.user), Field(password, c.pass)>>
      <=> Short({c.user, c.pass})
  <2>1. PICK us, pw : us = Field(user_name, c.user) /\ pw = Field(password, c.pass)
    OBVIOUS
  <2>2. PICK B, F : B = ByteFields /\ F = Fit(1)
    OBVIOUS
  <2>3. us \in B /\ pw \in B /\ (us \in F <=> Len(c.user) < 256) /\ (pw \in F <=> Len(c.pass) < 256)
    BY <2>1, <2>2, ConfFields, FitIn
  <2>4. PICK fs : fs = <<us, pw>>
    OBVIOUS
  <2>5. fs \in Seq(B)
    BY <2>3, <2>4
  <2>6. fs \in Seq(F) <=> us \in F /\ pw \in F
    <3>1. fs = <<us>> \o <<pw>>
      BY <2>4, TwoIs
    <3>2. PICK o, t : o = <<us>> /\ t = <<pw>>
      OBVIOUS
    <3>3. o \in Seq(B) /\ t \in Seq(B) /\ (o \in Seq(F) <=> us \in F) /\ (t \in Seq(F) <=> pw \in F)
      BY <2>3, <3>2, OneIn
    <3>4. o \o t \in Seq(F) <=> o \in Seq(F) /\ t \in Seq(F)
      BY <3>3, JoinedIn
    <3> QED BY <3>1, <3>2, <3>3, <3>4
  <2>7. PICK cl : cl = Clumplets(fs, 1)
    OBVIOUS
  <2>8. cl \in Seq(Byte)
    <3>1. 1 \in {1, 2, 4}
      OBVIOUS
    <3> QED BY <2>2, <2>5, <2>7, <3>1, ClumpletsAre
  <2>9. After(build_attach_spb(c.user, c.pass), 2) = cl
    <3>1. build_attach_spb(c.user, c.pass) = <<1, 1>> \o cl
      BY <2>1, <2>4, <2>7 DEF build_attach_spb
    <3>2. PICK a : a = <<1, 1>>
      OBVIOUS
    <3>3. a \in Seq(Byte) /\ Len(a) = 2
      <4>1. 1 \in Byte
        BY DEF Byte
      <4> QED BY <3>2, <4>1
    <3>4. After(a \o cl, Len(a)) = cl
      BY <2>8, <3>3, CutBehind
    <3> QED BY <3>1, <3>2, <3>3, <3>4
  <2>10. ReadClumplets(cl, 1) = fs <=> fs \in Seq(F)
    <3>1. 1 \in {1, 2}
      OBVIOUS
    <3> QED BY <2>2, <2>5, <2>7, <3>1, ClumpletsSurviveIfFit
  <2>11. Short({c.user, c.pass}) <=> Len(c.user) < 256 /\ Len(c.pass) < 256
    BY DEF Short
  <2> QED BY <2>1, <2>3, <2>4, <2>6, <2>9, <2>10, <2>11
<1> QED BY <1>1, <1>3, <1>4

\* Where the pieces of a key end.
EndOf(pubkey, i) == IF i = Pieces(pubkey) THEN Len(pubkey) ELSE i * 254

PiecesOf(n) == (n + 253) \div 254

LEMMA PieceEnds ==
  ASSUME NEW n \in Nat
  PROVE  /\ PiecesOf(n) \in Nat /\ n =< PiecesOf(n) * 254
         /\ PiecesOf(n) > 0 => (PiecesOf(n) - 1) * 254 < n
         /\ PiecesOf(n) = 0 => n = 0
<1>1. PICK p : p = PiecesOf(n)
  OBVIOUS
<1>2. p \in Nat /\ 254 * p =< n + 253 /\ n + 253 < 254 * p + 254
  BY <1>1, SMT DEF PiecesOf
<1>3. n =< p * 254 /\ (p > 0 => (p - 1) * 254 < n) /\ (p = 0 => n = 0)
  BY <1>2, SMT
<1> QED BY <1>1, <1>2, <1>3

\* The longest key whose pieces one byte can number.
LongestKey == 254 * 256

LEMMA PiecesFew ==
  ASSUME NEW n \in Nat, n =< LongestKey
  PROVE  PiecesOf(n) =< 256
BY SMT DEF PiecesOf, LongestKey

LEMMA PieceBounds ==
  ASSUME NEW n \in Nat, NEW p \in Nat, n =< p * 254, p > 0 => (p - 1) * 254 < n,
         NEW i \in 1 .. p, NEW e, e = IF i = p THEN n ELSE i * 254
  PROVE  /\ e \in Nat /\ e =< n /\ (i - 1) * 254 \in Nat /\ (i - 1) * 254 < e /\ e - (i - 1) * 254 =< 254
<1>1. CASE i = p
  <2>1. p \in Nat /\ p > 0 /\ e = n /\ (i - 1) * 254 = p * 254 - 254
    BY <1>1
  <2> QED BY <2>1, <1>1
<1>2. CASE i # p
  <2>1. i =< p - 1 /\ i \in Nat
    BY <1>2
  <2>2. i * 254 =< (p - 1) * 254
    BY <2>1
  <2> QED BY <1>2, <2>1, <2>2
<1> QED BY <1>1, <1>2

LEMMA PieceIs ==
  ASSUME NEW pubkey \in Seq(Byte), NEW i \in 1 .. Pieces(pubkey)
  PROVE  /\ Piece(pubkey, i) = SubSeq(pubkey, (i - 1) * 254 + 1, EndOf(pubkey, i))
         /\ Piece(pubkey, i) \in Seq(Byte) /\ Len(Piece(pubkey, i)) =< 254
         /\ (i - 1) * 254 \in Nat /\ (i - 1) * 254 < EndOf(pubkey, i)
         /\ EndOf(pubkey, i) \in Nat /\ EndOf(pubkey, i) =< Len(pubkey)
<1>1. PICK n, p, e, s : n = Len(pubkey) /\ p = Pieces(pubkey) /\ e = EndOf(pubkey, i) /\ s = (i - 1) * 254
  OBVIOUS
<1>2. n \in Nat
  BY <1>1, LenProperties
<1>3. p = PiecesOf(n)
  BY <1>1 DEF Pieces, PiecesOf
<1>4. p \in Nat /\ n =< p * 254 /\ (p > 0 => (p - 1) * 254 < n)
  BY <1>2, <1>3, PieceEnds
<1>5. i \in 1 .. p
  BY <1>1
<1>6. e = IF i = p THEN n ELSE i * 254
  BY <1>1 DEF EndOf
<1>7. e \in Nat /\ e =< n /\ s \in Nat /\ s < e /\ e - s =< 254
  BY <1>1, <1>2, <1>4, <1>5, <1>6, PieceBounds
<1>8. PICK x : x = SubSeq(pubkey, s + 1, e)
  OBVIOUS
<1>9. s + 1 \in Nat /\ s + 1 > 0 /\ e \in Int /\ e =< Len(pubkey)
  BY <1>1, <1>7
<1>10. x \in Seq(Byte) /\ Len(x) = IF s + 1 =< e THEN e - (s + 1) + 1 ELSE 0
  BY <1>8, <1>9, PartOf
<1>11. Len(x) =< 254
  BY <1>7, <1>10
<1>12. Piece(pubkey, i) = x
  BY <1>1, <1>8 DEF Piece, EndOf
<1> QED BY <1>1, <1>7, <1>8, <1>10, <1>11, <1>12

\* The pieces of a key are the key.
LEMMA PiecesJoin ==
  ASSUME NEW pubkey \in Seq(Byte)
  PROVE  FlattenSeq([i \in 1 .. Pieces(pubkey) |-> Piece(pubkey, i)]) = pubkey
<1>1. PICK n, p : n = Len(pubkey) /\ p = Pieces(pubkey)
  OBVIOUS
<1>2. n \in Nat /\ p = PiecesOf(n)
  BY <1>1, LenProperties DEF Pieces, PiecesOf
<1>3. p \in Nat /\ (p = 0 => n = 0)
  BY <1>2, PieceEnds
<1>4. PICK q : q = [i \in 1 .. p |-> Piece(pubkey, i)]
  OBVIOUS
<1>5. CASE p = 0
  <2>1. q = <<>>
    BY <1>4, <1>5
  <2>2. pubkey = <<>>
    BY <1>1, <1>3, <1>5, EmptySeq
  <2> QED BY <1>1, <1>4, <2>1, <2>2, FlattenNothing
<1>6. CASE p > 0
  <2>1. q \in [1 .. p -> Seq(Byte)]
    BY <1>1, <1>4, PieceIs
  <2>2. q \in Seq(Seq(Byte)) /\ Len(q) = p
    BY <1>3, <2>1, TableIs
  <2>3. PICK f : f = [i \in 1 .. p |-> SubSeq(pubkey, 1, EndOf(pubkey, i))]
    OBVIOUS
  <2>4. ASSUME NEW i \in 1 .. p PROVE f[i] \in Seq(Byte)
    <3>1. PICK e : e = EndOf(pubkey, i)
      OBVIOUS
    <3>2. e \in Nat /\ e =< Len(pubkey)
      BY <1>1, <3>1, PieceIs
    <3>3. 1 \in Nat /\ 1 > 0 /\ e \in Int
      BY <3>2
    <3>4. SubSeq(pubkey, 1, e) \in Seq(Byte)
      BY <3>2, <3>3, PartOf
    <3> QED BY <2>3, <3>1, <3>4
  <2>5. f \in [1 .. Len(q) -> Seq(Byte)]
    BY <2>2, <2>3, <2>4
  <2>6. f[1] = q[1]
    <3>1. 1 \in 1 .. p /\ (1 - 1) * 254 + 1 = 1
      BY <1>3, <1>6
    <3>2. Piece(pubkey, 1) = SubSeq(pubkey, (1 - 1) * 254 + 1, EndOf(pubkey, 1))
      BY <1>1, <3>1, PieceIs
    <3> QED BY <1>4, <2>3, <3>1, <3>2
  <2>7. ASSUME NEW i \in 2 .. p PROVE f[i] = f[i - 1] \o q[i]
    <3>1. i \in 1 .. p /\ i - 1 \in 1 .. p /\ i - 1 # p
      BY <1>3
    <3>2. PICK s, e : s = (i - 1) * 254 /\ e = EndOf(pubkey, i)
      OBVIOUS
    <3>3. EndOf(pubkey, i - 1) = s
      BY <1>1, <3>1, <3>2 DEF EndOf
    <3>4. s \in Nat /\ s < e /\ e \in Nat /\ e =< n
      BY <1>1, <3>1, <3>2, PieceIs
    <3>5. 1 \in 1 .. Len(pubkey) + 1 /\ s \in 1 - 1 .. Len(pubkey) /\ e \in s .. Len(pubkey)
      BY <1>1, <1>2, <3>4
    <3>6. SubSeq(pubkey, 1, s) \o SubSeq(pubkey, s + 1, e) = SubSeq(pubkey, 1, e)
      BY <3>5, ConcatAdjacentSubSeq
    <3>7. q[i] = SubSeq(pubkey, s + 1, e)
      BY <1>1, <1>4, <3>1, <3>2, PieceIs, SMTT(20)
    <3>8. f[i] = SubSeq(pubkey, 1, e) /\ f[i - 1] = SubSeq(pubkey, 1, s)
      BY <2>3, <3>1, <3>2, <3>3
    <3> QED BY <3>6, <3>7, <3>8
  <2>8. Folded(q, f)
    BY <2>2, <2>6, <2>7 DEF Folded
  <2>9. FlattenSeq(q) = f[Len(q)]
    BY <1>3, <1>6, <2>2, <2>5, <2>8, FlattenIs
  <2>10. f[p] = pubkey
    <3>1. p \in 1 .. p
      BY <1>3, <1>6
    <3>2. EndOf(pubkey, p) = Len(pubkey)
      BY <1>1 DEF EndOf
    <3> QED BY <2>3, <3>1, <3>2, SubSeqFull
  <2> QED BY <1>1, <1>4, <2>2, <2>9, <2>10
<1> QED BY <1>3, <1>5, <1>6

LEMMA PutByte ==
  ASSUME NEW v \in Byte
  PROVE  put_u8(v) = <<v>> /\ <<v>> \in Seq(Byte) /\ Len(<<v>>) = 1
<1>1. 1 \in {1, 2, 4}
  OBVIOUS
<1>2. PICK f : f = Field(v, <<>>)
  OBVIOUS
<1>3. f.tag = v /\ f.data = <<>> /\ <<>> \in Seq(Byte)
  BY <1>2, EmptySeq DEF Field
<1>4. put_u8(f.tag) = <<f.tag>>
  BY <1>1, <1>3, WrittenIs
<1>5. <<v>> \in Seq(Byte) /\ Len(<<v>>) = 1
  BY OneIn
<1> QED BY <1>3, <1>4, <1>5

\* A piece with its number, and what is behind that.
LEMMA Numbered ==
  ASSUME NEW pubkey \in Seq(Byte), Len(pubkey) =< LongestKey, NEW i \in 1 .. Pieces(pubkey)
  PROVE  LET d == put_u8(i - 1) \o Piece(pubkey, i)
         IN /\ d \in Seq(Byte) /\ Len(d) < 256 /\ d[1] = i - 1
            /\ Tail(d) = Piece(pubkey, i)
<1>1. PICK n : n = Len(pubkey)
  OBVIOUS
<1>2. n \in Nat /\ n =< LongestKey
  BY <1>1, LenProperties
<1>3. Pieces(pubkey) = PiecesOf(n)
  BY <1>1 DEF Pieces, PiecesOf
<1>4. PiecesOf(n) \in Nat /\ PiecesOf(n) =< 256
  BY <1>2, PieceEnds, PiecesFew
<1>5. i - 1 \in Byte
  BY <1>3, <1>4 DEF Byte
<1>6. PICK v, x : v = i - 1 /\ x = Piece(pubkey, i)
  OBVIOUS
<1>7. x \in Seq(Byte) /\ Len(x) =< 254 /\ Len(x) \in Nat
  BY <1>6, PieceIs, LenProperties
<1>8. PICK d : d = <<v>> \o x
  OBVIOUS
<1>9. PICK t : t = <<v>>
  OBVIOUS
<1>10. t \in Seq(Byte) /\ Len(t) = 1 /\ t[1] = v
  BY <1>5, <1>6, <1>9
<1>11. d \in Seq(Byte) /\ Len(d) = 1 + Len(x)
  BY <1>7, <1>8, <1>9, <1>10, ConcatProperties
<1>12. d[1] = v
  <2>1. 1 \in 1 .. Len(t) + Len(x) /\ 1 <= Len(t)
    BY <1>7, <1>10
  <2>2. (t \o x)[1] = t[1]
    BY <1>7, <1>10, <2>1, ConcatProperties
  <2> QED BY <1>8, <1>9, <1>10, <2>2
<1>13. Tail(d) = x
  BY <1>7, <1>8
<1>14. put_u8(i - 1) \o Piece(pubkey, i) = d
  BY <1>5, <1>6, <1>8, PutByte
<1>15. Len(d) < 256
  BY <1>7, <1>11
<1> QED BY <1>6, <1>11, <1>12, <1>13, <1>14, <1>15

LEMMA UidTags == Login \in Byte /\ SpecificData \in Byte /\ User \in Byte /\ Login # SpecificData /\ User # SpecificData
BY DEF Login, SpecificData, User, Byte

PieceFields(pubkey) ==
  [i \in 1 .. Pieces(pubkey) |-> Field(SpecificData, put_u8(i - 1) \o Piece(pubkey, i))]

LEMMA PieceFieldsAre ==
  ASSUME NEW pubkey \in Seq(Byte), Len(pubkey) =< LongestKey
  PROVE  /\ Pieces(pubkey) \in Nat
         /\ PieceFields(pubkey) \in Seq(Fit(1)) /\ Len(PieceFields(pubkey)) = Pieces(pubkey)
<1>1. Pieces(pubkey) \in Nat
  <2>1. PICK n : n = Len(pubkey)
    OBVIOUS
  <2>2. n \in Nat /\ Pieces(pubkey) = PiecesOf(n)
    BY <2>1, LenProperties DEF Pieces, PiecesOf
  <2> QED BY <2>2, PieceEnds
<1>2. ASSUME NEW i \in 1 .. Pieces(pubkey)
      PROVE  Field(SpecificData, put_u8(i - 1) \o Piece(pubkey, i)) \in Fit(1)
  <2>1. PICK d : d = put_u8(i - 1) \o Piece(pubkey, i)
    OBVIOUS
  <2>2. d \in Seq(Byte) /\ Len(d) < 256
    BY <2>1, Numbered
  <2>3. Len(d) < Limit(1)
    BY <2>2, Limits
  <2> QED BY <2>1, <2>2, <2>3, UidTags, FieldIn
<1>3. PieceFields(pubkey) \in [1 .. Pieces(pubkey) -> Fit(1)]
  BY <1>2 DEF PieceFields
<1> QED BY <1>1, <1>3, TableIs

\* The fields of a user identification, by their places.
LEMMA UidFields ==
  ASSUME NEW user \in Seq(Byte), NEW pubkey \in Seq(Byte), Len(pubkey) =< LongestKey,
         NEW name \in Seq(Byte), Len(name) < 256, NEW fs, fs = uid_fields(user, pubkey, name)
  PROVE  /\ fs \in Seq(ByteFields)
         /\ fs \in Seq(Fit(1)) <=> Len(user) < 256
         /\ Len(fs) = Pieces(pubkey) + 2
         /\ fs[1] = Field(Login, user) /\ fs[Pieces(pubkey) + 2] = Field(User, name)
         /\ \A i \in 1 .. Pieces(pubkey) : fs[i + 1] = PieceFields(pubkey)[i]
<1>1. PICK B, F, p : B = ByteFields /\ F = Fit(1) /\ p = Pieces(pubkey)
  OBVIOUS
<1>2. PICK us, nm, ps : us = Field(Login, user) /\ nm = Field(User, name) /\ ps = PieceFields(pubkey)
  OBVIOUS
<1>3. us \in B /\ nm \in B /\ nm \in F /\ (us \in F <=> Len(user) < 256)
  BY <1>1, <1>2, UidTags, Limits, FieldIn
<1>4. p \in Nat /\ ps \in Seq(F) /\ Len(ps) = p
  BY <1>1, <1>2, PieceFieldsAre
<1>5. ps \in Seq(B)
  BY <1>1, <1>4, FitIn, SeqMonotonic
<1>6. PICK a, z : a = <<us>> /\ z = <<nm>>
  OBVIOUS
<1>7. a \in Seq(B) /\ z \in Seq(B) /\ (a \in Seq(F) <=> us \in F) /\ z \in Seq(F)
  BY <1>3, <1>6, OneIn
<1>8. Len(a) = 1 /\ a[1] = us /\ Len(z) = 1 /\ z[1] = nm
  BY <1>6
<1>9. PICK ap : ap = a \o ps
  OBVIOUS
<1>10. ap \in Seq(B) /\ Len(ap) = 1 + p
  <2>1. ap \in Seq(B)
    BY <1>5, <1>7, <1>9, ConcatProperties
  <2>2. Len(ap) = Len(a) + Len(ps)
    BY <1>5, <1>7, <1>9, ConcatProperties
  <2> QED BY <1>4, <1>8, <2>1, <2>2
<1>11. fs = ap \o z
  BY <1>2, <1>6, <1>9 DEF uid_fields, PieceFields
<1>12. fs \in Seq(B)
  BY <1>7, <1>10, <1>11, ConcatProperties
<1>13. Len(fs) = p + 2
  <2>1. Len(fs) = Len(ap) + Len(z)
    BY <1>7, <1>10, <1>11, ConcatProperties
  <2> QED BY <1>4, <1>8, <1>10, <2>1
<1>14. fs \in Seq(F) <=> Len(user) < 256
  <2>1. ap \in Seq(F) <=> a \in Seq(F) /\ ps \in Seq(F)
    BY <1>5, <1>7, <1>9, JoinedIn
  <2>2. fs \in Seq(F) <=> ap \in Seq(F) /\ z \in Seq(F)
    BY <1>7, <1>10, <1>11, JoinedIn
  <2> QED BY <1>3, <1>4, <1>7, <2>1, <2>2
<1>15. \A i \in 1 .. Len(ap) + Len(z) : fs[i] = IF i <= Len(ap) THEN ap[i] ELSE z[i - Len(ap)]
  BY <1>7, <1>10, <1>11, ConcatProperties
<1>16. \A i \in 1 .. Len(a) + Len(ps) : ap[i] = IF i <= Len(a) THEN a[i] ELSE ps[i - Len(a)]
  BY <1>5, <1>7, <1>9, ConcatProperties
<1>17. fs[1] = us
  <2>1. 1 \in 1 .. Len(ap) + Len(z) /\ 1 <= Len(ap) /\ 1 \in 1 .. Len(a) + Len(ps) /\ 1 <= Len(a)
    BY <1>4, <1>8, <1>10
  <2> QED BY <1>8, <1>15, <1>16, <2>1
<1>18. fs[p + 2] = nm
  <2>1. p + 2 \in 1 .. Len(ap) + Len(z) /\ ~(p + 2 <= Len(ap)) /\ (p + 2) - Len(ap) = 1
    BY <1>4, <1>8, <1>10
  <2> QED BY <1>8, <1>15, <2>1
<1>19. ASSUME NEW i \in 1 .. p PROVE fs[i + 1] = ps[i]
  <2>1. i + 1 \in 1 .. Len(ap) + Len(z) /\ i + 1 <= Len(ap)
    BY <1>4, <1>8, <1>10
  <2>2. i + 1 \in 1 .. Len(a) + Len(ps) /\ ~(i + 1 <= Len(a)) /\ (i + 1) - Len(a) = i
    BY <1>4, <1>8
  <2>3. fs[i + 1] = ap[i + 1]
    BY <1>15, <2>1
  <2>4. ap[i + 1] = ps[(i + 1) - Len(a)]
    BY <1>16, <2>2
  <2> QED BY <2>2, <2>3, <2>4
<1> QED BY <1>1, <1>2, <1>12, <1>13, <1>14, <1>17, <1>18, <1>19

\* The server puts the key together from them.
LEMMA KeyIsRead ==
  ASSUME NEW user \in Seq(Byte), NEW pubkey \in Seq(Byte), Len(pubkey) =< LongestKey,
         NEW name \in Seq(Byte), Len(name) < 256, NEW fs, fs = uid_fields(user, pubkey, name)
  PROVE  ReadKey(fs) = pubkey
<1> DEFINE pieces == {j \in DOMAIN fs : fs[j].tag = SpecificData}
<1>1. PICK p : p = Pieces(pubkey)
  OBVIOUS
<1>2. p \in Nat
  BY <1>1, PieceFieldsAre
<1>3. /\ fs \in Seq(ByteFields) /\ Len(fs) = p + 2
      /\ fs[1] = Field(Login, user) /\ fs[p + 2] = Field(User, name)
      /\ \A i \in 1 .. p : fs[i + 1] = PieceFields(pubkey)[i]
  BY <1>1, UidFields
<1>4. DOMAIN fs = 1 .. p + 2
  BY <1>3, LenProperties
<1>5. ASSUME NEW i \in 1 .. p
      PROVE  /\ fs[i + 1].tag = SpecificData /\ fs[i + 1].data[1] = i - 1
             /\ Tail(fs[i + 1].data) = Piece(pubkey, i)
  <2>1. PICK d : d = put_u8(i - 1) \o Piece(pubkey, i)
    OBVIOUS
  <2>2. d[1] = i - 1 /\ Tail(d) = Piece(pubkey, i)
    BY <1>1, <2>1, Numbered
  <2>3. fs[i + 1] = Field(SpecificData, d)
    BY <1>1, <1>3, <2>1 DEF PieceFields
  <2> QED BY <2>2, <2>3 DEF Field
<1>6. pieces = 2 .. p + 1
  <2>1. fs[1].tag # SpecificData /\ fs[p + 2].tag # SpecificData
    BY <1>3, UidTags DEF Field
  <2>2. ASSUME NEW j \in 1 .. p + 2 PROVE fs[j].tag = SpecificData <=> j \in 2 .. p + 1
    <3>1. CASE j = 1 \/ j = p + 2
      BY <1>2, <2>1, <3>1
    <3>2. CASE j \in 2 .. p + 1
      <4>1. j - 1 \in 1 .. p /\ (j - 1) + 1 = j
        BY <1>2, <3>2
      <4>2. fs[(j - 1) + 1].tag = SpecificData
        BY <1>5, <4>1
      <4> QED BY <3>2, <4>1, <4>2
    <3> QED BY <1>2, <3>1, <3>2
  <2>3. 2 .. p + 1 \subseteq 1 .. p + 2
    BY <1>2
  <2> QED BY <1>4, <2>2, <2>3
<1>7. Cardinality(pieces) = p
  <2>1. 2 \in Int /\ p + 1 \in Int
    BY <1>2
  <2>2. Cardinality(2 .. p + 1) = IF 2 > p + 1 THEN 0 ELSE (p + 1) - 2 + 1
    BY <2>1, FS_Interval
  <2> HIDE DEF pieces
  <2> QED BY <1>2, <1>6, <2>2
<1>8. ASSUME NEW i \in 1 .. p
      PROVE  Tail(fs[CHOOSE j \in pieces : fs[j].data[1] = i - 1].data) = Piece(pubkey, i)
  <2>1. i + 1 \in pieces /\ fs[i + 1].data[1] = i - 1
    <3>1. i + 1 \in 2 .. p + 1
      BY <1>2
    <3> HIDE DEF pieces
    <3>2. i + 1 \in pieces
      BY <1>6, <3>1
    <3>3. fs[i + 1].data[1] = i - 1
      BY <1>5
    <3> QED BY <3>2, <3>3
  <2>2. ASSUME NEW j \in pieces, fs[j].data[1] = i - 1 PROVE j = i + 1
    <3>1. j \in 2 .. p + 1
      BY <1>6
    <3>2. j - 1 \in 1 .. p /\ (j - 1) + 1 = j
      BY <1>2, <3>1
    <3>3. fs[(j - 1) + 1].data[1] = (j - 1) - 1
      BY <1>5, <3>2
    <3> QED BY <2>2, <3>1, <3>2, <3>3
  <2> HIDE DEF pieces
  <2>3. (CHOOSE j \in pieces : fs[j].data[1] = i - 1) = i + 1
    BY <2>1, <2>2
  <2> QED BY <1>5, <2>3
<1>9. ReadKey(fs) = FlattenSeq([i \in 1 .. Cardinality(pieces) |->
         Tail(fs[CHOOSE j \in pieces : fs[j].data[1] = i - 1].data)])
  BY DEF ReadKey
<1> HIDE DEF pieces
<1>10. [i \in 1 .. p |-> Tail(fs[CHOOSE j \in pieces : fs[j].data[1] = i - 1].data)]
         = [i \in 1 .. p |-> Piece(pubkey, i)]
  BY <1>8
<1> QED BY <1>1, <1>7, <1>9, <1>10, PiecesJoin

\* What a client says of its user in the connect packet is read by the server, and
\* the pieces of its key put together again, exactly if the name of the user is
\* shorter than 256 bytes.
THEOREM IdentificationSurvives ==
  ASSUME NEW user \in Seq(Byte), NEW pubkey \in Seq(Byte), Len(pubkey) =< LongestKey,
         NEW name \in Seq(Byte), Len(name) < 256
  PROVE  LET fields == ReadClumplets(uid(user, pubkey, name), 1)
         IN (fields = uid_fields(user, pubkey, name) /\ ReadKey(fields) = pubkey) <=> Short({user})
<1>1. PICK fs : fs = uid_fields(user, pubkey, name)
  OBVIOUS
<1>2. fs \in Seq(ByteFields) /\ (fs \in Seq(Fit(1)) <=> Len(user) < 256)
  BY <1>1, UidFields
<1>3. ReadClumplets(Clumplets(fs, 1), 1) = fs <=> fs \in Seq(Fit(1))
  <2>1. 1 \in {1, 2}
    OBVIOUS
  <2> QED BY <1>2, <2>1, ClumpletsSurviveIfFit
<1>4. ReadKey(fs) = pubkey
  BY <1>1, KeyIsRead
<1>5. uid(user, pubkey, name) = Clumplets(fs, 1)
  BY <1>1 DEF uid
<1>6. Short({user}) <=> Len(user) < 256
  BY DEF Short
<1> QED BY <1>1, <1>2, <1>3, <1>4, <1>5, <1>6

LEMMA FieldParts ==
  ASSUME NEW f \in ByteFields
  PROVE  f.tag \in Byte /\ f.data \in Seq(Byte) /\ Len(f.data) \in Nat /\ Field(f.tag, f.data) = f
BY LenProperties DEF ByteFields, Field

LEMMA WrittenFieldIs ==
  ASSUME NEW f \in ByteFields
  PROVE  Written(f, 2) \in Seq(Byte) /\ Len(Written(f, 2)) = 3 + Len(f.data)
<1>1. 2 \in {1, 2, 4} /\ Len(f.data) \in Nat
  BY FieldParts
<1>2. Written(f, 2) \in Seq(Byte)
  BY <1>1, FieldParts, WrittenIs
<1>3. Len(Written(f, 2)) = 1 + 2 + Len(f.data)
  BY <1>1, FieldParts, WrittenIs
<1> QED BY <1>1, <1>2, <1>3

\* Where the length of a written string is.
LEMMA LengthPlace ==
  ASSUME NEW p \in Seq(Byte), NEW f \in ByteFields, NEW rest \in Seq(Byte)
  PROVE  SubSeq(p \o (Written(f, 2) \o rest), Len(p) + 2, Len(p) + 3) = le(Len(f.data), 2)
<1>1. PICK n, l, d, t : n = Len(f.data) /\ l = le(n, 2) /\ d = f.data /\ t = <<f.tag>>
  OBVIOUS
<1>2. d \in Seq(Byte) /\ n \in Nat
  BY <1>1, FieldParts
<1>3. l \in Seq(Byte) /\ Len(l) = 2
  <2>1. 2 \in {1, 2, 4}
    OBVIOUS
  <2> QED BY <1>1, <1>2, <2>1, LeBytes
<1>4. t \in Seq(Byte) /\ Len(t) = 1
  BY <1>1, FieldParts, OneIn
<1>5. Written(f, 2) = t \o (l \o d)
  <2>1. 2 \in {1, 2, 4}
    OBVIOUS
  <2> QED BY <1>1, <2>1, FieldParts, WrittenIs
<1>6. PICK dr : dr = d \o rest
  OBVIOUS
<1>7. dr \in Seq(Byte)
  BY <1>2, <1>6, ConcatProperties
<1>8. PICK ld : ld = l \o d
  OBVIOUS
<1>9. ld \in Seq(Byte)
  BY <1>2, <1>3, <1>8, ConcatProperties
<1>10. ld \o rest = l \o dr
  <2>1. l \in Seq(Byte) /\ d \in Seq(Byte) /\ rest \in Seq(Byte)
    BY <1>2, <1>3
  <2>2. (l \o d) \o rest = l \o (d \o rest)
    BY <2>1, ConcatAssociative
  <2> QED BY <1>6, <1>8, <2>2
<1>11. (t \o ld) \o rest = t \o (ld \o rest)
  <2>1. Grouped(t, ld, rest)
    BY <1>4, <1>9, Groups
  <2> QED BY <2>1 DEF Grouped
<1>12. PICK lr : lr = l \o dr
  OBVIOUS
<1>13. lr \in Seq(Byte)
  BY <1>3, <1>7, <1>12, ConcatProperties
<1>14. p \o (t \o lr) = (p \o t) \o lr
  <2>1. Grouped(p, t, lr)
    BY <1>4, <1>13, Groups
  <2> QED BY <2>1 DEF Grouped
<1>15. PICK pt : pt = p \o t
  OBVIOUS
<1>16. pt \in Seq(Byte) /\ Len(pt) = Len(p) + 1 /\ Len(p) \in Nat
  <2>1. pt \in Seq(Byte)
    BY <1>4, <1>15, ConcatProperties
  <2>2. Len(pt) = Len(p) + Len(t)
    BY <1>4, <1>15, ConcatProperties
  <2> QED BY <1>4, <2>1, <2>2, LenProperties
<1>17. SubSeq(pt \o (l \o dr), Len(pt) + 1, Len(pt) + Len(l)) = l
  BY <1>3, <1>7, <1>16, CutBetween
<1>18. p \o (Written(f, 2) \o rest) = pt \o (l \o dr)
  BY <1>5, <1>8, <1>10, <1>11, <1>12, <1>14, <1>15
<1>19. Len(pt) + 1 = Len(p) + 2 /\ Len(pt) + Len(l) = Len(p) + 3
  BY <1>3, <1>16
<1> QED BY <1>1, <1>17, <1>18, <1>19

LEMMA TwoFields ==
  ASSUME NEW f \in ByteFields, NEW g \in ByteFields
  PROVE  /\ <<f, g>> \in Seq(ByteFields)
         /\ Clumplets(<<f, g>>, 2) = Written(f, 2) \o Written(g, 2)
         /\ <<f, g>> \in Seq(Fit(2)) <=> f \in Fit(2) /\ g \in Fit(2)
<1>1. 2 \in {1, 2, 4}
  OBVIOUS
<1>2. PICK a, b, e : a = <<f>> /\ b = <<g>> /\ e = <<>>
  OBVIOUS
<1>3. a \in Seq(ByteFields) /\ b \in Seq(ByteFields) /\ e \in Seq(ByteFields)
  BY <1>2, OneIn, EmptySeq
<1>4. <<f, g>> = a \o b
  BY <1>2, TwoIs
<1>5. a \o b \in Seq(ByteFields)
  BY <1>3, ConcatProperties
<1>6. Clumplets(a \o b, 2) = Written(f, 2) \o Clumplets(b, 2)
  BY <1>1, <1>2, <1>3, ClumpletsFirst
<1>7. b = <<g>> \o e
  BY <1>2, <1>3, ConcatEmptySeq
<1>8. Clumplets(b, 2) = Written(g, 2) \o Clumplets(e, 2)
  BY <1>1, <1>3, <1>7, ClumpletsFirst
<1>9. Clumplets(e, 2) = <<>>
  BY <1>2, ClumpletsNothing
<1>10. Written(g, 2) \o <<>> = Written(g, 2)
  BY WrittenFieldIs, ConcatEmptySeq
<1>11. a \o b \in Seq(Fit(2)) <=> a \in Seq(Fit(2)) /\ b \in Seq(Fit(2))
  BY <1>3, JoinedIn
<1>12. (a \in Seq(Fit(2)) <=> f \in Fit(2)) /\ (b \in Seq(Fit(2)) <=> g \in Fit(2))
  BY <1>2, OneIn
<1> QED BY <1>4, <1>5, <1>6, <1>8, <1>9, <1>10, <1>11, <1>12

LEMMA Sums ==
  ASSUME NEW m \in Nat, NEW n \in Nat, NEW k \in Nat
  PROVE  /\ 1 + ((3 + m) + ((3 + n) + k)) = 7 + m + n + k
         /\ (3 + m) + (3 + n) = 6 + m + n
         /\ 1 + (6 + m + n) = 7 + m + n
         /\ 1 + 1 = 2
         /\ ~(7 + m + n + k < (4 + m) + 3) /\ ~(7 + m + n + k < 7 + m + n)
OBVIOUS

\* The first of them, under a name.
SevenMore(m, n, k) == 1 + ((3 + m) + ((3 + n) + k)) = 7 + m + n + k
LEMMA SevenMoreIs ==
  ASSUME NEW m \in Nat, NEW n \in Nat, NEW k \in Nat
  PROVE  SevenMore(m, n, k)
BY Sums DEF SevenMore

LEMMA Associates == ASSUME NEW S PROVE \A x, y, z \in Seq(S) : (x \o y) \o z = x \o (y \o z)
<1>1. ASSUME NEW x \in Seq(S), NEW y \in Seq(S), NEW z \in Seq(S) PROVE (x \o y) \o z = x \o (y \o z)
  <2>1. Grouped(x, y, z)
    BY Groups
  <2> QED BY <2>1 DEF Grouped
<1> QED BY <1>1

LEMMA BytesAssociate == \A x, y, z \in Seq(Byte) : (x \o y) \o z = x \o (y \o z)
<1>1. ASSUME NEW x \in Seq(Byte), NEW y \in Seq(Byte), NEW z \in Seq(Byte) PROVE (x \o y) \o z = x \o (y \o z)
  <2>1. Grouped(x, y, z)
    BY Groups
  <2> QED BY <2>1 DEF Grouped
<1> QED BY <1>1

\* The two strings of a request, and what is behind them.
RequestShape(a, f, g, nums, b, m, n) ==
  /\ b \in Seq(Byte) /\ b[1] = a
  /\ Len(b) = 7 + m + n + Len(nums)
  /\ SubSeq(b, 3, 4) = le(m, 2)
  /\ SubSeq(b, 6 + m, 7 + m) = le(n, 2)
  /\ SubSeq(b, 2, 7 + m + n) = Clumplets(<<f, g>>, 2)
  /\ After(b, 7 + m + n) = nums

LEMMA RequestParts ==
  ASSUME NEW a \in Byte, NEW f \in ByteFields, NEW g \in ByteFields, NEW nums \in Seq(Byte),
         NEW b, b = <<a>> \o (Written(f, 2) \o (Written(g, 2) \o nums)),
         NEW m \in Nat, NEW n \in Nat, m = Len(f.data), n = Len(g.data)
  PROVE  RequestShape(a, f, g, nums, b, m, n)
<1>1. PICK F, G, h : F = Written(f, 2) /\ G = Written(g, 2) /\ h = <<a>>
  OBVIOUS
<1>2. F \in Seq(Byte) /\ Len(F) = 3 + m
  BY <1>1, WrittenFieldIs, FieldParts
<1>3. G \in Seq(Byte) /\ Len(G) = 3 + n
  BY <1>1, WrittenFieldIs, FieldParts
<1>4. h \in Seq(Byte) /\ Len(h) = 1 /\ h[1] = a
  BY <1>1, OneIn
<1>5. PICK Gn : Gn = G \o nums
  OBVIOUS
<1>6. Gn \in Seq(Byte) /\ Len(Gn) = Len(G) + Len(nums)
  <2>1. Longer(Byte, G, nums)
    BY <1>3, Lengthens
  <2> QED BY <1>5, <2>1 DEF Longer
<1>7. PICK Fr : Fr = F \o Gn
  OBVIOUS
<1>8. Fr \in Seq(Byte) /\ Len(Fr) = Len(F) + Len(Gn)
  <2>1. Longer(Byte, F, Gn)
    BY <1>2, <1>6, Lengthens
  <2> QED BY <1>7, <2>1 DEF Longer
<1>9. b = h \o Fr
  BY <1>1, <1>5, <1>7
<1>10. b \in Seq(Byte) /\ Len(b) = Len(h) + Len(Fr)
  <2>1. Longer(Byte, h, Fr)
    BY <1>4, <1>8, Lengthens
  <2> QED BY <1>9, <2>1 DEF Longer
<1>11. b[1] = a
  BY <1>4, <1>8, <1>9, ConcatProperties
<1>12. Len(nums) \in Nat
  BY LenProperties
<1>13. Len(b) = 7 + m + n + Len(nums)
  <2>1. PICK l1, l2, l3, l4, l5, l6, l7 : l1 = Len(b) /\ l2 = Len(h) /\ l3 = Len(Fr) /\ l4 = Len(F)
          /\ l5 = Len(Gn) /\ l6 = Len(G) /\ l7 = Len(nums)
    OBVIOUS
  <2>2. l1 = l2 + l3 /\ l2 = 1 /\ l3 = l4 + l5 /\ l4 = 3 + m /\ l5 = l6 + l7 /\ l6 = 3 + n /\ l7 \in Nat
    BY <1>2, <1>3, <1>4, <1>6, <1>8, <1>10, <1>12, <2>1
  <2>3. l1 = 1 + ((3 + m) + ((3 + n) + l7))
    BY <2>2
  <2>4. l1 = 7 + m + n + l7
    <3>1. 1 + ((3 + m) + ((3 + n) + l7)) = 7 + m + n + l7
      <4>1. l7 \in Nat
        BY <2>2
      <4>2. SevenMore(m, n, l7)
        BY <4>1, SevenMoreIs
      <4> QED BY <4>2 DEF SevenMore
    <3> QED BY <2>3, <3>1
  <2> QED BY <2>1, <2>4
<1>14. SubSeq(b, 3, 4) = le(m, 2)
  <2>1. SubSeq(h \o (Written(f, 2) \o Gn), Len(h) + 2, Len(h) + 3) = le(m, 2)
    BY <1>4, <1>6, LengthPlace
  <2>2. Len(h) + 2 = 3 /\ Len(h) + 3 = 4
    BY <1>4
  <2> QED BY <1>1, <1>7, <1>9, <2>1, <2>2
<1>15. PICK hF : hF = h \o F
  OBVIOUS
<1>16. hF \in Seq(Byte) /\ Len(hF) = 4 + m
  <2>1. hF \in Seq(Byte) /\ Len(hF) = Len(h) + Len(F)
    BY <1>2, <1>4, <1>15, Behind
  <2> QED BY <1>2, <1>4, <2>1
<1>17. b = hF \o Gn
  <2>1. h \in Seq(Byte) /\ F \in Seq(Byte) /\ Gn \in Seq(Byte)
    BY <1>2, <1>4, <1>6
  <2>2. \A x, y, z \in Seq(Byte) : (x \o y) \o z = x \o (y \o z)
    BY BytesAssociate
  <2>3. (h \o F) \o Gn = h \o (F \o Gn)
    BY <2>1, <2>2
  <2> QED BY <1>7, <1>9, <1>15, <2>3
<1>18. SubSeq(b, 6 + m, 7 + m) = le(n, 2)
  <2>1. SubSeq(hF \o (Written(g, 2) \o nums), Len(hF) + 2, Len(hF) + 3) = le(n, 2)
    BY <1>16, LengthPlace
  <2>2. b = hF \o (Written(g, 2) \o nums)
    BY <1>1, <1>5, <1>17
  <2>3. Len(hF) + 2 = 6 + m /\ Len(hF) + 3 = 7 + m
    BY <1>2, <1>16
  <2> QED BY <2>1, <2>2, <2>3
<1>19. PICK FG : FG = F \o G
  OBVIOUS
<1>20. FG \in Seq(Byte) /\ Len(FG) = 6 + m + n
  <2>1. FG \in Seq(Byte) /\ Len(FG) = Len(F) + Len(G)
    BY <1>2, <1>3, <1>19, Behind
  <2>2. Len(FG) = (3 + m) + (3 + n)
    BY <1>2, <1>3, <2>1
  <2>3. (3 + m) + (3 + n) = 6 + m + n
    BY Sums
  <2> QED BY <2>1, <2>2, <2>3
<1>21. Fr = FG \o nums
  <2>1. F \in Seq(Byte) /\ G \in Seq(Byte) /\ nums \in Seq(Byte)
    BY <1>2, <1>3
  <2>2. \A x, y, z \in Seq(Byte) : (x \o y) \o z = x \o (y \o z)
    BY BytesAssociate
  <2>3. (F \o G) \o nums = F \o (G \o nums)
    BY <2>1, <2>2
  <2> QED BY <1>5, <1>7, <1>19, <2>3
<1>22. SubSeq(b, 2, 7 + m + n) = Clumplets(<<f, g>>, 2)
  <2>1. SubSeq(h \o (FG \o nums), Len(h) + 1, Len(h) + Len(FG)) = FG
    BY <1>4, <1>20, CutBetween
  <2>2. Len(h) + 1 = 2 /\ Len(h) + Len(FG) = 7 + m + n
    <3>1. 1 + (6 + m + n) = 7 + m + n /\ 1 + 1 = 2
      BY Sums
    <3> HIDE DEF After
    <3> QED BY <1>4, <1>20, <3>1
  <2>3. SubSeq(b, 2, 7 + m + n) = FG
    BY <1>9, <1>21, <2>1, <2>2
  <2>4. Clumplets(<<f, g>>, 2) = FG
    BY <1>1, <1>19, TwoFields
  <2> QED BY <2>3, <2>4
<1>23. PICK hFG : hFG = h \o FG
  OBVIOUS
<1>24. hFG \in Seq(Byte) /\ Len(hFG) = 7 + m + n
  <2>1. hFG \in Seq(Byte) /\ Len(hFG) = Len(h) + Len(FG)
    BY <1>4, <1>20, <1>23, Behind
  <2>2. 1 + (6 + m + n) = 7 + m + n
    BY Sums
  <2> QED BY <1>4, <1>20, <2>1, <2>2
<1>25. b = hFG \o nums
  <2>1. h \in Seq(Byte) /\ FG \in Seq(Byte) /\ nums \in Seq(Byte)
    BY <1>4, <1>20
  <2>2. \A x, y, z \in Seq(Byte) : (x \o y) \o z = x \o (y \o z)
    BY BytesAssociate
  <2>3. (h \o FG) \o nums = h \o (FG \o nums)
    BY <2>1, <2>2
  <2> QED BY <1>9, <1>21, <1>23, <2>3
<1>26. After(b, 7 + m + n) = nums
  <2>1. After(hFG \o nums, Len(hFG)) = nums
    BY <1>24, CutBehind
  <2> QED BY <1>24, <1>25, <2>1
<1> QED BY <1>10, <1>11, <1>13, <1>14, <1>18, <1>22, <1>26 DEF RequestShape

\* Strings that fit their lengths are read, and the numbers behind them.
LEMMA RequestIsRead ==
  ASSUME NEW a \in Byte, NEW f \in Fit(2), NEW g \in Fit(2), NEW nums \in Seq(Byte)
  PROVE  ReadRequest(<<a>> \o (Written(f, 2) \o (Written(g, 2) \o nums)))
           = [action |-> a, strings |-> <<f, g>>, numbers |-> ReadNumbers(nums)]
<1>0. PICK b : b = <<a>> \o (Written(f, 2) \o (Written(g, 2) \o nums))
  OBVIOUS
<1>1. f \in ByteFields /\ g \in ByteFields /\ Len(f.data) < Limit(2) /\ Len(g.data) < Limit(2)
  BY DEF Fit
<1>2. Len(f.data) \in Nat /\ Len(g.data) \in Nat /\ Len(nums) \in Nat
  BY <1>1, FieldParts, LenProperties
<1>3. PICK m \in Nat, n \in Nat, k \in Nat : m = Len(f.data) /\ n = Len(g.data) /\ k = Len(nums)
  BY <1>2
<1>4. /\ b \in Seq(Byte) /\ b[1] = a
      /\ Len(b) = 7 + m + n + k
      /\ SubSeq(b, 3, 4) = le(m, 2)
      /\ SubSeq(b, 6 + m, 7 + m) = le(n, 2)
      /\ SubSeq(b, 2, 7 + m + n) = Clumplets(<<f, g>>, 2)
      /\ After(b, 7 + m + n) = nums
  <2>1. m \in Nat /\ n \in Nat /\ m = Len(f.data) /\ n = Len(g.data)
        /\ b = <<a>> \o (Written(f, 2) \o (Written(g, 2) \o nums))
    BY <1>0, <1>3
  <2>2. RequestShape(a, f, g, nums, b, m, n)
    BY <1>1, <2>1, RequestParts
  <2> QED BY <1>3, <2>2 DEF RequestShape
<1>5. FromLe(le(m, 2)) = m /\ FromLe(le(n, 2)) = n
  <2>1. 2 \in {1, 2, 4}
    OBVIOUS
  <2> QED BY <1>1, <1>2, <1>3, <2>1, LeReads
<1>6. <<f, g>> \in Seq(Fit(2))
  BY <1>1, TwoFields
<1>7. ReadClumplets(Clumplets(<<f, g>>, 2), 2) = <<f, g>>
  <2>1. 2 \in {1, 2} /\ <<f, g>> \in Seq(ByteFields)
    BY <1>1, TwoFields
  <2> QED BY <1>6, <2>1, ClumpletsSurviveIfFit
<1>8. PICK one, two : one = 4 + FromLe(SubSeq(b, 3, 4))
                      /\ two = one + 3 + FromLe(SubSeq(b, one + 2, one + 3))
  OBVIOUS
<1>9. one = 4 + m /\ two = 7 + m + n
  <2>1. one = 4 + m
    BY <1>4, <1>5, <1>8
  <2>2. one + 2 = 6 + m /\ one + 3 = 7 + m
    BY <1>2, <1>3, <2>1
  <2>3. two = one + 3 + n
    BY <1>4, <1>5, <1>8, <2>2
  <2>4. (4 + m) + 3 + n = 7 + m + n
    OBVIOUS
  <2> QED BY <2>1, <2>3, <2>4
<1>10. ~(Len(b) < one + 3 \/ Len(b) < two)
  <2>1. Len(b) = 7 + m + n + k
    BY <1>4
  <2>2. ~(7 + m + n + k < (4 + m) + 3 \/ 7 + m + n + k < 7 + m + n)
    BY Sums
  <2> QED BY <1>9, <2>1, <2>2
<1>11. ReadRequest(b) = [action |-> b[1], strings |-> ReadClumplets(SubSeq(b, 2, two), 2),
                         numbers |-> ReadNumbers(After(b, two))]
  BY <1>8, <1>10 DEF ReadRequest
<1> QED BY <1>0, <1>4, <1>7, <1>9, <1>11

\* Strings that are read fit their lengths.
LEMMA RequestFits ==
  ASSUME NEW f \in ByteFields, NEW g \in ByteFields, NEW b \in Seq(Byte), Len(b) >= 4,
         ReadRequest(b).strings = <<f, g>>
  PROVE  f \in Fit(2) /\ g \in Fit(2)
<1>1. PICK one, two : one = 4 + FromLe(SubSeq(b, 3, 4))
                      /\ two = one + 3 + FromLe(SubSeq(b, one + 2, one + 3))
  OBVIOUS
<1>2. ~(Len(b) < one + 3 \/ Len(b) < two)
  <2>1. ASSUME Len(b) < one + 3 \/ Len(b) < two PROVE FALSE
    <3>1. ReadRequest(b).strings = <<Malformed>>
      BY <1>1, <2>1 DEF ReadRequest
    <3>2. <<f, g>> = <<Malformed>>
      BY <3>1
    <3>3. Len(<<f, g>>) = 2 /\ Len(<<Malformed>>) = 1
      OBVIOUS
    <3> HIDE <3>1
    <3> QED BY <3>2, <3>3
  <2> QED BY <2>1
<1>3. ReadClumplets(SubSeq(b, 2, two), 2) = <<f, g>>
  BY <1>1, <1>2 DEF ReadRequest
<1>4. SubSeq(b, 2, two) \in Seq(Byte)
  <2>1. PICK n : n = Len(b)
    OBVIOUS
  <2>2. n \in Nat /\ n >= 4
    BY <2>1, LenProperties
  <2>3. PICK x, y : x = LengthAt(b, 2, 2) /\ y = LengthAt(b, 2, one + 1)
    OBVIOUS
  <2>4. x \in Nat
    <3>1. 2 \in {1, 2, 4} /\ 2 \in 1 .. n /\ 2 + 2 =< n
      BY <2>2
    <3> QED BY <2>1, <2>3, <3>1, LengthIs
  <2>5. one = 4 + x
    <3>1. 2 + 1 = 3 /\ 2 + 2 = 4
      OBVIOUS
    <3> QED BY <1>1, <2>3, <3>1 DEF LengthAt
  <2>6. one + 3 =< n /\ one + 1 \in 1 .. n /\ (one + 1) + 2 =< n /\ (one + 1) + 1 = one + 2 /\ (one + 1) + 2 = one + 3
    BY <1>2, <2>1, <2>2, <2>4, <2>5
  <2>7. y \in Nat
    <3>1. 2 \in {1, 2, 4}
      OBVIOUS
    <3> QED BY <2>1, <2>3, <2>6, <3>1, LengthIs
  <2>8. two = one + 3 + y
    BY <1>1, <2>3, <2>6 DEF LengthAt
  <2>9. 2 \in Nat /\ two \in Int /\ 2 > 0 /\ two =< n
    BY <1>2, <2>1, <2>2, <2>4, <2>5, <2>7, <2>8
  <2> QED BY <2>1, <2>9, PartOf
<1>5. \A i \in DOMAIN <<f, g>> : Len(<<f, g>>[i].data) < 65536
  <2>1. PICK s : s = SubSeq(b, 2, two)
    OBVIOUS
  <2>2. 2 \in {1, 2, 4}
    OBVIOUS
  <2>3. s \in Seq(Byte) /\ ReadClumplets(s, 2) = <<f, g>>
    BY <1>3, <1>4, <2>1
  <2>4. ASSUME NEW i \in DOMAIN <<f, g>> PROVE Len(<<f, g>>[i].data) < 65536
    <3>1. PICK q : q = <<f, g>>
      OBVIOUS
    <3>2. q = ReadClumplets(s, 2) /\ i \in DOMAIN q
      BY <2>3, <2>4, <3>1
    <3>3. 2 = 2 => Len(q[i].data) < 65536
      BY <2>2, <2>3, <3>2, ReadFieldsFit
    <3> QED BY <3>1, <3>3
  <2> QED BY <2>4
<1>6. Len(f.data) < 65536 /\ Len(g.data) < 65536
  <2>1. DOMAIN <<f, g>> = 1 .. 2 /\ <<f, g>>[1] = f /\ <<f, g>>[2] = g
    OBVIOUS
  <2> QED BY <1>5, <2>1
<1> QED BY <1>6, Limits DEF Fit

LEMMA Regrouped ==
  \A p \in Seq(Byte) : \A q \in Seq(Byte) : \A r \in Seq(Byte) : \A s \in Seq(Byte) : \A t \in Seq(Byte) :
    (((p \o q) \o r) \o s) \o t = p \o (q \o (r \o (s \o t)))
<1>2. ASSUME NEW a \in Seq(Byte), NEW b \in Seq(Byte), NEW c \in Seq(Byte), NEW d \in Seq(Byte), NEW e \in Seq(Byte)
      PROVE  (((a \o b) \o c) \o d) \o e = a \o (b \o (c \o (d \o e)))
  <2>1. PICK ab, abc, de, cde : ab = a \o b /\ abc = ab \o c /\ de = d \o e /\ cde = c \o de
    OBVIOUS
  <2>2. ab \in Seq(Byte)
    BY <2>1, ConcatProperties
  <2>3. abc \in Seq(Byte)
    BY <2>1, <2>2, ConcatProperties
  <2>4. de \in Seq(Byte)
    BY <2>1, ConcatProperties
  <2>5. cde \in Seq(Byte)
    BY <2>1, <2>4, ConcatProperties
  <2>6. (abc \o d) \o e = abc \o de
    <3>1. Grouped(abc, d, e)
      BY <2>3, Groups
    <3> QED BY <2>1, <3>1 DEF Grouped
  <2>7. (ab \o c) \o de = ab \o cde
    <3>1. Grouped(ab, c, de)
      BY <2>2, <2>4, Groups
    <3> QED BY <2>1, <3>1 DEF Grouped
  <2>8. (a \o b) \o cde = a \o (b \o cde)
    <3>1. Grouped(a, b, cde)
      BY <2>5, Groups
    <3> QED BY <3>1 DEF Grouped
  <2> QED BY <2>1, <2>6, <2>7, <2>8
<1> QED BY <1>2

\* The two ways a number is written.
Number32(tag, n) == <<tag>> \o le(n, 4)
LEMMA NumberIs ==
  ASSUME NEW tag \in Byte, NEW n \in Nat
  PROVE  /\ push_u32_arg(tag, n) = Number32(tag, n)
         /\ Number32(tag, n) \in Seq(Byte) /\ Len(Number32(tag, n)) = 5
<1>1. PICK l, t : l = le(n, 4) /\ t = <<tag>>
  OBVIOUS
<1>2. l \in Seq(Byte) /\ Len(l) = 4
  BY <1>1, SmallData
<1>3. t \in Seq(Byte) /\ Len(t) = 1 /\ put_u8(tag) = t
  BY <1>1, PutByte
<1>4. t \o l \in Seq(Byte) /\ Len(t \o l) = Len(t) + Len(l)
  BY <1>2, <1>3, Behind
<1>5. Len(t) + Len(l) = 5
  BY <1>2, <1>3
<1> QED BY <1>1, <1>3, <1>4, <1>5 DEF Number32, push_u32_arg

LEMMA OneNumber ==
  ASSUME NEW x \in Seq(Byte), Len(x) = 5, NEW v \in Byte
  PROVE  ReadNumbers(x \o <<v>>) = <<x, <<v>>>>
<1>1. PICK e, b : e = <<v>> /\ b = x \o e
  OBVIOUS
<1>2. e \in Seq(Byte) /\ Len(e) = 1
  BY <1>1, OneIn
<1>3. b \in Seq(Byte) /\ Len(b) = Len(x) + Len(e)
  BY <1>1, <1>2, Behind
<1>4. Len(b) \div 5 = 1
  BY <1>2, <1>3
<1>5. SubSeq(b, 1, 5) = x
  BY <1>1, <1>2, CutFront
<1>6. After(b, 5) = e
  BY <1>1, <1>2, CutBehind
<1>7. [k \in 1 .. 1 |-> SubSeq(b, 5 * k - 4, 5 * k)] = <<x>>
  <2>1. \A k \in 1 .. 1 : 5 * k - 4 = 1 /\ 5 * k = 5
    OBVIOUS
  <2>2. [k \in 1 .. 1 |-> SubSeq(b, 5 * k - 4, 5 * k)] = [k \in 1 .. 1 |-> x]
    BY <1>5, <2>1
  <2>3. [k \in 1 .. 1 |-> x] = <<x>>
    OBVIOUS
  <2> QED BY <2>2, <2>3
<1>8. ReadNumbers(b) = <<x>> \o <<e>>
  <2>1. 5 * 1 = 5
    OBVIOUS
  <2> QED BY <1>4, <1>6, <1>7, <2>1 DEF ReadNumbers
<1> QED BY <1>1, <1>8, TwoIs

LEMMA TwoNumbers ==
  ASSUME NEW x \in Seq(Byte), Len(x) = 5, NEW y \in Seq(Byte), Len(y) = 5, NEW v \in Byte
  PROVE  ReadNumbers(x \o (y \o <<v>>)) = <<x>> \o <<y>> \o <<<<v>>>>
<1>1. PICK e, b, xy : e = <<v>> /\ b = x \o (y \o e) /\ xy = x \o y
  OBVIOUS
<1>2. e \in Seq(Byte) /\ Len(e) = 1
  BY <1>1, OneIn
<1>3. xy \in Seq(Byte) /\ Len(xy) = Len(x) + Len(y)
  BY <1>1, Behind
<1>4. b = xy \o e
  <2>1. \A p, q, r \in Seq(Byte) : (p \o q) \o r = p \o (q \o r)
    BY Associates
  <2> QED BY <1>1, <1>2, <2>1
<1>5. b \in Seq(Byte) /\ Len(b) = Len(xy) + Len(e)
  BY <1>2, <1>3, <1>4, Behind
<1>6. Len(xy) = 10 /\ Len(b) = 11
  BY <1>2, <1>3, <1>5
<1>7. Len(b) \div 5 = 2
  BY <1>6
<1>8. SubSeq(b, 1, 5) = x
  <2>1. y \o e \in Seq(Byte)
    BY <1>2, Behind
  <2> QED BY <1>1, <2>1, CutFront
<1>9. SubSeq(b, 6, 10) = y
  <2>1. SubSeq(x \o (y \o e), Len(x) + 1, Len(x) + Len(y)) = y
    BY <1>2, CutBetween
  <2>2. Len(x) + 1 = 6 /\ Len(x) + Len(y) = 10
    OBVIOUS
  <2> QED BY <1>1, <2>1, <2>2
<1>10. After(b, 10) = e
  <2>1. After(xy \o e, Len(xy)) = e
    BY <1>2, <1>3, CutBehind
  <2> QED BY <1>4, <1>6, <2>1
<1>11. [k \in 1 .. 2 |-> SubSeq(b, 5 * k - 4, 5 * k)] = <<x, y>>
  <2>1. DOMAIN <<x, y>> = 1 .. 2 /\ <<x, y>>[1] = x /\ <<x, y>>[2] = y
    OBVIOUS
  <2>2. \A k \in 1 .. 2 : SubSeq(b, 5 * k - 4, 5 * k) = IF k = 1 THEN x ELSE y
    <3>1. \A k \in 1 .. 2 : (k = 1 /\ 5 * k - 4 = 1 /\ 5 * k = 5) \/ (k = 2 /\ 5 * k - 4 = 6 /\ 5 * k = 10)
      OBVIOUS
    <3> QED BY <1>8, <1>9, <3>1
  <2>3. [k \in 1 .. 2 |-> SubSeq(b, 5 * k - 4, 5 * k)] = [k \in 1 .. 2 |-> IF k = 1 THEN x ELSE y]
    BY <2>2
  <2>4. [k \in 1 .. 2 |-> IF k = 1 THEN x ELSE y] = <<x, y>>
    OBVIOUS
  <2> QED BY <2>3, <2>4
<1>12. 5 * 2 = 10
  OBVIOUS
<1>13. ReadNumbers(b) = <<x, y>> \o <<e>>
  BY <1>7, <1>10, <1>11, <1>12 DEF ReadNumbers
<1> QED BY <1>1, <1>13, TwoIs

LEMMA RequestTags ==
  /\ dbname \in Byte /\ bkp_file \in Byte /\ options \in Byte /\ res_page_size \in Byte /\ verbose \in Byte
  /\ 1 \in Byte /\ 2 \in Byte
BY SMT DEF dbname, bkp_file, options, res_page_size, verbose, Byte

\* A request of two strings and some numbers is read as it was written exactly if the
\* strings fit their two bytes of length.
LEMMA RequestSurvives ==
  ASSUME NEW a \in Byte, NEW f \in ByteFields, NEW g \in ByteFields, NEW nums \in Seq(Byte)
  PROVE  ReadRequest(<<a>> \o (Written(f, 2) \o (Written(g, 2) \o nums)))
           = [action |-> a, strings |-> <<f, g>>, numbers |-> ReadNumbers(nums)]
         <=> f \in Fit(2) /\ g \in Fit(2)
<1>1. PICK F, G, h, Gn, Fr, b : F = Written(f, 2) /\ G = Written(g, 2) /\ h = <<a>>
        /\ Gn = G \o nums /\ Fr = F \o Gn /\ b = h \o Fr
  OBVIOUS
<1>2. F \in Seq(Byte) /\ G \in Seq(Byte) /\ h \in Seq(Byte)
  BY <1>1, WrittenFieldIs, OneIn
<1>3. Gn \in Seq(Byte)
  BY <1>1, <1>2, ConcatProperties
<1>4. Fr \in Seq(Byte)
  BY <1>1, <1>2, <1>3, ConcatProperties
<1>5. b \in Seq(Byte)
  BY <1>1, <1>2, <1>4, ConcatProperties
<1>6. b = <<a>> \o (Written(f, 2) \o (Written(g, 2) \o nums))
  BY <1>1
<1>7. ASSUME f \in Fit(2), g \in Fit(2)
      PROVE  ReadRequest(b) = [action |-> a, strings |-> <<f, g>>, numbers |-> ReadNumbers(nums)]
  BY <1>6, <1>7, RequestIsRead
<1>8. ASSUME ReadRequest(b) = [action |-> a, strings |-> <<f, g>>, numbers |-> ReadNumbers(nums)]
      PROVE  f \in Fit(2) /\ g \in Fit(2)
  <2>1. ReadRequest(b).strings = <<f, g>>
    BY <1>8
  <2>2. PICK m, n, k : m = Len(f.data) /\ n = Len(g.data) /\ k = Len(nums)
    OBVIOUS
  <2>3. m \in Nat /\ n \in Nat /\ k \in Nat
    <3>1. f.data \in Seq(Byte) /\ g.data \in Seq(Byte)
      BY FieldParts
    <3> QED BY <2>2, <3>1, LenProperties
  <2>4. RequestShape(a, f, g, nums, b, m, n)
    BY <1>6, <2>2, <2>3, RequestParts
  <2>5. Len(b) = 7 + m + n + k
    BY <2>2, <2>4 DEF RequestShape
  <2>6. Len(b) >= 4
    BY <2>3, <2>5
  <2> QED BY <1>5, <2>1, <2>6, RequestFits
<1> QED BY <1>6, <1>7, <1>8

\* What the two requests begin with.
LEMMA StringsAre ==
  ASSUME NEW tag \in Byte, NEW value \in Seq(Byte)
  PROVE  /\ Field(tag, value) \in ByteFields
         /\ Field(tag, value) \in Fit(2) <=> Len(value) < Limit(2)
         /\ push_string_arg(tag, value) = Written(Field(tag, value), 2)
         /\ push_string_arg(tag, value) \in Seq(Byte)
<1>1. Field(tag, value) \in ByteFields /\ (Field(tag, value) \in Fit(2) <=> Len(value) < Limit(2))
  BY FieldIn
<1>2. push_string_arg(tag, value) = Written(Field(tag, value), 2)
  BY DEF push_string_arg, Written, Field
<1> QED BY <1>1, <1>2, WrittenFieldIs

LEMMA BackupFits ==
  ASSUME NEW db \in Seq(Byte), NEW file \in Seq(Byte), NEW flags \in Nat
  PROVE  ReadRequest(backup_request(db, file, flags))
           = [action |-> 1, strings |-> <<Field(dbname, db), Field(bkp_file, file)>>,
              numbers |-> <<Number32(options, flags), <<verbose>>>>]
         <=> Len(db) < Limit(2) /\ Len(file) < Limit(2)
<1>1. PICK F, G, N, v, a, nums : F = push_string_arg(dbname, db) /\ G = push_string_arg(bkp_file, file)
        /\ N = Number32(options, flags) /\ v = <<verbose>> /\ a = <<1>> /\ nums = N \o v
  OBVIOUS
<1>2. N \in Seq(Byte) /\ Len(N) = 5 /\ push_u32_arg(options, flags) = N
  BY <1>1, NumberIs, RequestTags
<1>3. F \in Seq(Byte) /\ G \in Seq(Byte)
  BY <1>1, StringsAre, RequestTags
<1>4. v \in Seq(Byte) /\ a \in Seq(Byte)
  BY <1>1, OneIn, RequestTags
<1>5. nums \in Seq(Byte)
  BY <1>1, <1>2, <1>4, ConcatProperties
<1>6. backup_request(db, file, flags) = (((a \o F) \o G) \o N) \o v
  BY <1>1, <1>2 DEF backup_request
<1>7. (((a \o F) \o G) \o N) \o v = a \o (F \o (G \o (N \o v)))
  <2>1. a \in Seq(Byte) /\ F \in Seq(Byte) /\ G \in Seq(Byte) /\ N \in Seq(Byte) /\ v \in Seq(Byte)
    BY <1>2, <1>3, <1>4
  <2>3. \A q \in Seq(Byte) : \A r \in Seq(Byte) : \A s \in Seq(Byte) : \A t \in Seq(Byte) :
          (((a \o q) \o r) \o s) \o t = a \o (q \o (r \o (s \o t)))
    BY <2>1, Regrouped
  <2>4. \A r \in Seq(Byte) : \A s \in Seq(Byte) : \A t \in Seq(Byte) :
          (((a \o F) \o r) \o s) \o t = a \o (F \o (r \o (s \o t)))
    BY <2>1, <2>3
  <2>2. \A p, q \in Seq(Byte) : (((a \o F) \o G) \o p) \o q = a \o (F \o (G \o (p \o q)))
    BY <2>1, <2>4
  <2> QED BY <2>1, <2>2
<1>8. ReadNumbers(nums) = <<N, v>>
  BY <1>1, <1>2, OneNumber, RequestTags
<1>9. PICK f, g : f = Field(dbname, db) /\ g = Field(bkp_file, file)
  OBVIOUS
<1>10. /\ f \in ByteFields /\ (f \in Fit(2) <=> Len(db) < Limit(2)) /\ F = Written(f, 2)
       /\ g \in ByteFields /\ (g \in Fit(2) <=> Len(file) < Limit(2)) /\ G = Written(g, 2)
  BY <1>1, <1>9, StringsAre, RequestTags
<1>11. backup_request(db, file, flags) = <<1>> \o (Written(f, 2) \o (Written(g, 2) \o nums))
  BY <1>1, <1>6, <1>7, <1>10
<1>12. ReadRequest(<<1>> \o (Written(f, 2) \o (Written(g, 2) \o nums)))
           = [action |-> 1, strings |-> <<f, g>>, numbers |-> ReadNumbers(nums)]
       <=> f \in Fit(2) /\ g \in Fit(2)
  BY <1>5, <1>10, RequestSurvives, RequestTags
<1> QED BY <1>1, <1>8, <1>9, <1>10, <1>11, <1>12

LEMMA RestoreFits ==
  ASSUME NEW file \in Seq(Byte), NEW db \in Seq(Byte), NEW flags \in Nat, NEW page \in Nat
  PROVE  ReadRequest(restore_request(file, db, flags, page))
           = [action |-> 2, strings |-> <<Field(bkp_file, file), Field(dbname, db)>>,
              numbers |-> <<Number32(options, flags)>>
                          \o (IF page = 0 THEN <<>> ELSE <<Number32(res_page_size, page)>>)
                          \o <<<<verbose>>>>]
         <=> Len(db) < Limit(2) /\ Len(file) < Limit(2)
<1>1. PICK F, G, N, M, v, a : F = push_string_arg(bkp_file, file) /\ G = push_string_arg(dbname, db)
        /\ N = Number32(options, flags) /\ M = Number32(res_page_size, page) /\ v = <<verbose>> /\ a = <<2>>
  OBVIOUS
<1>2. N \in Seq(Byte) /\ Len(N) = 5 /\ push_u32_arg(options, flags) = N
  BY <1>1, NumberIs, RequestTags
<1>3. M \in Seq(Byte) /\ Len(M) = 5 /\ push_u32_arg(res_page_size, page) = M
  BY <1>1, NumberIs, RequestTags
<1>4. F \in Seq(Byte) /\ G \in Seq(Byte)
  BY <1>1, StringsAre, RequestTags
<1>5. v \in Seq(Byte) /\ a \in Seq(Byte)
  BY <1>1, OneIn, RequestTags
<1>6. PICK P, R : P = (IF page # 0 THEN M ELSE <<>>) /\ R = (IF page = 0 THEN <<>> ELSE <<M>>)
  OBVIOUS
<1>7. P \in Seq(Byte)
  BY <1>3, <1>6, EmptySeq
<1>8. restore_request(file, db, flags, page) = ((((a \o F) \o G) \o N) \o P) \o v
  BY <1>1, <1>2, <1>3, <1>6 DEF restore_request
<1>9. PICK NP, nums : NP = N \o P /\ nums = NP \o v
  OBVIOUS
<1>10. NP \in Seq(Byte)
  BY <1>2, <1>7, <1>9, ConcatProperties
<1>11. nums \in Seq(Byte)
  BY <1>5, <1>9, <1>10, ConcatProperties
<1>12. ((((a \o F) \o G) \o N) \o P) \o v = a \o (F \o (G \o nums))
  <2>2. \A x, y, z \in Seq(Byte) : (x \o y) \o z = x \o (y \o z)
    BY BytesAssociate
  <2>3. PICK X, aF : aF = a \o F /\ X = aF \o G
    OBVIOUS
  <2>4. aF \in Seq(Byte)
    BY <1>4, <1>5, <2>3, ConcatProperties
  <2>5. X \in Seq(Byte)
    BY <1>4, <2>3, <2>4, ConcatProperties
  <2>6. (X \o N) \o P = X \o NP
    BY <1>2, <1>7, <1>9, <2>2, <2>5
  <2>7. (((a \o F) \o G) \o NP) \o v = a \o (F \o (G \o (NP \o v)))
    <3>1. a \in Seq(Byte) /\ F \in Seq(Byte) /\ G \in Seq(Byte) /\ NP \in Seq(Byte) /\ v \in Seq(Byte)
      BY <1>4, <1>5, <1>10
    <3>2. \A q \in Seq(Byte) : \A r \in Seq(Byte) : \A s \in Seq(Byte) : \A t \in Seq(Byte) :
            (((a \o q) \o r) \o s) \o t = a \o (q \o (r \o (s \o t)))
      BY <3>1, Regrouped
    <3>3. \A r \in Seq(Byte) : \A s \in Seq(Byte) : \A t \in Seq(Byte) :
            (((a \o F) \o r) \o s) \o t = a \o (F \o (r \o (s \o t)))
      BY <3>1, <3>2
    <3>4. \A s \in Seq(Byte) : \A t \in Seq(Byte) :
            (((a \o F) \o G) \o s) \o t = a \o (F \o (G \o (s \o t)))
      BY <3>1, <3>3
    <3> QED BY <3>1, <3>4
  <2> QED BY <1>9, <2>3, <2>6, <2>7
<1>13. ReadNumbers(nums) = <<N>> \o R \o <<v>>
  <2>1. CASE page = 0
    <3>1. P = <<>> /\ R = <<>>
      BY <1>6, <2>1
    <3>2. NP = N
      BY <1>2, <1>9, <3>1, ConcatEmptySeq
    <3>3. ReadNumbers(nums) = <<N, v>>
      BY <1>1, <1>2, <1>9, <3>2, OneNumber, RequestTags
    <3>4. <<N>> \o <<>> = <<N>>
      <4>1. <<N>> \in Seq({N})
        BY OneIn
      <4> QED BY <4>1, ConcatEmptySeq
    <3> QED BY <3>1, <3>3, <3>4, TwoIs
  <2>2. CASE page # 0
    <3>1. P = M /\ R = <<M>>
      BY <1>6, <2>2
    <3>2. \A x, y, z \in Seq(Byte) : (x \o y) \o z = x \o (y \o z)
      BY BytesAssociate
    <3>3. nums = N \o (M \o v)
      <4>1. Grouped(N, M, v)
        BY <1>2, <1>3, <1>5, Groups
      <4> QED BY <1>9, <3>1, <4>1 DEF Grouped
    <3>4. ReadNumbers(N \o (M \o <<verbose>>)) = <<N>> \o <<M>> \o <<<<verbose>>>>
      BY <1>2, <1>3, TwoNumbers, RequestTags
    <3> QED BY <1>1, <3>1, <3>3, <3>4
  <2> QED BY <2>1, <2>2
<1>14. PICK f, g : f = Field(bkp_file, file) /\ g = Field(dbname, db)
  OBVIOUS
<1>15. /\ f \in ByteFields /\ (f \in Fit(2) <=> Len(file) < Limit(2)) /\ F = Written(f, 2)
       /\ g \in ByteFields /\ (g \in Fit(2) <=> Len(db) < Limit(2)) /\ G = Written(g, 2)
  BY <1>1, <1>14, StringsAre, RequestTags
<1>16. restore_request(file, db, flags, page) = <<2>> \o (Written(f, 2) \o (Written(g, 2) \o nums))
  BY <1>1, <1>8, <1>12, <1>15
<1>17. ReadRequest(<<2>> \o (Written(f, 2) \o (Written(g, 2) \o nums)))
           = [action |-> 2, strings |-> <<f, g>>, numbers |-> ReadNumbers(nums)]
       <=> f \in Fit(2) /\ g \in Fit(2)
  BY <1>11, <1>15, RequestSurvives, RequestTags
<1> QED BY <1>1, <1>6, <1>13, <1>14, <1>15, <1>16, <1>17


\* A backup request says what it was built from exactly if both names fit two bytes.
THEOREM BackupSurvives ==
  ASSUME NEW db \in Seq(Byte), NEW file \in Seq(Byte), NEW flags \in Nat
  PROVE  ReadRequest(backup_request(db, file, flags))
           = [action |-> 1, strings |-> <<Field(dbname, db), Field(bkp_file, file)>>,
              numbers |-> <<Number32(options, flags), <<verbose>>>>]
         <=> Len(db) < 65536 /\ Len(file) < 65536
<1>1. Limit(2) = 65536
  BY Limits
<1> QED BY <1>1, BackupFits

\* So does a restore request, with its page size or without.
THEOREM RestoreSurvives ==
  ASSUME NEW file \in Seq(Byte), NEW db \in Seq(Byte), NEW flags \in Nat, NEW page \in Nat
  PROVE  ReadRequest(restore_request(file, db, flags, page))
           = [action |-> 2, strings |-> <<Field(bkp_file, file), Field(dbname, db)>>,
              numbers |-> <<Number32(options, flags)>>
                          \o (IF page = 0 THEN <<>> ELSE <<Number32(res_page_size, page)>>)
                          \o <<<<verbose>>>>]
         <=> Len(db) < 65536 /\ Len(file) < 65536
<1>1. Limit(2) = 65536
  BY Limits
<1> QED BY <1>1, RestoreFits, SMTT(20)

\* What a reader makes of the bytes from a place on depends on the places behind it alone.
LooksBehind(n, V, S) ==
  \A d \in 1 .. n + 1 : \A f, g \in [1 .. n + 1 -> V] :
    (\A k \in d + 1 .. n + 1 : f[k] = g[k]) => S[<<d, f>>] = S[<<d, g>>]
SolvedBehind(n, V, S) == \E h \in [1 .. n + 1 -> V] : \A d \in 1 .. n + 1 : h[d] = S[<<d, h>>]

LEMMA Backwards ==
  ASSUME NEW n \in Nat, NEW V, NEW v \in V,
         NEW S \in [(1 .. n + 1) \X [1 .. n + 1 -> V] -> V], LooksBehind(n, V, S)
  PROVE  SolvedBehind(n, V, S)
<1> DEFINE D == 1 .. n + 1
           rank == [i \in D |-> n + 1 - i]
<1>1. rank \in [D -> 0 .. n]
  OBVIOUS
<1>2. ASSUME NEW d \in D, NEW f \in [D -> V], NEW g \in [D -> V],
             \A e \in D : rank[e] < rank[d] => f[e] = g[e]
      PROVE  S[<<d, f>>] = S[<<d, g>>]
  <2>1. ASSUME NEW k \in d + 1 .. n + 1 PROVE f[k] = g[k]
    <3>1. k \in D /\ rank[k] < rank[d]
      OBVIOUS
    <3> QED BY <1>2, <3>1
  <2> QED BY <2>1 DEF LooksBehind
<1>3. Lower(D, V, rank, S)
  <2> HIDE DEF D, rank
  <2> QED BY <1>2 DEF Lower
<1>4. S \in [D \X [D -> V] -> V]
  OBVIOUS
<1>5. Solved(D, V, S)
  <2> HIDE DEF D, rank
  <2> QED BY <1>1, <1>3, <1>4, Recursion
<1> QED BY <1>5 DEF Solved, SolvedBehind

\* One step of the reading of an event block, with what is read behind it in f.
EventAt(rest, i) ==
  [name |-> SubSeq(rest, i + 1, i + rest[i]),
   count |-> FromLe(SubSeq(rest, i + rest[i] + 1, i + rest[i] + 4))]
Parsing(rest, f, i) ==
  IF i > Len(rest) THEN <<>>
  ELSE IF Len(rest) - i < rest[i] + 4 THEN NoBlock
  ELSE <<EventAt(rest, i)>> \o f[i + rest[i] + 5]
EventsAt(rest) == {-1} \cup {EventAt(rest, i) : i \in 1 .. Len(rest) + 1}

LEMMA NextPlace ==
  ASSUME NEW n \in Nat, NEW i \in 1 .. n + 1, NEW r \in Nat, ~(n - i < r + 4)
  PROVE  i + r + 5 \in i + 1 .. n + 1
OBVIOUS

LEMMA NextEvent ==
  ASSUME NEW rest \in Seq(Byte), NEW i \in 1 .. Len(rest) + 1, ~(i > Len(rest)),
         ~(Len(rest) - i < rest[i] + 4)
  PROVE  i + rest[i] + 5 \in i + 1 .. Len(rest) + 1
<1>1. Len(rest) \in Nat
  BY LenProperties
<1>2. i \in 1 .. Len(rest)
  BY <1>1
<1>3. rest[i] \in Byte
  BY <1>2
<1>4. rest[i] \in Nat
  BY <1>3, ByteIs
<1>5. PICK n, r : n = Len(rest) /\ r = rest[i]
  OBVIOUS
<1>6. n \in Nat /\ i \in 1 .. n + 1 /\ r \in Nat /\ ~(n - i < r + 4)
  BY <1>1, <1>4, <1>5
<1>7. i + r + 5 \in i + 1 .. n + 1
  BY <1>6, NextPlace
<1> QED BY <1>5, <1>7

LEMMA ParsingIn ==
  ASSUME NEW rest \in Seq(Byte), NEW i \in 1 .. Len(rest) + 1,
         NEW f \in [1 .. Len(rest) + 1 -> Seq(EventsAt(rest))]
  PROVE  Parsing(rest, f, i) \in Seq(EventsAt(rest))
<1>1. CASE i > Len(rest)
  <2>1. Parsing(rest, f, i) = <<>>
    BY <1>1 DEF Parsing
  <2> QED BY <2>1, EmptySeq
<1>2. CASE ~(i > Len(rest)) /\ Len(rest) - i < rest[i] + 4
  <2>1. Parsing(rest, f, i) = <<-1>>
    BY <1>2 DEF Parsing, NoBlock
  <2>2. -1 \in EventsAt(rest)
    BY DEF EventsAt
  <2> QED BY <2>1, <2>2, OneIn
<1>3. CASE ~(i > Len(rest)) /\ ~(Len(rest) - i < rest[i] + 4)
  <2>1. PICK j : j = i + rest[i] + 5
    OBVIOUS
  <2>2. Parsing(rest, f, i) = <<EventAt(rest, i)>> \o f[j]
    BY <1>3, <2>1 DEF Parsing
  <2>3. j \in i + 1 .. Len(rest) + 1
    BY <1>3, <2>1, NextEvent
  <2>4. j \in 1 .. Len(rest) + 1
    <3>1. Len(rest) \in Nat
      BY LenProperties
    <3> QED BY <2>3, <3>1
  <2>5. f[j] \in Seq(EventsAt(rest))
    BY <2>4
  <2>6. EventAt(rest, i) \in EventsAt(rest)
    BY DEF EventsAt
  <2>7. <<EventAt(rest, i)>> \in Seq(EventsAt(rest))
    BY <2>6, OneIn
  <2> QED BY <2>2, <2>5, <2>7, ConcatProperties
<1> QED BY <1>1, <1>2, <1>3

LEMMA ParsingBehind ==
  ASSUME NEW rest \in Seq(Byte), NEW i \in 1 .. Len(rest) + 1, NEW f, NEW g,
         \A k \in i + 1 .. Len(rest) + 1 : f[k] = g[k]
  PROVE  Parsing(rest, f, i) = Parsing(rest, g, i)
<1>1. ASSUME ~(i > Len(rest)), ~(Len(rest) - i < rest[i] + 4)
      PROVE  f[i + rest[i] + 5] = g[i + rest[i] + 5]
  <2>1. i + rest[i] + 5 \in i + 1 .. Len(rest) + 1
    BY <1>1, NextEvent
  <2> QED BY <2>1
<1> QED BY <1>1 DEF Parsing

LEMMA ParseIs ==
  ASSUME NEW rest \in Seq(Byte)
  PROVE  \E h : parse_events(rest) = h[1] /\ \A i \in 1 .. Len(rest) + 1 : h[i] = Parsing(rest, h, i)
<1> DEFINE n == Len(rest)
           D == 1 .. n + 1
           V == Seq(EventsAt(rest))
           S == [p \in D \X [D -> V] |-> Parsing(rest, p[2], p[1])]
           Step(g) == [i \in D |-> Parsing(rest, g, i)]
           h == CHOOSE g : g = Step(g)
<1>1. parse_events(rest) = h[1]
  BY DEF parse_events, Parsing, EventAt
<1>2. n \in Nat
  BY LenProperties
<1>3. S \in [D \X [D -> V] -> V]
  BY ParsingIn
<1>4. ASSUME NEW d \in D, NEW f \in [D -> V], NEW g \in [D -> V], \A k \in d + 1 .. n + 1 : f[k] = g[k]
      PROVE  S[<<d, f>>] = S[<<d, g>>]
  <2>1. Parsing(rest, f, d) = Parsing(rest, g, d)
    BY <1>4, ParsingBehind
  <2>2. S[<<d, f>>] = Parsing(rest, f, d) /\ S[<<d, g>>] = Parsing(rest, g, d)
    OBVIOUS
  <2> QED BY <2>1, <2>2
<1>5. LooksBehind(n, V, S)
  <2> HIDE DEF n, V, S
  <2> QED BY <1>4 DEF LooksBehind
<1>6. <<>> \in V
  BY EmptySeq
<1>7. SolvedBehind(n, V, S)
  <2> HIDE DEF n, V, S
  <2> QED BY <1>2, <1>3, <1>5, <1>6, Backwards
<1>8. PICK f \in [D -> V] : \A d \in D : f[d] = S[<<d, f>>]
  BY <1>7 DEF SolvedBehind
<1>9. \A d \in D : f[d] = Parsing(rest, f, d)
  BY <1>8
<1>10. f = Step(f)
  BY <1>9
<1>11. h = Step(h)
  BY <1>10
<1> HIDE DEF h
<1>12. \A i \in D : h[i] = Parsing(rest, h, i)
  BY <1>11
<1> QED BY <1>1, <1>12

\* The longest of a set of places.
LEMMA LastPlace ==
  ASSUME NEW n \in Nat, NEW A, A \subseteq 1 .. n, n \in A
  PROVE  (CHOOSE i \in A : \A j \in A : j =< i) = n
<1>1. \A j \in A : j =< n
  OBVIOUS
<1>2. \A i \in A : (\A j \in A : j =< i) => i = n
  OBVIOUS
<1> QED BY <1>1, <1>2

\* A name that does not end with a blank is what is left of it with blanks behind it.
Padding(blanks) == [i \in 1 .. blanks |-> Blank]
LEMMA TrimIs ==
  ASSUME NEW name \in Seq(Byte), NEW blanks \in Nat,
         Len(name) > 0 => name[Len(name)] # Blank
  PROVE  normalize_event_name(name \o Padding(blanks)) = name
<1>1. PICK n, pad, p : n = Len(name) /\ pad = Padding(blanks) /\ p = name \o pad
  OBVIOUS
<1>2. Blank \in Byte
  BY SMT DEF Blank, Byte
<1>3. pad \in [1 .. blanks -> Byte]
  BY <1>1, <1>2 DEF Padding
<1>4. pad \in Seq(Byte) /\ Len(pad) = blanks
  BY <1>3, TableIs
<1>5. n \in Nat
  BY <1>1, LenProperties
<1>6. p \in Seq(Byte) /\ Len(p) = n + blanks
  <2>1. p \in Seq(Byte) /\ Len(p) = Len(name) + Len(pad)
    BY <1>1, <1>4, Behind
  <2> QED BY <1>1, <1>4, <2>1
<1>7. ASSUME NEW i \in DOMAIN p, p[i] # Blank PROVE i \in 1 .. n
  <2>1. i \in 1 .. n + blanks
    BY <1>6
  <2>2. CASE i > n
    <3>1. i - n \in 1 .. Len(pad)
      BY <1>4, <1>5, <2>1, <2>2
    <3>2. PICK k : k = i - n
      OBVIOUS
    <3>3. (name \o pad)[Len(name) + k] = pad[k]
      BY <1>4, <3>1, <3>2, BehindAt
    <3>4. Len(name) + k = i
      BY <1>1, <1>5, <2>1, <3>2
    <3>5. pad[k] = Blank
      BY <1>1, <1>4, <3>1, <3>2 DEF Padding
    <3> QED BY <1>1, <1>7, <3>3, <3>4, <3>5
  <2> QED BY <1>5, <2>1, <2>2
<1>8. PICK last : last = {i \in DOMAIN p : p[i] # Blank}
  OBVIOUS
<1>9. normalize_event_name(p) = IF last = {} THEN <<>>
        ELSE SubSeq(p, 1, CHOOSE i \in last : \A j \in last : j =< i)
  BY <1>8 DEF normalize_event_name
<1>10. last \subseteq 1 .. n
  BY <1>7, <1>8
<1>11. CASE n = 0
  <2>1. last = {}
    BY <1>10, <1>11
  <2>2. name = <<>>
    BY <1>1, <1>11, EmptySeq
  <2> QED BY <1>1, <1>9, <2>1, <2>2
<1>12. CASE n > 0
  <2>1. n \in 1 .. Len(name)
    BY <1>1, <1>5, <1>12
  <2>2. p[n] = name[n]
    BY <1>1, <1>4, <2>1, ConcatProperties
  <2>3. name[n] # Blank
    BY <1>1, <1>12
  <2>4. n \in DOMAIN p
    BY <1>4, <1>5, <1>6, <1>12
  <2>5. n \in last
    BY <1>8, <2>2, <2>3, <2>4
  <2>6. (CHOOSE i \in last : \A j \in last : j =< i) = n
    BY <1>5, <1>10, <2>5, LastPlace
  <2>7. normalize_event_name(p) = SubSeq(p, 1, n)
    BY <1>9, <2>5, <2>6
  <2>8. SubSeq(p, 1, n) = name
    BY <1>1, <1>4, CutFront
  <2> QED BY <1>1, <2>7, <2>8
<1> QED BY <1>5, <1>11, <1>12

EntryOf(name, count) == put_u8(Len(name)) \o name \o le(count, 4)

LEMMA EntrySums ==
  ASSUME NEW n \in Nat
  PROVE  /\ 1 + (n + 4) = n + 5 /\ ~(1 > n + 5) /\ ~((n + 5) - 1 < n + 4) /\ 1 \in 1 .. (n + 5) + 1
         /\ 1 + 1 = 2 /\ (1 + n) + 1 = 1 + n + 1 /\ (1 + n) + 4 = 1 + n + 4
         /\ 1 + n + 5 = n + 6 /\ n + 6 \in 1 .. (n + 5) + 1 /\ n + 6 > n + 5
OBVIOUS

NameLengths == 1 .. 255
LEMMA NameLengthIs == ASSUME NEW n \in NameLengths PROVE n \in Byte /\ n \in Nat
BY SMT DEF NameLengths, Byte

EntryShape(name, count, e, n) ==
  /\ e \in Seq(Byte) /\ Len(e) = n + 5 /\ e[1] = n /\ n \in Nat
  /\ SubSeq(e, 2, 1 + n) = name
  /\ SubSeq(e, 1 + n + 1, 1 + n + 4) = le(count, 4)

LEMMA EntryIs ==
  ASSUME NEW name \in Seq(Byte), Len(name) \in NameLengths, NEW count \in Nat, NEW e, e = EntryOf(name, count),
         NEW n, n = Len(name)
  PROVE  EntryShape(name, count, e, n)
<1>1. PICK t, l : t = <<n>> /\ l = le(count, 4)
  OBVIOUS
<1>2. n \in Byte /\ n \in Nat
  BY NameLengthIs
<1>3. put_u8(n) = t
  BY <1>1, <1>2, PutByte
<1>4. t \in Seq(Byte) /\ Len(t) = 1 /\ t[1] = n
  BY <1>1, <1>2, OneIn
<1>5. l \in Seq(Byte) /\ Len(l) = 4
  BY <1>1, SmallData
<1>6. e = (t \o name) \o l
  BY <1>1, <1>3 DEF EntryOf
<1>7. PICK tn : tn = t \o name
  OBVIOUS
<1>8. tn \in Seq(Byte) /\ Len(tn) = 1 + n
  <2>1. tn \in Seq(Byte) /\ Len(tn) = Len(t) + Len(name)
    BY <1>4, <1>7, Behind
  <2> QED BY <1>4, <2>1
<1>9. PICK nl : nl = name \o l
  OBVIOUS
<1>10. nl \in Seq(Byte) /\ Len(nl) = n + 4
  <2>1. nl \in Seq(Byte) /\ Len(nl) = Len(name) + Len(l)
    BY <1>5, <1>9, Behind
  <2> QED BY <1>5, <2>1
<1>11. e = t \o nl
  <2>1. \A x, y, z \in Seq(Byte) : (x \o y) \o z = x \o (y \o z)
    BY BytesAssociate
  <2> QED BY <1>4, <1>5, <1>6, <1>9, <2>1
<1>12. e \in Seq(Byte) /\ Len(e) = n + 5
  <2>1. e \in Seq(Byte) /\ Len(e) = Len(t) + Len(nl)
    <3>1. t \in Seq(Byte) /\ nl \in Seq(Byte)
      BY <1>4, <1>10
    <3>2. t \o nl \in Seq(Byte) /\ Len(t \o nl) = Len(t) + Len(nl)
      BY <3>1, Behind
    <3> QED BY <1>11, <3>2
  <2> QED BY <1>2, <1>4, <1>10, <2>1, EntrySums
<1>13. e[1] = n
  <2>1. 1 \in 1 .. Len(t) + Len(nl) /\ 1 <= Len(t)
    BY <1>2, <1>4, <1>10
  <2>2. (t \o nl)[1] = t[1]
    BY <1>4, <1>10, <2>1, ConcatProperties
  <2> QED BY <1>4, <1>11, <2>2
<1>14. SubSeq(e, 2, 1 + n) = name
  <2>1. SubSeq(t \o (name \o l), Len(t) + 1, Len(t) + Len(name)) = name
    BY <1>4, <1>5, CutBetween
  <2> QED BY <1>2, <1>4, <1>9, <1>11, <2>1, EntrySums
<1>15. SubSeq(e, 1 + n + 1, 1 + n + 4) = l
  <2>1. SubSeq(tn \o (l \o <<>>), Len(tn) + 1, Len(tn) + Len(l)) = l
    BY <1>5, <1>8, CutBetween, EmptySeq
  <2>2. l \o <<>> = l
    BY <1>5, ConcatEmptySeq
  <2> QED BY <1>2, <1>5, <1>6, <1>7, <1>8, <2>1, <2>2, EntrySums
<1> QED BY <1>1, <1>2, <1>12, <1>13, <1>14, <1>15 DEF EntryShape

LEMMA EntryParsed ==
  ASSUME NEW name \in Seq(Byte), Len(name) \in NameLengths, NEW count \in Nat, count < Limit(4)
  PROVE  parse_events(EntryOf(name, count)) = <<[name |-> name, count |-> count]>>
<1>1. PICK e, n : e = EntryOf(name, count) /\ n = Len(name)
  OBVIOUS
<1>2. /\ e \in Seq(Byte) /\ Len(e) = n + 5 /\ e[1] = n /\ n \in Nat
      /\ SubSeq(e, 2, 1 + n) = name
      /\ SubSeq(e, 1 + n + 1, 1 + n + 4) = le(count, 4)
  <2>1. EntryShape(name, count, e, n)
    BY <1>1, EntryIs
  <2> QED BY <2>1 DEF EntryShape
<1>3. PICK h : parse_events(e) = h[1] /\ \A i \in 1 .. Len(e) + 1 : h[i] = Parsing(e, h, i)
  BY <1>2, ParseIs
<1>4. FromLe(le(count, 4)) = count
  <2>1. 4 \in {1, 2, 4}
    OBVIOUS
  <2> QED BY <2>1, LeReads
<1>5. EventAt(e, 1) = [name |-> name, count |-> count]
  <2>1. 1 + 1 = 2
    OBVIOUS
  <2> QED BY <1>2, <1>4, <2>1 DEF EventAt
<1>6. h[1] = <<EventAt(e, 1)>> \o h[n + 6]
  <2>1. 1 \in 1 .. Len(e) + 1
    BY <1>2, EntrySums
  <2>2. h[1] = Parsing(e, h, 1)
    BY <1>3, <2>1
  <2>3. ~(1 > Len(e)) /\ ~(Len(e) - 1 < e[1] + 4) /\ 1 + e[1] + 5 = n + 6
    BY <1>2, EntrySums
  <2> QED BY <2>2, <2>3 DEF Parsing
<1>7. h[n + 6] = <<>>
  <2>1. n + 6 \in 1 .. Len(e) + 1 /\ n + 6 > Len(e)
    BY <1>2, EntrySums
  <2>2. h[n + 6] = Parsing(e, h, n + 6)
    BY <1>3, <2>1
  <2> QED BY <2>1, <2>2 DEF Parsing
<1>8. PICK ev : ev = EventAt(e, 1)
  OBVIOUS
<1>9. <<ev>> \o <<>> = <<ev>>
  <2>1. <<ev>> \in Seq({ev})
    BY OneIn
  <2> QED BY <2>1, ConcatEmptySeq
<1> QED BY <1>1, <1>3, <1>5, <1>6, <1>7, <1>8, <1>9

\* An event block says to its reader the name, without the blanks behind it, and the
\* counter it was built from; and a name of no byte or more than 255 is refused.
THEOREM EventSurvives ==
  ASSUME NEW name \in Seq(Byte), Len(name) > 0 => name[Len(name)] # Blank,
         NEW blanks \in Nat, NEW count \in Nat, count < Limit(4)
  PROVE  LET epb == event_block(<<[name |-> name \o Padding(blanks), count |-> count]>>)
         IN IF Len(name) \in 1 .. 255
            THEN parse_event_block(epb) = <<[name |-> name, count |-> count]>>
            ELSE epb = NoBlock
<1>1. PICK ev, events : ev = [name |-> name \o Padding(blanks), count |-> count] /\ events = <<ev>>
  OBVIOUS
<1>2. DOMAIN events = {1} /\ events[1] = ev
  BY <1>1
<1>3. PICK names : names = [i \in DOMAIN events |-> normalize_event_name(events[i].name)]
  OBVIOUS
<1>4. DOMAIN names = {1} /\ names[1] = name
  <2>1. normalize_event_name(ev.name) = name
    BY <1>1, TrimIs
  <2> QED BY <1>2, <1>3, <2>1
<1>5. PICK entry : entry = EntryOf(name, count)
  OBVIOUS
<1>6. PICK entries : entries = [i \in DOMAIN events |->
                        put_u8(Len(names[i])) \o names[i] \o le(events[i].count, 4)]
  OBVIOUS
<1>7. PICK epb : epb = <<1>> \o FlattenSeq(entries)
  OBVIOUS
<1>8. event_block(events) = IF \/ \E i \in DOMAIN names : Len(names[i]) \notin 1 .. MAX_EVENT_NAME_LEN
                               \/ Len(epb) > MAX_EVENT_BLOCK_LEN
                            THEN NoBlock ELSE epb
  BY <1>3, <1>6, <1>7, SMT DEF event_block
<1>9. 1 .. MAX_EVENT_NAME_LEN = NameLengths
  BY SMT DEF MAX_EVENT_NAME_LEN, NameLengths
<1>10. CASE Len(name) \notin NameLengths
  <2>1. event_block(events) = NoBlock
    BY <1>4, <1>8, <1>9, <1>10
  <2> QED BY <1>1, <1>10, <2>1 DEF NameLengths
<1>11. CASE Len(name) \in NameLengths
  <2>1. PICK n : n = Len(name)
    OBVIOUS
  <2>2. entry \in Seq(Byte) /\ Len(entry) = n + 5
    <3>1. EntryShape(name, count, entry, n)
      BY <1>5, <1>11, <2>1, EntryIs
    <3> QED BY <3>1 DEF EntryShape
  <2>3. entries = <<entry>>
    <3>1. ev.count = count
      BY <1>1
    <3>2. entries = [i \in {1} |-> entry]
      BY <1>2, <1>4, <1>5, <1>6, <3>1 DEF EntryOf
    <3>3. [i \in {1} |-> entry] = <<entry>>
      OBVIOUS
    <3> QED BY <3>2, <3>3
  <2>4. FlattenSeq(entries) = entry
    BY <2>2, <2>3, FlattenOne
  <2>5. PICK t : t = <<1>>
    OBVIOUS
  <2>6. t \in Seq(Byte) /\ Len(t) = 1
    BY <2>5, OneIn, RequestTags
  <2>7. epb = t \o entry
    BY <1>7, <2>4, <2>5
  <2>8. Len(epb) = 1 + (n + 5)
    <3>1. Len(epb) = Len(t) + Len(entry)
      BY <2>2, <2>6, <2>7, Behind
    <3> QED BY <2>2, <2>6, <3>1
  <2>9. ~(Len(epb) > MAX_EVENT_BLOCK_LEN)
    <3>1. n \in NameLengths
      BY <1>11, <2>1
    <3>2. ~(1 + (n + 5) > MAX_EVENT_BLOCK_LEN)
      BY <3>1, SMT DEF MAX_EVENT_BLOCK_LEN, NameLengths
    <3> QED BY <2>8, <3>2
  <2>10. event_block(events) = epb
    BY <1>4, <1>8, <1>9, <1>11, <2>9
  <2>11. Tail(epb) = entry
    BY <2>2, <2>5, <2>7, SMTT(20)
  <2>12. parse_event_block(epb) = <<[name |-> name, count |-> count]>>
    BY <1>5, <1>11, <2>11, EntryParsed DEF parse_event_block
  <2> QED BY <1>1, <1>11, <2>10, <2>12 DEF NameLengths
<1> QED BY <1>10, <1>11

\* The calls of a transaction builder, with any timeout.
LockCalls == {[set |-> "no_wait"], [set |-> "wait_infinitely"]} \cup [set : {"wait"}, to : Nat]
AccessCalls == [set : {"access"}, to : {tpb_read, tpb_write}]
IsolationCalls == [set : {"isolation"}, to : {tpb_consistency, tpb_concurrency}]
                  \cup [set : {"read_commited"}, to : {tpb_rec_version, tpb_no_rec_version}]
AllCalls == LockCalls \cup AccessCalls \cup IsolationCalls

LEMMA TpbTags ==
  /\ tpb_consistency \in Int /\ tpb_concurrency \in Int /\ tpb_version3 \in Int /\ tpb_wait \in Int
  /\ tpb_nowait \in Int /\ tpb_read \in Int /\ tpb_write \in Int /\ tpb_read_committed \in Int
  /\ tpb_rec_version \in Int /\ tpb_no_rec_version \in Int
  /\ tpb_consistency # tpb_read_committed /\ tpb_concurrency # tpb_read_committed
  /\ tpb_lock_timeout \notin {tpb_consistency, tpb_concurrency, tpb_version3, tpb_wait, tpb_nowait, tpb_read,
                              tpb_write, tpb_read_committed, tpb_rec_version, tpb_no_rec_version}
BY SMT DEF tpb_consistency, tpb_concurrency, tpb_version3, tpb_wait, tpb_nowait, tpb_read, tpb_write,
  tpb_read_committed, tpb_rec_version, tpb_no_rec_version, tpb_lock_timeout

LEMMA CallIs ==
  ASSUME NEW call \in AllCalls
  PROVE  \/ call.set = "no_wait" \/ call.set = "wait_infinitely"
         \/ call.set = "wait" /\ call.to \in Nat
         \/ call.set = "access" /\ call.to \in {tpb_read, tpb_write}
         \/ call.set = "isolation" /\ call.to \in {tpb_consistency, tpb_concurrency}
         \/ call.set = "read_commited" /\ call.to \in {tpb_rec_version, tpb_no_rec_version}
BY DEF AllCalls, LockCalls, AccessCalls, IsolationCalls

LEMMA GroupIs ==
  ASSUME NEW call \in AllCalls
  PROVE  /\ Group(call) = "lock" <=> call \in LockCalls
         /\ Group(call) = "access" <=> call \in AccessCalls
         /\ Group(call) = "isolation" <=> call \in IsolationCalls
<1>1. CASE call \in LockCalls
  <2>1. call.set \in {"no_wait", "wait", "wait_infinitely"}
    BY <1>1 DEF LockCalls
  <2>2. Group(call) = "lock"
    BY <2>1 DEF Group
  <2>3. call \notin AccessCalls /\ call \notin IsolationCalls
    BY <2>1 DEF AccessCalls, IsolationCalls
  <2> QED BY <1>1, <2>2, <2>3
<1>2. CASE call \in AccessCalls
  <2>1. call.set = "access"
    BY <1>2 DEF AccessCalls
  <2>2. Group(call) = "access"
    BY <2>1 DEF Group
  <2>3. call \notin LockCalls /\ call \notin IsolationCalls
    BY <2>1 DEF LockCalls, IsolationCalls
  <2> QED BY <1>2, <2>2, <2>3
<1>3. CASE call \in IsolationCalls
  <2>1. call.set \in {"isolation", "read_commited"}
    BY <1>3 DEF IsolationCalls
  <2>2. Group(call) = "isolation"
    BY <2>1 DEF Group
  <2>3. call \notin LockCalls /\ call \notin AccessCalls
    BY <2>1 DEF LockCalls, AccessCalls
  <2> QED BY <1>3, <2>2, <2>3
<1> QED BY <1>1, <1>2, <1>3 DEF AllCalls

TpbConfs == [isolation : Int, rec : Int, access : Int, lock : Int, timeout : Int]

\* A configuration is what a call of each kind says.
Agrees(conf, lock, access, isolation) ==
  /\ conf \in TpbConfs
  /\ conf.lock = IF lock.set = "no_wait" THEN tpb_nowait ELSE tpb_wait
  /\ conf.timeout = IF lock.set = "wait" THEN lock.to ELSE -1
  /\ conf.access = access.to
  /\ conf.isolation = IF isolation.set = "isolation" THEN isolation.to ELSE tpb_read_committed
  /\ conf.rec = IF isolation.set = "isolation" THEN 0 ELSE isolation.to

WithLock(conf, x, y) == [conf EXCEPT !.lock = x, !.timeout = y]
WithIsolation(conf, x, y) == [conf EXCEPT !.isolation = x, !.rec = y]
LEMMA TwoSet ==
  ASSUME NEW conf \in TpbConfs, NEW x \in Int, NEW y \in Int
  PROVE  WithLock(conf, x, y) \in TpbConfs /\ WithIsolation(conf, x, y) \in TpbConfs
<1>1. [conf EXCEPT !.lock = x] \in TpbConfs /\ [conf EXCEPT !.isolation = x] \in TpbConfs
  BY DEF TpbConfs
<1>2. \A c \in TpbConfs : [c EXCEPT !.timeout = y] \in TpbConfs /\ [c EXCEPT !.rec = y] \in TpbConfs
  BY DEF TpbConfs
<1>3. PICK c, d : c = [conf EXCEPT !.lock = x] /\ d = [conf EXCEPT !.isolation = x]
  OBVIOUS
<1>4. [conf EXCEPT !.lock = x, !.timeout = y] = [c EXCEPT !.timeout = y]
  BY <1>3
<1>5. [conf EXCEPT !.isolation = x, !.rec = y] = [d EXCEPT !.rec = y]
  BY <1>3
<1> QED BY <1>1, <1>2, <1>3, <1>4, <1>5 DEF WithLock, WithIsolation

LEMMA BuildIn ==
  ASSUME NEW conf \in TpbConfs, NEW call \in AllCalls
  PROVE  Build(conf, call) \in TpbConfs
<1>1. CASE call.set = "no_wait"
  <2>1. Build(conf, call) = WithLock(conf, tpb_nowait, -1)
    BY <1>1 DEF Build, WithLock, WithIsolation
  <2>2. -1 \in Int /\ 0 \in Int /\ (call.to \in Nat => call.to \in Int)
    OBVIOUS
  <2> QED BY <1>1, <2>1, <2>2, TpbTags, TwoSet
<1>2. CASE call.set = "wait" /\ call.to \in Nat
  <2>1. Build(conf, call) = WithLock(conf, tpb_wait, call.to)
    BY <1>2 DEF Build, WithLock, WithIsolation
  <2>2. -1 \in Int /\ 0 \in Int /\ (call.to \in Nat => call.to \in Int)
    OBVIOUS
  <2> QED BY <1>2, <2>1, <2>2, TpbTags, TwoSet
<1>3. CASE call.set = "wait_infinitely"
  <2>1. Build(conf, call) = WithLock(conf, tpb_wait, -1)
    BY <1>3 DEF Build, WithLock, WithIsolation
  <2>2. -1 \in Int /\ 0 \in Int /\ (call.to \in Nat => call.to \in Int)
    OBVIOUS
  <2> QED BY <1>3, <2>1, <2>2, TpbTags, TwoSet
<1>4. CASE call.set = "access" /\ call.to \in {tpb_read, tpb_write}
  <2>1. Build(conf, call) = [conf EXCEPT !.access = call.to]
    BY <1>4 DEF Build
  <2> QED BY <1>4, <2>1, TpbTags DEF TpbConfs
<1>5. CASE call.set = "isolation" /\ call.to \in {tpb_consistency, tpb_concurrency}
  <2>1. Build(conf, call) = WithIsolation(conf, call.to, 0)
    BY <1>5 DEF Build, WithLock, WithIsolation
  <2>2. -1 \in Int /\ 0 \in Int /\ (call.to \in Nat => call.to \in Int)
    OBVIOUS
  <2> QED BY <1>5, <2>1, <2>2, TpbTags, TwoSet
<1>6. CASE call.set = "read_commited" /\ call.to \in {tpb_rec_version, tpb_no_rec_version}
  <2>1. Build(conf, call) = WithIsolation(conf, tpb_read_committed, call.to)
    BY <1>6 DEF Build, WithLock, WithIsolation
  <2>2. -1 \in Int /\ 0 \in Int /\ (call.to \in Nat => call.to \in Int)
    OBVIOUS
  <2> QED BY <1>6, <2>1, <2>2, TpbTags, TwoSet
<1> QED BY <1>1, <1>2, <1>3, <1>4, <1>5, <1>6, CallIs

LEMMA BuildAgrees ==
  ASSUME NEW conf, NEW call \in AllCalls, NEW l, NEW a, NEW s, Agrees(conf, l, a, s)
  PROVE  Agrees(Build(conf, call), IF Group(call) = "lock" THEN call ELSE l,
                IF Group(call) = "access" THEN call ELSE a, IF Group(call) = "isolation" THEN call ELSE s)
<1>1. conf \in TpbConfs
  BY DEF Agrees
<1>2. Build(conf, call) \in TpbConfs
  BY <1>1, BuildIn
<1>3. CASE call.set = "no_wait"
  <2>1. Group(call) = "lock"
    BY <1>3 DEF Group
  <2>2. Build(conf, call) = [conf EXCEPT !.lock = tpb_nowait, !.timeout = -1]
    BY <1>3 DEF Build
  <2> QED BY <1>1, <1>2, <1>3, <2>1, <2>2 DEF Agrees, TpbConfs
<1>4. CASE call.set = "wait"
  <2>1. Group(call) = "lock"
    BY <1>4 DEF Group
  <2>2. Build(conf, call) = [conf EXCEPT !.lock = tpb_wait, !.timeout = call.to]
    BY <1>4 DEF Build
  <2> QED BY <1>1, <1>2, <1>4, <2>1, <2>2 DEF Agrees, TpbConfs
<1>5. CASE call.set = "wait_infinitely"
  <2>1. Group(call) = "lock"
    BY <1>5 DEF Group
  <2>2. Build(conf, call) = [conf EXCEPT !.lock = tpb_wait, !.timeout = -1]
    BY <1>5 DEF Build
  <2> QED BY <1>1, <1>2, <1>5, <2>1, <2>2 DEF Agrees, TpbConfs
<1>6. CASE call.set = "access"
  <2>1. Group(call) = "access"
    BY <1>6 DEF Group
  <2>2. Build(conf, call) = [conf EXCEPT !.access = call.to]
    BY <1>6 DEF Build
  <2> QED BY <1>1, <1>2, <1>6, <2>1, <2>2 DEF Agrees, TpbConfs
<1>7. CASE call.set = "isolation"
  <2>1. Group(call) = "isolation"
    BY <1>7 DEF Group
  <2>2. Build(conf, call) = [conf EXCEPT !.isolation = call.to, !.rec = 0]
    BY <1>7 DEF Build
  <2> QED BY <1>1, <1>2, <1>7, <2>1, <2>2 DEF Agrees, TpbConfs
<1>8. CASE call.set = "read_commited"
  <2>1. Group(call) = "isolation"
    BY <1>8 DEF Group
  <2>2. Build(conf, call) = [conf EXCEPT !.isolation = tpb_read_committed, !.rec = call.to]
    BY <1>8 DEF Build
  <2> QED BY <1>1, <1>2, <1>8, <2>1, <2>2 DEF Agrees, TpbConfs
<1> QED BY <1>3, <1>4, <1>5, <1>6, <1>7, <1>8, CallIs

LastUpto(calls, k, group, default) ==
  LET at == {i \in 1 .. k : Group(calls[i]) = group}
  IN IF at = {} THEN default ELSE calls[CHOOSE i \in at : \A j \in at : j =< i]

LEMMA LastNone ==
  ASSUME NEW calls, NEW group, NEW default
  PROVE  LastUpto(calls, 0, group, default) = default
<1>1. 1 .. 0 = {}
  OBVIOUS
<1>2. {i \in 1 .. 0 : Group(calls[i]) = group} = {}
  BY <1>1
<1> QED BY <1>2 DEF LastUpto

LEMMA LastNext ==
  ASSUME NEW calls, NEW group, NEW default, NEW k \in Nat
  PROVE  LastUpto(calls, k + 1, group, default)
           = IF Group(calls[k + 1]) = group THEN calls[k + 1] ELSE LastUpto(calls, k, group, default)
<1>1. PICK A, B : A = {i \in 1 .. k : Group(calls[i]) = group} /\ B = {i \in 1 .. k + 1 : Group(calls[i]) = group}
  OBVIOUS
<1>2. PICK n : n = k + 1
  OBVIOUS
<1>3. 1 .. n = 1 .. k \cup {n} /\ n \in Nat
  BY <1>2
<1>4. LastUpto(calls, n, group, default)
        = IF B = {} THEN default ELSE calls[CHOOSE i \in B : \A j \in B : j =< i]
  BY <1>1, <1>2 DEF LastUpto
<1>5. LastUpto(calls, k, group, default)
        = IF A = {} THEN default ELSE calls[CHOOSE i \in A : \A j \in A : j =< i]
  BY <1>1 DEF LastUpto
<1>6. CASE Group(calls[n]) = group
  <2>1. n \in B /\ B \subseteq 1 .. n
    BY <1>1, <1>2, <1>3, <1>6
  <2>2. (CHOOSE i \in B : \A j \in B : j =< i) = n
    <3>1. n \in Nat
      BY <1>3
    <3>2. B \subseteq 1 .. n
      BY <2>1
    <3>3. n \in B
      BY <2>1
    <3> QED BY <3>1, <3>2, <3>3, LastPlace
  <2> QED BY <1>2, <1>4, <1>6, <2>1, <2>2
<1>7. CASE Group(calls[n]) # group
  <2>1. B = A
    BY <1>1, <1>2, <1>3, <1>7
  <2> QED BY <1>2, <1>4, <1>5, <1>7, <2>1
<1> QED BY <1>6, <1>7

LockDefault == [set |-> "wait_infinitely"]
AccessDefault == [set |-> "access", to |-> tpb_write]
IsolationDefault == [set |-> "read_commited", to |-> tpb_no_rec_version]

\* What a builder has after k calls is what the last call of each kind says.
AgreesUpto(conf, calls, k) ==
  Agrees(conf, LastUpto(calls, k, "lock", LockDefault), LastUpto(calls, k, "access", AccessDefault),
         LastUpto(calls, k, "isolation", IsolationDefault))

LEMMA AgreesFirst ==
  ASSUME NEW calls
  PROVE  AgreesUpto(DefaultConf, calls, 0) /\ DefaultConf \in TpbConfs
<1>1. DefaultConf \in TpbConfs
  <2>1. -1 \in Int
    OBVIOUS
  <2> QED BY <2>1, TpbTags DEF DefaultConf, TpbConfs
<1>2. Agrees(DefaultConf, LockDefault, AccessDefault, IsolationDefault)
  BY <1>1 DEF Agrees, DefaultConf, LockDefault, AccessDefault, IsolationDefault
<1> QED BY <1>1, <1>2, LastNone DEF AgreesUpto

LEMMA AgreesNext ==
  ASSUME NEW calls, NEW k \in Nat, NEW conf, AgreesUpto(conf, calls, k), calls[k + 1] \in AllCalls
  PROVE  AgreesUpto(Build(conf, calls[k + 1]), calls, k + 1)
<1>1. PICK c, l, a, s : c = calls[k + 1] /\ l = LastUpto(calls, k, "lock", LockDefault)
        /\ a = LastUpto(calls, k, "access", AccessDefault) /\ s = LastUpto(calls, k, "isolation", IsolationDefault)
  OBVIOUS
<1>2. Agrees(conf, l, a, s) /\ c \in AllCalls
  BY <1>1 DEF AgreesUpto
<1>3. Agrees(Build(conf, c), IF Group(c) = "lock" THEN c ELSE l,
             IF Group(c) = "access" THEN c ELSE a, IF Group(c) = "isolation" THEN c ELSE s)
  BY <1>2, BuildAgrees
<1>4. /\ LastUpto(calls, k + 1, "lock", LockDefault) = IF Group(c) = "lock" THEN c ELSE l
      /\ LastUpto(calls, k + 1, "access", AccessDefault) = IF Group(c) = "access" THEN c ELSE a
      /\ LastUpto(calls, k + 1, "isolation", IsolationDefault) = IF Group(c) = "isolation" THEN c ELSE s
  BY <1>1, LastNext
<1> QED BY <1>1, <1>3, <1>4 DEF AgreesUpto

\* The configuration after i calls, from those before in f.
Building(calls, f, i) == IF i = 0 THEN DefaultConf ELSE Build(f[i - 1], calls[i])

LEMMA BuiltIs ==
  ASSUME NEW calls \in Seq(AllCalls)
  PROVE  \E h : Built(calls) = h[Len(calls)] /\ \A i \in 0 .. Len(calls) : h[i] = Building(calls, h, i)
<1> DEFINE n == Len(calls)
           D == 0 .. n
           V == TpbConfs
           rank == [i \in D |-> i]
           S == [p \in D \X [D -> V] |-> Building(calls, p[2], p[1])]
           Step(g) == [i \in D |-> Building(calls, g, i)]
           h == CHOOSE g : g = Step(g)
<1>1. Built(calls) = h[n]
  BY DEF Built, Building
<1>2. n \in Nat
  BY LenProperties
<1>3. DefaultConf \in V
  BY AgreesFirst
<1>4. ASSUME NEW i \in D, NEW f \in [D -> V] PROVE Building(calls, f, i) \in V
  <2>1. CASE i = 0
    BY <1>3, <2>1 DEF Building
  <2>2. CASE i # 0
    <3>1. i - 1 \in D /\ i \in 1 .. n
      BY <1>2, <2>2
    <3>2. f[i - 1] \in TpbConfs /\ calls[i] \in AllCalls
      BY <3>1
    <3>3. Build(f[i - 1], calls[i]) \in TpbConfs
      BY <3>2, BuildIn
    <3> QED BY <2>2, <3>3 DEF Building
  <2> QED BY <2>1, <2>2
<1>5. S \in [D \X [D -> V] -> V]
  <2> HIDE DEF D, V
  <2> QED BY <1>4
<1>6. ASSUME NEW d \in D, NEW f \in [D -> V], NEW g \in [D -> V],
             \A e \in D : rank[e] < rank[d] => f[e] = g[e]
      PROVE  S[<<d, f>>] = S[<<d, g>>]
  <2>1. Building(calls, f, d) = Building(calls, g, d)
    <3>1. CASE d = 0
      BY <3>1 DEF Building
    <3>2. CASE d # 0
      <4>1. d - 1 \in D /\ rank[d - 1] < rank[d]
        BY <1>2, <3>2
      <4>2. f[d - 1] = g[d - 1]
        BY <1>6, <4>1
      <4> QED BY <3>2, <4>2 DEF Building
    <3> QED BY <3>1, <3>2
  <2>2. S[<<d, f>>] = Building(calls, f, d) /\ S[<<d, g>>] = Building(calls, g, d)
    OBVIOUS
  <2> QED BY <2>1, <2>2
<1>7. rank \in [D -> 0 .. n]
  OBVIOUS
<1>8. Solved(D, V, S)
  <2>1. Lower(D, V, rank, S)
    <3> HIDE DEF D, V, rank, S
    <3> QED BY <1>6 DEF Lower
  <2> HIDE DEF D, V, rank, S, n
  <2> QED BY <1>2, <1>3, <1>5, <1>7, <2>1, Recursion
<1>9. PICK f \in [D -> V] : \A d \in D : f[d] = S[<<d, f>>]
  BY <1>8 DEF Solved
<1>10. \A d \in D : f[d] = Building(calls, f, d)
  BY <1>9
<1>11. f = Step(f)
  BY <1>10
<1>12. h = Step(h)
  BY <1>11
<1> HIDE DEF h
<1>13. \A i \in D : h[i] = Building(calls, h, i)
  BY <1>12
<1> QED BY <1>1, <1>13

\* After any calls of a transaction builder, its configuration is what the last call of
\* each kind says.
THEOREM LastCallCounts ==
  ASSUME NEW calls \in Seq(AllCalls)
  PROVE  AgreesUpto(Built(calls), calls, Len(calls))
<1>1. PICK h : Built(calls) = h[Len(calls)] /\ \A i \in 0 .. Len(calls) : h[i] = Building(calls, h, i)
  BY BuiltIs
<1>2. PICK n : n = Len(calls)
  OBVIOUS
<1>3. n \in Nat
  BY <1>2, LenProperties
<1>4. PICK T : T = {k \in 0 .. n : AgreesUpto(h[k], calls, k)}
  OBVIOUS
<1>5. 0 \in T
  <2>1. 0 \in 0 .. n
    BY <1>3
  <2>2. h[0] = DefaultConf
    BY <1>1, <1>2, <2>1 DEF Building
  <2> QED BY <1>4, <2>1, <2>2, AgreesFirst
<1>6. \A k \in 0 .. n : k < n /\ k \in T => k + 1 \in T
  <2>1. ASSUME NEW k \in 0 .. n, k < n, k \in T PROVE k + 1 \in T
    <3>1. k \in Nat /\ k + 1 \in 0 .. n /\ k + 1 \in 1 .. n /\ k + 1 # 0 /\ (k + 1) - 1 = k
      BY <1>3, <2>1
    <3>2. h[k + 1] = Build(h[k], calls[k + 1])
      BY <1>1, <1>2, <3>1 DEF Building
    <3>3. calls[k + 1] \in AllCalls
      BY <1>2, <3>1
    <3>4. AgreesUpto(h[k], calls, k)
      BY <1>4, <2>1
    <3>5. AgreesUpto(Build(h[k], calls[k + 1]), calls, k + 1)
      BY <3>1, <3>3, <3>4, AgreesNext
    <3> QED BY <1>4, <3>1, <3>2, <3>5
  <2> QED BY <2>1
<1>7. n \in T
  <2>1. \A k \in 0 .. n : k \in T
    BY <1>3, <1>5, <1>6, Counting
  <2> QED BY <1>3, <2>1
<1> QED BY <1>1, <1>2, <1>4, <1>7

\* One step of the reading of a transaction block, with what is read behind it in f.
OptionAt(bytes, i) == SubSeq(bytes, i, i + 1 + bytes[i + 1])
TpbReading(bytes, f, i) ==
  IF i > Len(bytes) THEN {}
  ELSE IF bytes[i] # tpb_lock_timeout THEN {<<bytes[i]>>} \cup f[i + 1]
  ELSE IF Len(bytes) < i + 1 \/ Len(bytes) < i + 1 + bytes[i + 1] THEN {Malformed}
  ELSE {OptionAt(bytes, i)} \cup f[i + 2 + bytes[i + 1]]
OptionsIn(bytes) ==
  {Malformed} \cup {<<bytes[i]>> : i \in 1 .. Len(bytes) + 1} \cup {OptionAt(bytes, i) : i \in 1 .. Len(bytes) + 1}

LEMMA OptionPlace ==
  ASSUME NEW n \in Nat, NEW i \in 1 .. n + 1, NEW r \in Nat, ~(n < i + 1 + r)
  PROVE  i + 2 + r \in i + 1 .. n + 1
OBVIOUS

LEMMA NextOption ==
  ASSUME NEW bytes \in Seq(Nat), NEW i \in 1 .. Len(bytes) + 1, ~(i > Len(bytes))
  PROVE  /\ i + 1 \in i + 1 .. Len(bytes) + 1
         /\ ~(Len(bytes) < i + 1 \/ Len(bytes) < i + 1 + bytes[i + 1])
              => i + 2 + bytes[i + 1] \in i + 1 .. Len(bytes) + 1
<1>1. PICK n : n = Len(bytes)
  OBVIOUS
<1>2. n \in Nat /\ i \in 1 .. n + 1 /\ ~(i > n)
  BY <1>1, LenProperties
<1>3. i + 1 \in i + 1 .. n + 1
  BY <1>2
<1>4. ASSUME ~(n < i + 1 \/ n < i + 1 + bytes[i + 1]) PROVE i + 2 + bytes[i + 1] \in i + 1 .. n + 1
  <2>1. i + 1 \in 1 .. n
    BY <1>2, <1>4
  <2>2. bytes[i + 1] \in Nat
    BY <1>1, <2>1
  <2> QED BY <1>2, <1>4, <2>2, OptionPlace
<1> QED BY <1>1, <1>3, <1>4

LEMMA BehindIn ==
  ASSUME NEW n \in Nat, NEW i \in 1 .. n + 1, NEW j \in i + 1 .. n + 1
  PROVE  j \in 1 .. n + 1
OBVIOUS

LEMMA TpbReadingIn ==
  ASSUME NEW bytes \in Seq(Nat), NEW i \in 1 .. Len(bytes) + 1,
         NEW f \in [1 .. Len(bytes) + 1 -> SUBSET OptionsIn(bytes)]
  PROVE  TpbReading(bytes, f, i) \in SUBSET OptionsIn(bytes)
<1>0. Len(bytes) \in Nat
  BY LenProperties
<1>1. CASE i > Len(bytes)
  BY <1>1 DEF TpbReading
<1>2. CASE ~(i > Len(bytes)) /\ bytes[i] # tpb_lock_timeout
  <2>1. TpbReading(bytes, f, i) = {<<bytes[i]>>} \cup f[i + 1]
    BY <1>2 DEF TpbReading
  <2>2. i + 1 \in i + 1 .. Len(bytes) + 1
    BY <1>2, NextOption
  <2>3. f[i + 1] \subseteq OptionsIn(bytes)
    BY <1>0, <2>2, BehindIn
  <2>4. <<bytes[i]>> \in OptionsIn(bytes)
    BY DEF OptionsIn
  <2> QED BY <2>1, <2>3, <2>4
<1>3. CASE /\ ~(i > Len(bytes)) /\ bytes[i] = tpb_lock_timeout
           /\ Len(bytes) < i + 1 \/ Len(bytes) < i + 1 + bytes[i + 1]
  BY <1>3 DEF TpbReading, OptionsIn
<1>4. CASE /\ ~(i > Len(bytes)) /\ bytes[i] = tpb_lock_timeout
           /\ ~(Len(bytes) < i + 1 \/ Len(bytes) < i + 1 + bytes[i + 1])
  <2>1. PICK j : j = i + 2 + bytes[i + 1]
    OBVIOUS
  <2>2. TpbReading(bytes, f, i) = {OptionAt(bytes, i)} \cup f[j]
    BY <1>4, <2>1 DEF TpbReading
  <2>3. j \in i + 1 .. Len(bytes) + 1
    BY <1>4, <2>1, NextOption
  <2>4. f[j] \subseteq OptionsIn(bytes)
    BY <1>0, <2>3, BehindIn
  <2>5. OptionAt(bytes, i) \in OptionsIn(bytes)
    BY DEF OptionsIn
  <2> QED BY <2>2, <2>4, <2>5
<1> QED BY <1>1, <1>2, <1>3, <1>4

LEMMA TpbReadingBehind ==
  ASSUME NEW bytes \in Seq(Nat), NEW i \in 1 .. Len(bytes) + 1, NEW f, NEW g,
         \A k \in i + 1 .. Len(bytes) + 1 : f[k] = g[k]
  PROVE  TpbReading(bytes, f, i) = TpbReading(bytes, g, i)
<1>1. ASSUME ~(i > Len(bytes)) PROVE f[i + 1] = g[i + 1]
  BY <1>1, NextOption
<1>2. ASSUME ~(i > Len(bytes)), ~(Len(bytes) < i + 1 \/ Len(bytes) < i + 1 + bytes[i + 1])
      PROVE  f[i + 2 + bytes[i + 1]] = g[i + 2 + bytes[i + 1]]
  <2>1. i + 2 + bytes[i + 1] \in i + 1 .. Len(bytes) + 1
    BY <1>2, NextOption
  <2> QED BY <2>1
<1> QED BY <1>1, <1>2 DEF TpbReading

LEMMA TpbIs ==
  ASSUME NEW bytes \in Seq(Nat)
  PROVE  \E h : ReadTpb(bytes) = h[1] /\ \A i \in 1 .. Len(bytes) + 1 : h[i] = TpbReading(bytes, h, i)
<1> DEFINE n == Len(bytes)
           D == 1 .. n + 1
           V == SUBSET OptionsIn(bytes)
           S == [p \in D \X [D -> V] |-> TpbReading(bytes, p[2], p[1])]
           Step(g) == [i \in D |-> TpbReading(bytes, g, i)]
           h == CHOOSE g : g = Step(g)
<1>1. ReadTpb(bytes) = h[1]
  BY DEF ReadTpb, TpbReading, OptionAt
<1>2. n \in Nat
  BY LenProperties
<1>3. S \in [D \X [D -> V] -> V]
  BY TpbReadingIn
<1>4. ASSUME NEW d \in D, NEW f \in [D -> V], NEW g \in [D -> V], \A k \in d + 1 .. n + 1 : f[k] = g[k]
      PROVE  S[<<d, f>>] = S[<<d, g>>]
  <2>1. TpbReading(bytes, f, d) = TpbReading(bytes, g, d)
    BY <1>4, TpbReadingBehind
  <2>2. S[<<d, f>>] = TpbReading(bytes, f, d) /\ S[<<d, g>>] = TpbReading(bytes, g, d)
    OBVIOUS
  <2> QED BY <2>1, <2>2
<1>5. LooksBehind(n, V, S)
  <2> HIDE DEF n, V, S
  <2> QED BY <1>4 DEF LooksBehind
<1>6. {} \in V
  OBVIOUS
<1>7. SolvedBehind(n, V, S)
  <2> HIDE DEF n, V, S
  <2> QED BY <1>2, <1>3, <1>5, <1>6, Backwards
<1>8. PICK f \in [D -> V] : \A d \in D : f[d] = S[<<d, f>>]
  BY <1>7 DEF SolvedBehind
<1>9. \A d \in D : f[d] = TpbReading(bytes, f, d)
  BY <1>8
<1>10. f = Step(f)
  BY <1>9
<1>11. h = Step(h)
  BY <1>10
<1> HIDE DEF h
<1>12. \A i \in D : h[i] = TpbReading(bytes, h, i)
  BY <1>11
<1> QED BY <1>1, <1>12

TpbReads(bytes, h) == \A i \in 1 .. Len(bytes) + 1 : h[i] = TpbReading(bytes, h, i)

\* The first four options.
LEMMA FrontRead ==
  ASSUME NEW bytes, NEW h, TpbReads(bytes, h), NEW n \in Nat, n = Len(bytes), 4 =< n,
         \A i \in 1 .. 4 : bytes[i] # tpb_lock_timeout
  PROVE  h[1] = {<<bytes[1]>>, <<bytes[2]>>, <<bytes[3]>>, <<bytes[4]>>} \cup h[5]
<1>1. ASSUME NEW i \in 1 .. 4 PROVE h[i] = {<<bytes[i]>>} \cup h[i + 1]
  <2>1. i \in 1 .. n + 1 /\ ~(i > n)
    OBVIOUS
  <2> QED BY <1>1, <2>1 DEF TpbReads, TpbReading
<1>2. /\ 1 \in 1 .. 4 /\ 2 \in 1 .. 4 /\ 3 \in 1 .. 4 /\ 4 \in 1 .. 4
      /\ 1 + 1 = 2 /\ 2 + 1 = 3 /\ 3 + 1 = 4 /\ 4 + 1 = 5
  OBVIOUS
<1>3. h[1] = {<<bytes[1]>>} \cup h[2]
  BY <1>1, <1>2
<1>4. h[2] = {<<bytes[2]>>} \cup h[3]
  BY <1>1, <1>2
<1>5. h[3] = {<<bytes[3]>>} \cup h[4]
  BY <1>1, <1>2
<1>6. h[4] = {<<bytes[4]>>} \cup h[5]
  BY <1>1, <1>2
<1> QED BY <1>3, <1>4, <1>5, <1>6

\* Nothing behind the last place, and one option at it.
LEMMA NothingRead ==
  ASSUME NEW bytes, NEW h, TpbReads(bytes, h), NEW n \in Nat, n = Len(bytes)
  PROVE  h[n + 1] = {}
<1>1. n + 1 \in 1 .. n + 1 /\ n + 1 > n
  OBVIOUS
<1> QED BY <1>1 DEF TpbReads, TpbReading

LEMMA LastRead ==
  ASSUME NEW bytes, NEW h, TpbReads(bytes, h), NEW n \in Nat, n = Len(bytes),
         n > 0, bytes[n] # tpb_lock_timeout
  PROVE  h[n] = {<<bytes[n]>>}
<1>1. n \in 1 .. n + 1 /\ ~(n > n)
  OBVIOUS
<1>2. h[n] = {<<bytes[n]>>} \cup h[n + 1]
  BY <1>1 DEF TpbReads, TpbReading
<1> QED BY <1>2, NothingRead

LEMMA NumbersAssociate == \A x, y, z \in Seq(Nat) : (x \o y) \o z = x \o (y \o z)
<1>1. ASSUME NEW x \in Seq(Nat), NEW y \in Seq(Nat), NEW z \in Seq(Nat) PROVE (x \o y) \o z = x \o (y \o z)
  <2>1. Grouped(x, y, z)
    BY Groups
  <2> QED BY <2>1 DEF Grouped
<1> QED BY <1>1

LEMMA NumbersBehind ==
  ASSUME NEW a \in Seq(Nat), NEW b \in Seq(Nat), NEW i \in 1 .. Len(b)
  PROVE  (a \o b)[Len(a) + i] = b[i]
BY BehindAt

\* The timeout with its value.
LEMMA TimeoutRead ==
  ASSUME NEW bytes, NEW h, TpbReads(bytes, h), NEW n \in Nat, n = Len(bytes), 10 =< n,
         bytes[5] = tpb_lock_timeout, bytes[6] = 4
  PROVE  h[5] = {SubSeq(bytes, 5, 10)} \cup h[11]
<1>1. /\ 5 \in 1 .. n + 1 /\ ~(5 > n) /\ 5 + 1 = 6 /\ ~(n < 6 \/ n < 6 + 4) /\ 6 + 4 = 10 /\ 5 + 2 = 7 /\ 7 + 4 = 11
  OBVIOUS
<1>2. h[5] = TpbReading(bytes, h, 5)
  BY <1>1 DEF TpbReads
<1>3. OptionAt(bytes, 5) = SubSeq(bytes, 5, 10)
  BY <1>1 DEF OptionAt
<1> QED BY <1>1, <1>2, <1>3 DEF TpbReading

\* What may be at the end of a transaction block.
EndOptions(r) == {<<>>, <<r>>}
EndSet(last, r) == IF last = <<>> THEN {} ELSE {<<r>>}
LEMMA LastIs ==
  ASSUME NEW r \in Nat, NEW last \in EndOptions(r)
  PROVE  /\ last \in Seq(Nat)
         /\ (last = <<>> /\ Len(last) = 0) \/ (last = <<r>> /\ Len(last) = 1 /\ last[1] = r /\ last # <<>>)
<1>1. CASE last = <<>>
  BY <1>1, EmptySeq
<1>2. CASE last = <<r>>
  <2>1. <<r>> \in Seq(Nat) /\ Len(<<r>>) = 1 /\ <<r>>[1] = r /\ <<r>> # <<>>
    BY OneIn
  <2> QED BY <1>2, <2>1
<1> QED BY <1>1, <1>2 DEF EndOptions

LEMMA EndPart ==
  ASSUME NEW a \in Seq(Nat), NEW r \in Nat, r # tpb_lock_timeout, NEW last \in EndOptions(r),
         NEW bytes, bytes = a \o last, NEW h, TpbReads(bytes, h)
  PROVE  h[Len(a) + 1] = EndSet(last, r)
<1>1. PICK k : k = Len(a)
  OBVIOUS
<1>2. k \in Nat
  BY <1>1, LenProperties
<1>3. CASE last = <<>>
  <2>1. bytes = a
    BY <1>3, ConcatEmptySeq
  <2>2. k = Len(bytes)
    BY <1>1, <2>1
  <2>3. h[k + 1] = {}
    BY <1>2, <2>2, NothingRead
  <2> QED BY <1>1, <1>3, <2>3 DEF EndSet
<1>4. CASE last = <<r>>
  <2>1. last \in Seq(Nat) /\ Len(last) = 1 /\ last[1] = r /\ last # <<>>
    BY <1>4, LastIs
  <2>2. PICK n : n = k + 1
    OBVIOUS
  <2>3. Len(bytes) = n
    <3>1. Len(bytes) = Len(a) + Len(last)
      BY <2>1, Behind
    <3> QED BY <1>1, <2>1, <2>2, <3>1
  <2>4. n \in Nat /\ n > 0
    BY <1>2, <2>2
  <2>5. bytes[n] = r
    <3>1. 1 \in 1 .. Len(last)
      BY <2>1
    <3>2. (a \o last)[Len(a) + 1] = last[1]
      BY <2>1, <3>1, BehindAt
    <3> QED BY <1>1, <2>1, <2>2, <3>2
  <2>6. h[n] = {<<bytes[n]>>}
    <3>1. n = Len(bytes)
      BY <2>3
    <3>2. bytes[n] # tpb_lock_timeout
      BY <2>5
    <3> QED BY <2>4, <3>1, <3>2, LastRead, ZenonT(30)
  <2> QED BY <1>1, <2>1, <2>2, <2>4, <2>5, <2>6 DEF EndSet
<1> QED BY <1>3, <1>4 DEF EndOptions

LEMMA FrontKept ==
  ASSUME NEW p \in Seq(Nat), Len(p) = 4, NEW q \in Seq(Nat)
  PROVE  \A i \in 1 .. 4 : (p \o q)[i] = p[i]
<1>1. ASSUME NEW i \in 1 .. 4 PROVE (p \o q)[i] = p[i]
  <2>1. i \in 1 .. Len(p) + Len(q) /\ i <= Len(p)
    BY LenProperties
  <2> QED BY <2>1, ConcatProperties
<1> QED BY <1>1

FirstFour(p) == {<<p[1]>>, <<p[2]>>, <<p[3]>>, <<p[4]>>}

\* The front of a block, whatever is behind it.
LEMMA FrontPart ==
  ASSUME NEW p \in Seq(Nat), Len(p) = 4, \A i \in 1 .. 4 : p[i] # tpb_lock_timeout, NEW q \in Seq(Nat),
         NEW bytes, bytes = p \o q, NEW h, TpbReads(bytes, h)
  PROVE  h[1] = FirstFour(p) \cup h[5]
<1>1. \A i \in 1 .. 4 : bytes[i] = p[i]
  BY FrontKept
<1>2. PICK n : n = Len(bytes)
  OBVIOUS
<1>3. n \in Nat /\ 4 =< n
  <2>1. Len(bytes) = Len(p) + Len(q)
    BY Behind
  <2>2. Len(q) \in Nat
    BY LenProperties
  <2> QED BY <1>2, <2>1, <2>2
<1>4. \A i \in 1 .. 4 : bytes[i] # tpb_lock_timeout
  BY <1>1
<1>5. h[1] = {<<bytes[1]>>, <<bytes[2]>>, <<bytes[3]>>, <<bytes[4]>>} \cup h[5]
  BY <1>2, <1>3, <1>4, FrontRead
<1>6. bytes[1] = p[1] /\ bytes[2] = p[2] /\ bytes[3] = p[3] /\ bytes[4] = p[4]
  <2>1. 1 \in 1 .. 4 /\ 2 \in 1 .. 4 /\ 3 \in 1 .. 4 /\ 4 \in 1 .. 4
    OBVIOUS
  <2> QED BY <1>1, <2>1
<1> QED BY <1>5, <1>6 DEF FirstFour

\* A block without a timeout, and one with it.
LEMMA TpbShort ==
  ASSUME NEW p \in Seq(Nat), Len(p) = 4, \A i \in 1 .. 4 : p[i] # tpb_lock_timeout,
         NEW r \in Nat, r # tpb_lock_timeout, NEW last \in EndOptions(r)
  PROVE  ReadTpb(p \o last) = FirstFour(p) \cup EndSet(last, r)
<1>1. PICK bytes : bytes = p \o last
  OBVIOUS
<1>2. last \in Seq(Nat)
  BY LastIs
<1>3. bytes \in Seq(Nat)
  BY <1>1, <1>2, ConcatProperties
<1>4. PICK h : ReadTpb(bytes) = h[1] /\ TpbReads(bytes, h)
  BY <1>3, TpbIs DEF TpbReads
<1>5. h[1] = FirstFour(p) \cup h[5]
  BY <1>1, <1>2, <1>4, FrontPart
<1>6. h[Len(p) + 1] = EndSet(last, r)
  BY <1>1, <1>4, EndPart
<1>7. Len(p) + 1 = 5
  OBVIOUS
<1> QED BY <1>1, <1>4, <1>5, <1>6, <1>7

FrontShape(p) == p \in Seq(Nat) /\ Len(p) = 4 /\ \A i \in 1 .. 4 : p[i] # tpb_lock_timeout
TimeShape(t) == t \in Seq(Nat) /\ Len(t) = 6 /\ t[1] = tpb_lock_timeout /\ t[2] = 4
LEMMA TpbLong ==
  ASSUME NEW p, FrontShape(p), NEW t, TimeShape(t),
         NEW r \in Nat, r # tpb_lock_timeout, NEW last \in EndOptions(r)
  PROVE  ReadTpb((p \o t) \o last) = FirstFour(p) \cup {t} \cup EndSet(last, r)
<1>0. SUFFICES ASSUME p \in Seq(Nat), Len(p) = 4, \A i \in 1 .. 4 : p[i] # tpb_lock_timeout,
                      t \in Seq(Nat), Len(t) = 6, t[1] = tpb_lock_timeout, t[2] = 4
               PROVE  ReadTpb((p \o t) \o last) = FirstFour(p) \cup {t} \cup EndSet(last, r)
  BY DEF FrontShape, TimeShape
<1> USE <1>0
<1>1. PICK pt, bytes, tl : pt = p \o t /\ bytes = pt \o last /\ tl = t \o last
  OBVIOUS
<1>2. last \in Seq(Nat) /\ Len(last) \in Nat
  BY LastIs, LenProperties
<1>3. pt \in Seq(Nat) /\ Len(pt) = 10
  <2>1. p \o t \in Seq(Nat)
    BY ConcatProperties
  <2>2. Len(p \o t) = Len(p) + Len(t)
    BY ConcatProperties
  <2>3. Len(p) + Len(t) = 10
    OBVIOUS
  <2> QED BY <1>1, <2>1, <2>2, <2>3
<1>4. bytes \in Seq(Nat)
  BY <1>1, <1>2, <1>3, ConcatProperties
<1>5. tl \in Seq(Nat)
  BY <1>1, <1>2, ConcatProperties
<1>6. bytes = p \o tl
  <2>2. (p \o t) \o last = p \o (t \o last)
    BY <1>2, NumbersAssociate
  <2> QED BY <1>1, <2>2
<1>7. PICK h : ReadTpb(bytes) = h[1] /\ TpbReads(bytes, h)
  BY <1>4, TpbIs DEF TpbReads
<1>8. h[1] = FirstFour(p) \cup h[5]
  BY <1>5, <1>6, <1>7, FrontPart
<1>9. h[Len(pt) + 1] = EndSet(last, r)
  <2>1. pt \in Seq(Nat)
    BY <1>3
  <2>2. TpbReads(pt \o last, h)
    BY <1>1, <1>7
  <2>3. \A a \in Seq(Nat) : TpbReads(a \o last, h) => h[Len(a) + 1] = EndSet(last, r)
    BY EndPart
  <2> QED BY <2>1, <2>2, <2>3
<1>10. Len(pt) + 1 = 11
  BY <1>3
<1>11. SubSeq(bytes, 5, 10) = t
  <2>1. SubSeq(p \o (t \o last), Len(p) + 1, Len(p) + Len(t)) = t
    BY <1>2, CutBetween
  <2>2. Len(p) + 1 = 5 /\ Len(p) + Len(t) = 10
    OBVIOUS
  <2> QED BY <1>1, <1>6, <2>1, <2>2
<1>12. bytes[5] = tpb_lock_timeout /\ bytes[6] = 4
  <2>1. ASSUME NEW i \in 1 .. 2 PROVE (p \o t)[4 + i] = t[i] /\ bytes[4 + i] = (p \o t)[4 + i]
    <3>1. i \in 1 .. Len(t)
      OBVIOUS
    <3>2. (p \o t)[Len(p) + i] = t[i]
      BY <3>1, NumbersBehind
    <3>3. 4 + i \in 1 .. Len(pt) + Len(last) /\ 4 + i <= Len(pt)
      BY <1>2, <1>3
    <3>4. (pt \o last)[4 + i] = pt[4 + i]
      BY <1>2, <1>3, <3>3, ConcatProperties
    <3> QED BY <1>1, <3>2, <3>4
  <2>2. 1 \in 1 .. 2 /\ 2 \in 1 .. 2 /\ 4 + 1 = 5 /\ 4 + 2 = 6
    OBVIOUS
  <2> QED BY <2>1, <2>2
<1>13. h[5] = {t} \cup h[11]
  <2>1. PICK n : n = Len(bytes)
    OBVIOUS
  <2>2. n \in Nat /\ 10 =< n
    <3>1. Len(bytes) = Len(pt) + Len(last)
      BY <1>1, <1>2, <1>3, ConcatProperties
    <3> QED BY <1>2, <1>3, <2>1, <3>1
  <2>3. h[5] = {SubSeq(bytes, 5, 10)} \cup h[11]
    BY <1>7, <1>12, <2>1, <2>2, TimeoutRead
  <2> QED BY <1>11, <2>3
<1> QED BY <1>1, <1>7, <1>8, <1>9, <1>10, <1>13

\* LastNext for each kind.
LEMMA LastsNext ==
  ASSUME NEW calls, NEW m \in Nat, NEW c, c = calls[m + 1]
  PROVE  /\ LastUpto(calls, m + 1, "lock", LockDefault)
              = IF Group(c) = "lock" THEN c ELSE LastUpto(calls, m, "lock", LockDefault)
         /\ LastUpto(calls, m + 1, "access", AccessDefault)
              = IF Group(c) = "access" THEN c ELSE LastUpto(calls, m, "access", AccessDefault)
         /\ LastUpto(calls, m + 1, "isolation", IsolationDefault)
              = IF Group(c) = "isolation" THEN c ELSE LastUpto(calls, m, "isolation", IsolationDefault)
BY LastNext

\* The last call of each kind is of its kind.
LEMMA LastsAre ==
  ASSUME NEW calls \in Seq(AllCalls)
  PROVE  /\ LastUpto(calls, Len(calls), "lock", LockDefault) \in LockCalls
         /\ LastUpto(calls, Len(calls), "access", AccessDefault) \in AccessCalls
         /\ LastUpto(calls, Len(calls), "isolation", IsolationDefault) \in IsolationCalls
<1> DEFINE Kinds(k) == /\ LastUpto(calls, k, "lock", LockDefault) \in LockCalls
                       /\ LastUpto(calls, k, "access", AccessDefault) \in AccessCalls
                       /\ LastUpto(calls, k, "isolation", IsolationDefault) \in IsolationCalls
<1>1. PICK n : n = Len(calls)
  OBVIOUS
<1>2. n \in Nat
  BY <1>1, LenProperties
<1>3. Kinds(0)
  <2>1. LockDefault \in LockCalls /\ AccessDefault \in AccessCalls /\ IsolationDefault \in IsolationCalls
    BY DEF LockDefault, AccessDefault, IsolationDefault, LockCalls, AccessCalls, IsolationCalls
  <2> QED BY <2>1, LastNone
<1>4. ASSUME NEW k \in 0 .. n, k < n, Kinds(k) PROVE Kinds(k + 1)
  <2>1. k \in Nat /\ k + 1 \in 1 .. n
    BY <1>2, <1>4
  <2>2. PICK c : c = calls[k + 1]
    OBVIOUS
  <2>3. c \in AllCalls
    BY <1>1, <2>1, <2>2
  <2>4. /\ LastUpto(calls, k + 1, "lock", LockDefault)
             = IF Group(c) = "lock" THEN c ELSE LastUpto(calls, k, "lock", LockDefault)
        /\ LastUpto(calls, k + 1, "access", AccessDefault)
             = IF Group(c) = "access" THEN c ELSE LastUpto(calls, k, "access", AccessDefault)
        /\ LastUpto(calls, k + 1, "isolation", IsolationDefault)
             = IF Group(c) = "isolation" THEN c ELSE LastUpto(calls, k, "isolation", IsolationDefault)
    BY <2>1, <2>2, LastsNext
  <2>5. /\ Group(c) = "lock" => c \in LockCalls
        /\ Group(c) = "access" => c \in AccessCalls
        /\ Group(c) = "isolation" => c \in IsolationCalls
    BY <2>3, GroupIs
  <2> QED BY <1>4, <2>4, <2>5
<1> HIDE DEF Kinds
<1>5. PICK T : T = {k \in 0 .. n : Kinds(k)}
  OBVIOUS
<1>6. 0 \in T
  BY <1>2, <1>3, <1>5
<1>7. \A k \in 0 .. n : k < n /\ k \in T => k + 1 \in T
  <2>1. ASSUME NEW k \in 0 .. n, k < n, k \in T PROVE k + 1 \in T
    <3>1. k + 1 \in 0 .. n
      BY <1>2, <2>1
    <3> QED BY <1>4, <1>5, <2>1, <3>1
  <2> QED BY <2>1
<1>8. n \in T
  <2>1. \A k \in 0 .. n : k \in T
    BY <1>2, <1>6, <1>7, Counting
  <2> QED BY <1>2, <2>1
<1>9. Kinds(Len(calls))
  BY <1>1, <1>5, <1>8
<1> QED BY <1>9 DEF Kinds

LEMMA TpbNaturals ==
  /\ tpb_consistency \in Nat /\ tpb_concurrency \in Nat /\ tpb_version3 \in Nat /\ tpb_wait \in Nat
  /\ tpb_nowait \in Nat /\ tpb_read \in Nat /\ tpb_write \in Nat /\ tpb_read_committed \in Nat
  /\ tpb_rec_version \in Nat /\ tpb_no_rec_version \in Nat /\ tpb_lock_timeout \in Nat
BY SMT DEF tpb_consistency, tpb_concurrency, tpb_version3, tpb_wait, tpb_nowait, tpb_read, tpb_write,
  tpb_read_committed, tpb_rec_version, tpb_no_rec_version, tpb_lock_timeout

\* The isolation of a configuration: its tag, and the one behind it.
LockTag(l) == IF l.set = "no_wait" THEN tpb_nowait ELSE tpb_wait
IsolationTag(s) == IF s.set = "isolation" THEN s.to ELSE tpb_read_committed
Timeout(l) == IF l.set = "wait" THEN <<tpb_lock_timeout, 4>> \o le(l.to, 4) ELSE <<>>
Version(s) == IF s.set = "isolation" THEN <<>> ELSE <<s.to>>

LEMMA LockIs ==
  ASSUME NEW l \in LockCalls
  PROVE  l.set = "wait" => l.to \in Nat
BY DEF LockCalls

LEMMA IsolationIs ==
  ASSUME NEW s \in IsolationCalls
  PROVE  /\ s.to \in Nat /\ s.to # tpb_lock_timeout
         /\ s.set = "isolation" => s.to # tpb_read_committed
         /\ IsolationTag(s) \in Nat /\ IsolationTag(s) # tpb_lock_timeout
         /\ IsolationTag(s) = tpb_read_committed <=> s.set # "isolation"
         /\ Version(s) \in EndOptions(s.to)
<1>1. \/ s.set = "isolation" /\ s.to \in {tpb_consistency, tpb_concurrency}
      \/ s.set = "read_commited" /\ s.to \in {tpb_rec_version, tpb_no_rec_version}
  BY DEF IsolationCalls
<1>2. CASE s.set = "isolation" /\ s.to \in {tpb_consistency, tpb_concurrency}
  BY <1>2, TpbTags, TpbNaturals DEF IsolationTag, Version, EndOptions
<1>3. CASE s.set = "read_commited" /\ s.to \in {tpb_rec_version, tpb_no_rec_version}
  <2>1. s.set # "isolation"
    BY <1>3
  <2> QED BY <1>3, <2>1, TpbTags, TpbNaturals DEF IsolationTag, Version, EndOptions
<1> QED BY <1>1, <1>2, <1>3

LEMMA TpbOf ==
  ASSUME NEW conf, NEW l \in LockCalls, NEW a \in AccessCalls, NEW s \in IsolationCalls, Agrees(conf, l, a, s)
  PROVE  tpb(conf) = (<<tpb_version3, IsolationTag(s), a.to, LockTag(l)>> \o Timeout(l)) \o Version(s)
<1>1. /\ conf.isolation = IsolationTag(s) /\ conf.access = a.to /\ conf.lock = LockTag(l)
      /\ conf.timeout = IF l.set = "wait" THEN l.to ELSE -1
      /\ s.set # "isolation" => conf.rec = s.to
  BY DEF Agrees, IsolationTag, LockTag
<1>2. (IF conf.timeout # -1 THEN <<tpb_lock_timeout, 4>> \o le(conf.timeout, 4) ELSE <<>>) = Timeout(l)
  <2>1. CASE l.set = "wait"
    <3>1. conf.timeout = l.to /\ l.to \in Nat
      BY <1>1, <2>1, LockIs
    <3>2. conf.timeout # -1
      BY <3>1
    <3> QED BY <2>1, <3>1, <3>2 DEF Timeout
  <2>2. CASE l.set # "wait"
    <3>1. conf.timeout = -1
      BY <1>1, <2>2
    <3> QED BY <2>2, <3>1 DEF Timeout
  <2> QED BY <2>1, <2>2
<1>3. (IF conf.isolation = tpb_read_committed THEN <<conf.rec>> ELSE <<>>) = Version(s)
  BY <1>1, IsolationIs DEF Version
<1> QED BY <1>1, <1>2, <1>3 DEF tpb


\* What the server reads of a transaction block.
LEMMA TpbRead ==
  ASSUME NEW l \in LockCalls, NEW a \in AccessCalls, NEW s \in IsolationCalls,
         NEW p, p = <<tpb_version3, IsolationTag(s), a.to, LockTag(l)>>
  PROVE  ReadTpb((p \o Timeout(l)) \o Version(s))
           = FirstFour(p) \cup (IF l.set = "wait" THEN {Timeout(l)} ELSE {}) \cup EndSet(Version(s), s.to)
<1>1. /\ s.to \in Nat /\ s.to # tpb_lock_timeout /\ Version(s) \in EndOptions(s.to)
      /\ IsolationTag(s) \in Nat /\ IsolationTag(s) # tpb_lock_timeout
  BY IsolationIs
<1>2. a.to \in {tpb_read, tpb_write}
  BY DEF AccessCalls
<1>3. LockTag(l) \in {tpb_wait, tpb_nowait}
  BY DEF LockTag
<1>4. p \in Seq(Nat) /\ Len(p) = 4 /\ \A i \in 1 .. 4 : p[i] # tpb_lock_timeout
  <2>1. PICK x1, x2, x3, x4 : x1 = tpb_version3 /\ x2 = IsolationTag(s) /\ x3 = a.to /\ x4 = LockTag(l)
    OBVIOUS
  <2>2. x1 \in Nat /\ x2 \in Nat /\ x3 \in Nat /\ x4 \in Nat
    BY <1>1, <1>2, <1>3, <2>1, TpbNaturals
  <2>3. PICK w : w = tpb_lock_timeout
    OBVIOUS
  <2>4. x1 # w /\ x2 # w /\ x3 # w /\ x4 # w
    BY <1>1, <1>2, <1>3, <2>1, <2>3, TpbTags
  <2>5. p = <<x1, x2, x3, x4>>
    BY <2>1
  <2>6. p \in Seq(Nat) /\ Len(p) = 4
    BY <2>2, <2>5
  <2>7. p[1] = x1 /\ p[2] = x2 /\ p[3] = x3 /\ p[4] = x4
    BY <2>5
  <2>8. \A i \in 1 .. 4 : i = 1 \/ i = 2 \/ i = 3 \/ i = 4
    OBVIOUS
  <2>9. \A i \in 1 .. 4 : p[i] # w
    BY <2>4, <2>7, <2>8
  <2> QED BY <2>3, <2>6, <2>9
<1>5. CASE l.set = "wait"
  <2>1. PICK t, b, f : t = Timeout(l) /\ b = le(l.to, 4) /\ f = <<tpb_lock_timeout, 4>>
    OBVIOUS
  <2>2. t = f \o b
    BY <1>5, <2>1 DEF Timeout
  <2>3. b \in [1 .. 4 -> Byte]
    <3>1. 4 \in {1, 2, 4} /\ l.to \in Nat
      BY <1>5, LockIs
    <3> QED BY <2>1, <3>1, LeIs
  <2>4. b \in Seq(Nat) /\ Len(b) = 4
    <3>1. b \in [1 .. 4 -> Nat]
      <4>1. \A x \in Byte : x \in Nat
        BY ByteIs
      <4> QED BY <2>3, <4>1
    <3>2. 4 \in Nat
      OBVIOUS
    <3> QED BY <3>1, <3>2, TableIs
  <2>5. f \in Seq(Nat) /\ Len(f) = 2 /\ f[1] = tpb_lock_timeout /\ f[2] = 4
    BY <2>1, TpbNaturals
  <2>6. t \in Seq(Nat) /\ Len(t) = 6
    <3>1. f \o b \in Seq(Nat)
      BY <2>4, <2>5, ConcatProperties
    <3>2. Len(f \o b) = Len(f) + Len(b)
      BY <2>4, <2>5, ConcatProperties
    <3> QED BY <2>2, <2>4, <2>5, <3>1, <3>2
  <2>7. t[1] = tpb_lock_timeout /\ t[2] = 4
    <3>1. \A i \in 1 .. 2 : (f \o b)[i] = f[i]
      <4>1. ASSUME NEW i \in 1 .. 2 PROVE (f \o b)[i] = f[i]
        <5>1. i \in 1 .. Len(f) + Len(b) /\ i <= Len(f)
          BY <2>4, <2>5
        <5> QED BY <2>4, <2>5, <5>1, ConcatProperties
      <4> QED BY <4>1
    <3>2. 1 \in 1 .. 2 /\ 2 \in 1 .. 2
      OBVIOUS
    <3> QED BY <2>2, <2>5, <3>1, <3>2
  <2>8. PICK last, r : last = Version(s) /\ r = s.to
    OBVIOUS
  <2>9. r \in Nat /\ r # tpb_lock_timeout /\ last \in EndOptions(r)
    BY <1>1, <2>8
  <2>10. ReadTpb((p \o t) \o last) = FirstFour(p) \cup {t} \cup EndSet(last, r)
    <3>1. FrontShape(p)
      BY <1>4 DEF FrontShape
    <3>2. TimeShape(t)
      BY <2>6, <2>7 DEF TimeShape
    <3>3. \A x, y : FrontShape(x) /\ TimeShape(y)
             => ReadTpb((x \o y) \o last) = FirstFour(x) \cup {y} \cup EndSet(last, r)
      BY <2>9, TpbLong
    <3> QED BY <3>1, <3>2, <3>3
  <2> QED BY <1>5, <2>1, <2>8, <2>10
<1>6. CASE l.set # "wait"
  <2>1. Timeout(l) = <<>>
    BY <1>6 DEF Timeout
  <2>2. p \o <<>> = p
    BY <1>4, ConcatEmptySeq
  <2>3. PICK last, r : last = Version(s) /\ r = s.to
    OBVIOUS
  <2>4. r \in Nat /\ r # tpb_lock_timeout /\ last \in EndOptions(r)
    BY <1>1, <2>3
  <2>5. ReadTpb(p \o last) = FirstFour(p) \cup EndSet(last, r)
    BY <1>4, <2>4, TpbShort
  <2> QED BY <1>6, <2>1, <2>2, <2>3, <2>5
<1> QED BY <1>5, <1>6

OptionsOf(l, a, s) == {<<tpb_version3>>, <<a.to>>} \cup {<<LockTag(l)>>}
           \cup (IF l.set = "wait" THEN {<<tpb_lock_timeout, 4>> \o le(l.to, 4)} ELSE {})
           \cup (IF s.set = "isolation" THEN {<<s.to>>} ELSE {<<tpb_read_committed>>, <<s.to>>})

LEMMA AskedIs ==
  ASSUME NEW calls \in Seq(AllCalls)
  PROVE  Asked(calls) = OptionsOf(LastUpto(calls, Len(calls), "lock", LockDefault),
                                  LastUpto(calls, Len(calls), "access", AccessDefault),
                                  LastUpto(calls, Len(calls), "isolation", IsolationDefault))
<1>0. PICK l, a, s : /\ l = LastUpto(calls, Len(calls), "lock", LockDefault)
                     /\ a = LastUpto(calls, Len(calls), "access", AccessDefault)
                     /\ s = LastUpto(calls, Len(calls), "isolation", IsolationDefault)
  OBVIOUS
<1>1. DOMAIN calls = 1 .. Len(calls)
  BY LenProperties
<1>2. \A g, d : LastOf(calls, g, d) = LastUpto(calls, Len(calls), g, d)
  BY <1>1 DEF LastOf, LastUpto
<1>3. /\ LastOf(calls, "lock", [set |-> "wait_infinitely"]) = l
      /\ LastOf(calls, "access", [set |-> "access", to |-> tpb_write]) = a
      /\ LastOf(calls, "isolation", [set |-> "read_commited", to |-> tpb_no_rec_version]) = s
  BY <1>0, <1>2 DEF LockDefault, AccessDefault, IsolationDefault
<1>4. Asked(calls) = OptionsOf(l, a, s)
  BY <1>3 DEF Asked, LockTag, OptionsOf
<1> QED BY <1>0, <1>4

\* After any calls of a builder, whatever the timeout, the server reads in the
\* transaction block the options of the last call of each kind, and no other.
THEOREM TransactionSurvives ==
  ASSUME NEW calls \in Seq(AllCalls)
  PROVE  ReadTpb(tpb(Built(calls))) = Asked(calls)
<1>1. PICK l, a, s : /\ l = LastUpto(calls, Len(calls), "lock", LockDefault)
                     /\ a = LastUpto(calls, Len(calls), "access", AccessDefault)
                     /\ s = LastUpto(calls, Len(calls), "isolation", IsolationDefault)
  OBVIOUS
<1>2. l \in LockCalls /\ a \in AccessCalls /\ s \in IsolationCalls
  BY <1>1, LastsAre
<1>3. PICK conf, p : conf = Built(calls) /\ p = <<tpb_version3, IsolationTag(s), a.to, LockTag(l)>>
  OBVIOUS
<1>4. Agrees(conf, l, a, s)
  BY <1>1, <1>3, LastCallCounts DEF AgreesUpto
<1>5. tpb(conf) = (p \o Timeout(l)) \o Version(s)
  BY <1>2, <1>3, <1>4, TpbOf
<1>6. ReadTpb(tpb(conf))
        = FirstFour(p) \cup (IF l.set = "wait" THEN {Timeout(l)} ELSE {}) \cup EndSet(Version(s), s.to)
  BY <1>2, <1>3, <1>5, TpbRead
<1>7. FirstFour(p) = {<<tpb_version3>>, <<IsolationTag(s)>>, <<a.to>>, <<LockTag(l)>>}
  <2>1. p[1] = tpb_version3 /\ p[2] = IsolationTag(s) /\ p[3] = a.to /\ p[4] = LockTag(l)
    BY <1>3
  <2> QED BY <2>1 DEF FirstFour
<1>8. EndSet(Version(s), s.to) = IF s.set = "isolation" THEN {} ELSE {<<s.to>>}
  <2>1. <<s.to>> # <<>>
    OBVIOUS
  <2> QED BY <2>1 DEF EndSet, Version
<1>9. (IF l.set = "wait" THEN {Timeout(l)} ELSE {})
        = IF l.set = "wait" THEN {<<tpb_lock_timeout, 4>> \o le(l.to, 4)} ELSE {}
  BY DEF Timeout
<1>10. Asked(calls) = {<<tpb_version3>>, <<a.to>>} \cup {<<LockTag(l)>>}
           \cup (IF l.set = "wait" THEN {<<tpb_lock_timeout, 4>> \o le(l.to, 4)} ELSE {})
           \cup (IF s.set = "isolation" THEN {<<s.to>>} ELSE {<<tpb_read_committed>>, <<s.to>>})
  <2>1. Asked(calls) = OptionsOf(l, a, s)
    BY <1>1, AskedIs
  <2> QED BY <2>1 DEF OptionsOf
<1>11. PICK W : W = IF l.set = "wait" THEN {<<tpb_lock_timeout, 4>> \o le(l.to, 4)} ELSE {}
  OBVIOUS
<1>12. CASE s.set = "isolation"
  <2>1. IsolationTag(s) = s.to
    BY <1>12 DEF IsolationTag
  <2>2. ReadTpb(tpb(conf)) = {<<tpb_version3>>, <<s.to>>, <<a.to>>, <<LockTag(l)>>} \cup W
    BY <1>6, <1>7, <1>8, <1>9, <1>11, <1>12, <2>1
  <2>3. Asked(calls) = {<<tpb_version3>>, <<a.to>>} \cup {<<LockTag(l)>>} \cup W \cup {<<s.to>>}
    BY <1>10, <1>11, <1>12
  <2> QED BY <1>3, <2>2, <2>3
<1>13. CASE s.set # "isolation"
  <2>1. IsolationTag(s) = tpb_read_committed
    BY <1>13 DEF IsolationTag
  <2>2. ReadTpb(tpb(conf)) = {<<tpb_version3>>, <<tpb_read_committed>>, <<a.to>>, <<LockTag(l)>>} \cup W \cup {<<s.to>>}
    BY <1>6, <1>7, <1>8, <1>9, <1>11, <1>13, <2>1
  <2>3. Asked(calls) = {<<tpb_version3>>, <<a.to>>} \cup {<<LockTag(l)>>} \cup W
                       \cup {<<tpb_read_committed>>, <<s.to>>}
    BY <1>10, <1>11, <1>13
  <2> QED BY <1>3, <2>2, <2>3
<1> QED BY <1>12, <1>13

---------------------------------------------------------------------------
(* Affected rows                                                           *)

\* One count in the server's answer, and what it may say.
CountTags == {select_count, insert_count, update_count, delete_count}
Counts == CountTags \X {n \in Nat : n < Limit(4)}
CountEntry(c) == <<c[1], 4, 0>> \o le(c[2], 4)
CountShape(e, c) ==
  /\ e \in Seq(Byte) /\ Len(e) = 7
  /\ e[1] = c[1] /\ e[2] = 4 /\ e[3] = 0
  /\ \A j \in 1 .. 4 : e[3 + j] = le(c[2], 4)[j]

LEMMA BytesBehind ==
  ASSUME NEW a \in Seq(Byte), NEW b \in Seq(Byte), NEW i \in 1 .. Len(b)
  PROVE  (a \o b)[Len(a) + i] = b[i]
BY BehindAt

LEMMA CountTagsAre ==
  /\ CountTags \subseteq Byte
  /\ isc_info_end \notin CountTags
  /\ 0 \in Byte /\ 4 \in Byte /\ isc_info_end \in Byte /\ isc_info_sql_records \in Byte
  /\ isc_info_end # isc_info_sql_records
BY SMT DEF CountTags, select_count, insert_count, update_count, delete_count, isc_info_end,
  isc_info_sql_records, Byte

LEMMA CountIs ==
  ASSUME NEW c \in Counts
  PROVE  c[1] \in CountTags /\ c[2] \in Nat /\ c[2] < Limit(4)
BY DEF Counts

LEMMA CountEntryIs ==
  ASSUME NEW c \in Counts
  PROVE  CountShape(CountEntry(c), c)
<1>1. PICK x, f, b, e : x = c[1] /\ f = <<x, 4, 0>> /\ b = le(c[2], 4) /\ e = f \o b
  OBVIOUS
<1>2. x \in Byte /\ 4 \in Byte /\ 0 \in Byte
  BY <1>1, CountIs, CountTagsAre
<1>3. f \in Seq(Byte) /\ Len(f) = 3 /\ f[1] = x /\ f[2] = 4 /\ f[3] = 0
  BY <1>1, <1>2
<1>4. b \in Seq(Byte) /\ Len(b) = 4
  <2>1. 4 \in {1, 2, 4}
    OBVIOUS
  <2> QED BY <1>1, <2>1, CountIs, LeBytes
<1>5. e \in Seq(Byte)
  BY <1>1, <1>3, <1>4, ConcatProperties
<1>6. Len(e) = Len(f) + Len(b)
  BY <1>1, <1>3, <1>4, ConcatProperties
<1>7. Len(e) = 7
  BY <1>3, <1>4, <1>6
<1>8. \A j \in 1 .. 4 : e[3 + j] = b[j]
  <2>1. \A j \in 1 .. Len(b) : (f \o b)[Len(f) + j] = b[j]
    <3>1. f \in Seq(Byte) /\ b \in Seq(Byte)
      BY <1>3, <1>4
    <3> QED BY <3>1, BytesBehind
  <2> QED BY <1>1, <1>3, <1>4, <2>1
<1>9. \A j \in 1 .. 3 : e[j] = f[j]
  <2>1. ASSUME NEW j \in 1 .. 3 PROVE e[j] = f[j]
    <3>1. j \in 1 .. Len(f) + Len(b) /\ j <= Len(f)
      BY <1>3, <1>4
    <3> QED BY <1>1, <1>3, <1>4, <3>1, ConcatProperties
  <2> QED BY <2>1
<1>10. e[1] = x /\ e[2] = 4 /\ e[3] = 0
  <2>1. 1 \in 1 .. 3 /\ 2 \in 1 .. 3 /\ 3 \in 1 .. 3
    OBVIOUS
  <2> QED BY <1>3, <1>9, <2>1
<1>11. e = CountEntry(c)
  BY <1>1 DEF CountEntry
<1> QED BY <1>1, <1>5, <1>7, <1>8, <1>10, <1>11 DEF CountShape

\* Pieces of seven bytes one behind the other: where each of their bytes is.
Sevens(q) == \A i \in 1 .. Len(q) : Len(q[i]) = 7
Laid(s, q, k) ==
  /\ s \in Seq(Byte) /\ Len(s) = 7 * k
  /\ \A i \in 1 .. k : \A j \in 1 .. 7 : s[7 * (i - 1) + j] = q[i][j]

LEMMA SevenPlaces ==
  ASSUME NEW k \in Nat
  PROVE  /\ \A i \in 1 .. k, j \in 1 .. 7 : 7 * (i - 1) + j \in 1 .. 7 * k
         /\ 7 * ((k + 1) - 1) = 7 * k
         /\ 7 * k + 7 = 7 * (k + 1)
BY SMT

LEMMA LaidNext ==
  ASSUME NEW q \in Seq(Seq(Byte)), NEW k \in Nat, NEW s, Laid(s, q, k),
         NEW x \in Seq(Byte), x = q[k + 1], Len(x) = 7
  PROVE  Laid(s \o x, q, k + 1)
<1>1. s \in Seq(Byte) /\ Len(s) = 7 * k
  BY DEF Laid
<1>2. s \o x \in Seq(Byte)
  BY <1>1, Behind
<1>3. Len(s \o x) = 7 * (k + 1)
  <2>1. Len(s \o x) = Len(s) + Len(x)
    BY <1>1, Behind
  <2> QED BY <1>1, <2>1, SevenPlaces
<1>4. ASSUME NEW i \in 1 .. k + 1, NEW j \in 1 .. 7 PROVE (s \o x)[7 * (i - 1) + j] = q[i][j]
  <2>1. CASE i = k + 1
    <3>1. j \in 1 .. Len(x)
      OBVIOUS
    <3>2. (s \o x)[7 * k + j] = x[j]
      <4>1. (s \o x)[Len(s) + j] = x[j]
        <5>1. Lies(s, x, j)
          BY <1>1, <3>1, LiesBehind
        <5> QED BY <5>1 DEF Lies
      <4> QED BY <1>1, <4>1
    <3>3. 7 * (i - 1) = 7 * k
      BY <2>1
    <3> QED BY <2>1, <3>2, <3>3
  <2>2. CASE i # k + 1
    <3>1. i \in 1 .. k
      BY <2>2
    <3>2. PICK p : p = 7 * (i - 1) + j
      OBVIOUS
    <3>3. p \in 1 .. 7 * k
      BY <3>1, <3>2, SevenPlaces
    <3>4. p \in 1 .. Len(s) + Len(x) /\ p <= Len(s)
      BY <1>1, <3>3
    <3>5. (s \o x)[p] = s[p]
      BY <1>1, <3>4, ConcatProperties
    <3>6. s[p] = q[i][j]
      BY <3>1, <3>2 DEF Laid
    <3> QED BY <3>2, <3>5, <3>6
  <2> QED BY <2>1, <2>2
<1> QED BY <1>2, <1>3, <1>4 DEF Laid

LEMMA LaidOut ==
  ASSUME NEW q \in Seq(Seq(Byte)), Sevens(q)
  PROVE  Laid(FlattenSeq(q), q, Len(q))
<1> DEFINE n == Len(q)
           T == {k \in 0 .. n : Laid(FlattenSeq(Upto(q, k)), q, k)}
<1>1. n \in Nat
  BY LenProperties
<1>2. 0 \in T
  <2>1. 0 \in 0 .. n
    BY <1>1
  <2>2. Upto(q, 0) = << >>
    BY <2>1, UptoIs
  <2>3. FlattenSeq(Upto(q, 0)) = << >>
    BY <2>2, FlattenNothing
  <2>4. << >> \in Seq(Byte) /\ Len(<< >>) = 0 /\ 7 * 0 = 0
    BY EmptySeq
  <2>5. Laid(<< >>, q, 0)
    BY <2>4 DEF Laid
  <2> QED BY <2>1, <2>3, <2>5
<1>3. ASSUME NEW k \in 0 .. n, k < n, k \in T PROVE k + 1 \in T
  <2>1. PICK u, x : u = Upto(q, k) /\ x = q[k + 1]
    OBVIOUS
  <2>2. u \in Seq(Seq(Byte)) /\ x \in Seq(Byte) /\ Upto(q, k + 1) = Append(u, x)
    BY <1>3, <2>1, UptoIs
  <2>3. k \in Nat /\ k + 1 \in 1 .. n /\ k + 1 \in 0 .. n
    BY <1>1, <1>3
  <2>4. Len(x) = 7
    BY <2>1, <2>3 DEF Sevens
  <2>5. Laid(FlattenSeq(u), q, k)
    BY <1>3, <2>1
  <2>6. FlattenSeq(Append(u, x)) = FlattenSeq(u) \o x
    BY <2>2, FlattenAppend
  <2>7. Laid(FlattenSeq(u) \o x, q, k + 1)
    BY <2>1, <2>2, <2>3, <2>4, <2>5, LaidNext
  <2> QED BY <2>2, <2>3, <2>6, <2>7
<1>4. n \in T
  <2>1. \A k \in 0 .. n : k < n /\ k \in T => k + 1 \in T
    BY <1>3
  <2>2. n \in 0 .. n
    BY <1>1
  <2> HIDE DEF T, n
  <2>3. \A k \in 0 .. n : k \in T
    BY <1>1, <1>2, <2>1, Counting
  <2> QED BY <2>2, <2>3
<1>5. Upto(q, n) = q
  <2>1. n \in 0 .. n
    BY <1>1
  <2> QED BY <2>1, UptoIs
<1> QED BY <1>4, <1>5

\* One step of the adding up, with the sum of what is behind it in f.
RowsLen(bytes, native, i) == IF native THEN FromLe(SubSeq(bytes, i + 1, i + 2)) ELSE 4
RowsCount(bytes, native, i) ==
  IF bytes[i] = select_count THEN 0
  ELSE FromLe(SubSeq(bytes, i + 3, i + 2 + RowsLen(bytes, native, i)))
NoEntry(bytes, native, i) ==
  \/ bytes[i] \notin CountTags
  \/ Len(bytes) < i + 2 \/ RowsLen(bytes, native, i) \notin {1, 2, 4}
  \/ Len(bytes) < i + 2 + RowsLen(bytes, native, i)
AddingUp(bytes, native, f, i) ==
  IF i > Len(bytes) THEN InvalidRows
  ELSE IF bytes[i] = isc_info_end THEN 0
  ELSE IF NoEntry(bytes, native, i) \/ f[i + 3 + RowsLen(bytes, native, i)] = InvalidRows
       THEN InvalidRows
  ELSE RowsCount(bytes, native, i) + f[i + 3 + RowsLen(bytes, native, i)]

LEMMA NextRows ==
  ASSUME NEW n \in Nat, NEW i \in 1 .. n + 1, NEW len \in {1, 2, 4}, ~(n < i + 2 + len)
  PROVE  i + 3 + len \in i + 1 .. n + 1 /\ i + 2 \in 1 .. n /\ (i + 2) + 1 = i + 3
         /\ (i + 2) + len =< n
OBVIOUS

LEMMA NextEntry ==
  ASSUME NEW bytes \in Seq(Byte), NEW native, NEW i \in 1 .. Len(bytes) + 1, ~NoEntry(bytes, native, i)
  PROVE  /\ i + 3 + RowsLen(bytes, native, i) \in i + 1 .. Len(bytes) + 1
         /\ RowsCount(bytes, native, i) \in Nat
<1>1. PICK n, len : n = Len(bytes) /\ len = RowsLen(bytes, native, i)
  OBVIOUS
<1>2. n \in Nat
  BY <1>1, LenProperties
<1>3. len \in {1, 2, 4} /\ ~(n < i + 2 + len)
  BY <1>1 DEF NoEntry
<1>4. i + 3 + len \in i + 1 .. n + 1 /\ i + 2 \in 1 .. n /\ (i + 2) + 1 = i + 3 /\ (i + 2) + len =< n
  BY <1>1, <1>2, <1>3, NextRows
<1>5. RowsCount(bytes, native, i) = IF bytes[i] = select_count THEN 0 ELSE LengthAt(bytes, len, i + 2)
  BY <1>1, <1>4 DEF RowsCount, LengthAt
<1>6. LengthAt(bytes, len, i + 2) \in Nat
  BY <1>1, <1>3, <1>4, LengthIs
<1> QED BY <1>1, <1>4, <1>5, <1>6

LEMMA AddingIn ==
  ASSUME NEW bytes \in Seq(Byte), NEW native, NEW i \in 1 .. Len(bytes) + 1,
         NEW f \in [1 .. Len(bytes) + 1 -> Int]
  PROVE  AddingUp(bytes, native, f, i) \in Int
<1>1. InvalidRows \in Int /\ 0 \in Int
  BY DEF InvalidRows
<1>2. CASE i > Len(bytes)
  BY <1>1, <1>2 DEF AddingUp
<1>3. CASE bytes[i] = isc_info_end
  BY <1>1, <1>3 DEF AddingUp
<1>4. CASE NoEntry(bytes, native, i)
  BY <1>1, <1>4 DEF AddingUp
<1>5. CASE ~NoEntry(bytes, native, i)
  <2>1. PICK c, p, n : c = RowsCount(bytes, native, i) /\ p = i + 3 + RowsLen(bytes, native, i) /\ n = Len(bytes)
    OBVIOUS
  <2>2. c \in Nat /\ p \in i + 1 .. n + 1
    BY <1>5, <2>1, NextEntry
  <2>3. n \in Nat /\ i \in 1 .. n + 1
    BY <2>1, LenProperties
  <2>4. p \in 1 .. n + 1
    BY <2>2, <2>3, BehindIn
  <2>5. f[p] \in Int
    BY <2>1, <2>4
  <2>6. c + f[p] \in Int
    BY <2>2, <2>5
  <2> QED BY <1>1, <2>1, <2>6 DEF AddingUp
<1> QED BY <1>4, <1>5

LEMMA AddingBehind ==
  ASSUME NEW bytes \in Seq(Byte), NEW native, NEW i \in 1 .. Len(bytes) + 1, NEW f, NEW g,
         \A k \in i + 1 .. Len(bytes) + 1 : f[k] = g[k]
  PROVE  AddingUp(bytes, native, f, i) = AddingUp(bytes, native, g, i)
<1>1. ASSUME ~NoEntry(bytes, native, i)
      PROVE  f[i + 3 + RowsLen(bytes, native, i)] = g[i + 3 + RowsLen(bytes, native, i)]
  BY <1>1, NextEntry
<1>2. CASE NoEntry(bytes, native, i)
  BY <1>2 DEF AddingUp
<1>3. CASE ~NoEntry(bytes, native, i)
  BY <1>1, <1>3 DEF AddingUp
<1> QED BY <1>2, <1>3

LEMMA AddUpIs ==
  ASSUME NEW bytes \in Seq(Byte), NEW native
  PROVE  \E h : /\ AddUp(bytes, native) = h[1]
                /\ \A i \in 1 .. Len(bytes) + 1 : h[i] = AddingUp(bytes, native, h, i)
<1> DEFINE n == Len(bytes)
           D == 1 .. n + 1
           S == [p \in D \X [D -> Int] |-> AddingUp(bytes, native, p[2], p[1])]
           Step(g) == [i \in D |-> AddingUp(bytes, native, g, i)]
           h == CHOOSE g : g = Step(g)
<1>1. AddUp(bytes, native) = h[1]
  BY DEF AddUp, AddingUp, NoEntry, RowsLen, RowsCount, CountTags
<1>2. n \in Nat
  BY LenProperties
<1>3. S \in [D \X [D -> Int] -> Int]
  BY AddingIn
<1>4. ASSUME NEW d \in D, NEW f \in [D -> Int], NEW g \in [D -> Int], \A k \in d + 1 .. n + 1 : f[k] = g[k]
      PROVE  S[<<d, f>>] = S[<<d, g>>]
  <2>1. AddingUp(bytes, native, f, d) = AddingUp(bytes, native, g, d)
    BY <1>4, AddingBehind
  <2>2. S[<<d, f>>] = AddingUp(bytes, native, f, d) /\ S[<<d, g>>] = AddingUp(bytes, native, g, d)
    OBVIOUS
  <2> QED BY <2>1, <2>2
<1>5. LooksBehind(n, Int, S)
  <2> HIDE DEF n, S
  <2> QED BY <1>4 DEF LooksBehind
<1>6. 0 \in Int
  OBVIOUS
<1>7. SolvedBehind(n, Int, S)
  <2> HIDE DEF n, S
  <2> QED BY <1>2, <1>3, <1>5, <1>6, Backwards
<1>8. PICK f \in [D -> Int] : \A d \in D : f[d] = S[<<d, f>>]
  BY <1>7 DEF SolvedBehind
<1>9. \A d \in D : f[d] = AddingUp(bytes, native, f, d)
  BY <1>8
<1>10. f = Step(f)
  BY <1>9
<1>11. h = Step(h)
  BY <1>10
<1> HIDE DEF h
<1>12. \A i \in D : h[i] = AddingUp(bytes, native, h, i)
  BY <1>11
<1> QED BY <1>1, <1>12

\* The rows a count adds, and those all of them say were changed.
Amount(c) == IF c[1] = select_count THEN 0 ELSE c[2]
Changed(counts) ==
  LET changed[i \in 0..Len(counts)] ==
        IF i = 0 THEN 0
        ELSE changed[i - 1] + IF counts[i][1] = select_count THEN 0 ELSE counts[i][2]
  IN changed[Len(counts)]
Changing(counts, f, i) == IF i = 0 THEN 0 ELSE f[i - 1] + Amount(counts[i])

LEMMA AmountIs == ASSUME NEW c \in Counts PROVE Amount(c) \in Nat
BY CountIs DEF Amount

LEMMA ChangedIs ==
  ASSUME NEW counts \in Seq(Counts)
  PROVE  \E h : Changed(counts) = h[Len(counts)] /\ \A i \in 0 .. Len(counts) : h[i] = Changing(counts, h, i)
<1> DEFINE n == Len(counts)
           D == 0 .. n
           rank == [i \in D |-> i]
           S == [p \in D \X [D -> Nat] |-> Changing(counts, p[2], p[1])]
           Step(g) == [i \in D |-> Changing(counts, g, i)]
           h == CHOOSE g : g = Step(g)
<1>1. Changed(counts) = h[n]
  BY DEF Changed, Changing, Amount
<1>2. n \in Nat
  BY LenProperties
<1>3. 0 \in Nat
  OBVIOUS
<1>4. ASSUME NEW i \in D, NEW f \in [D -> Nat] PROVE Changing(counts, f, i) \in Nat
  <2>1. CASE i = 0
    BY <1>3, <2>1 DEF Changing
  <2>2. CASE i # 0
    <3>1. i - 1 \in D /\ i \in 1 .. n
      BY <1>2, <2>2
    <3>2. f[i - 1] \in Nat /\ counts[i] \in Counts
      BY <3>1
    <3>3. Amount(counts[i]) \in Nat
      BY <3>2, AmountIs
    <3>4. f[i - 1] + Amount(counts[i]) \in Nat
      BY <3>2, <3>3
    <3> QED BY <2>2, <3>4 DEF Changing
  <2> QED BY <2>1, <2>2
<1>5. S \in [D \X [D -> Nat] -> Nat]
  <2> HIDE DEF D
  <2> QED BY <1>4
<1>6. ASSUME NEW d \in D, NEW f \in [D -> Nat], NEW g \in [D -> Nat],
             \A e \in D : rank[e] < rank[d] => f[e] = g[e]
      PROVE  S[<<d, f>>] = S[<<d, g>>]
  <2>1. Changing(counts, f, d) = Changing(counts, g, d)
    <3>1. CASE d = 0
      BY <3>1 DEF Changing
    <3>2. CASE d # 0
      <4>1. d - 1 \in D /\ rank[d - 1] < rank[d]
        BY <1>2, <3>2
      <4>2. f[d - 1] = g[d - 1]
        BY <1>6, <4>1
      <4> QED BY <3>2, <4>2 DEF Changing
    <3> QED BY <3>1, <3>2
  <2>2. S[<<d, f>>] = Changing(counts, f, d) /\ S[<<d, g>>] = Changing(counts, g, d)
    OBVIOUS
  <2> QED BY <2>1, <2>2
<1>7. rank \in [D -> 0 .. n]
  OBVIOUS
<1>8. Solved(D, Nat, S)
  <2>1. Lower(D, Nat, rank, S)
    <3> HIDE DEF D, rank, S
    <3> QED BY <1>6 DEF Lower
  <2> HIDE DEF D, rank, S, n
  <2> QED BY <1>2, <1>3, <1>5, <1>7, <2>1, Recursion
<1>9. PICK f \in [D -> Nat] : \A d \in D : f[d] = S[<<d, f>>]
  BY <1>8 DEF Solved
<1>10. \A d \in D : f[d] = Changing(counts, f, d)
  BY <1>9
<1>11. f = Step(f)
  BY <1>10
<1>12. h = Step(h)
  BY <1>11
<1> HIDE DEF h
<1>13. \A i \in D : h[i] = Changing(counts, h, i)
  BY <1>12
<1> QED BY <1>1, <1>13

\* What is changed is a number, after each count.
LEMMA ChangedNat ==
  ASSUME NEW counts \in Seq(Counts), NEW h, \A i \in 0 .. Len(counts) : h[i] = Changing(counts, h, i)
  PROVE  \A k \in 0 .. Len(counts) : h[k] \in Nat
<1>1. PICK n, T : n = Len(counts) /\ T = {k \in 0 .. n : h[k] \in Nat}
  OBVIOUS
<1>2. n \in Nat
  BY <1>1, LenProperties
<1>3. 0 \in T
  <2>1. 0 \in 0 .. n
    BY <1>2
  <2> QED BY <1>1, <2>1 DEF Changing
<1>4. \A k \in 0 .. n : k < n /\ k \in T => k + 1 \in T
  <2>1. ASSUME NEW k \in 0 .. n, k < n, k \in T PROVE k + 1 \in T
    <3>1. k + 1 \in 0 .. n /\ k + 1 \in 1 .. n /\ k + 1 # 0 /\ (k + 1) - 1 = k
      BY <1>2, <2>1
    <3>2. h[k + 1] = h[k] + Amount(counts[k + 1])
      BY <1>1, <3>1 DEF Changing
    <3>3. counts[k + 1] \in Counts
      BY <1>1, <3>1
    <3>4. Amount(counts[k + 1]) \in Nat /\ h[k] \in Nat
      BY <1>1, <2>1, <3>3, AmountIs
    <3>5. h[k + 1] \in Nat
      BY <3>2, <3>4
    <3> QED BY <1>1, <3>1, <3>5
  <2> QED BY <2>1
<1>5. \A k \in 0 .. n : k \in T
  BY <1>2, <1>3, <1>4, Counting
<1> QED BY <1>1, <1>5

\* A count is read for what it says, by either client.
LEMMA EntryPart ==
  ASSUME NEW bytes \in Seq(Byte), NEW i \in 1 .. Len(bytes), i + 6 < Len(bytes), NEW c \in Counts,
         \A j \in 1 .. 7 : bytes[i + j - 1] = CountEntry(c)[j]
  PROVE  /\ bytes[i] = c[1]
         /\ FromLe(SubSeq(bytes, i + 1, i + 2)) = 4
         /\ FromLe(SubSeq(bytes, i + 3, i + 6)) = c[2]
<1>1. PICK e : e = CountEntry(c)
  OBVIOUS
<1>2. CountShape(e, c)
  BY <1>1, CountEntryIs
<1>3. e[1] = c[1] /\ e[2] = 4 /\ e[3] = 0 /\ \A j \in 1 .. 4 : e[3 + j] = le(c[2], 4)[j]
  BY <1>2 DEF CountShape
<1>4. Len(bytes) \in Nat
  BY LenProperties
<1>5. \A j \in 1 .. 7 : bytes[i + j - 1] = e[j]
  BY <1>1
<1>6. bytes[i] = e[1]
  <2>1. 1 \in 1 .. 7 /\ i + 1 - 1 = i
    OBVIOUS
  <2> QED BY <1>5, <2>1
<1>7. FromLe(SubSeq(bytes, i + 1, i + 2)) = 4
  <2>1. PICK b : b = SubSeq(bytes, i + 1, i + 2)
    OBVIOUS
  <2>2. i + 1 \in Nat /\ i + 2 \in Int /\ i + 1 > 0 /\ i + 2 =< Len(bytes)
    BY <1>4
  <2>3. /\ Len(b) = IF i + 1 =< i + 2 THEN (i + 2) - (i + 1) + 1 ELSE 0
        /\ \A k \in 1 .. (i + 2) - (i + 1) + 1 : b[k] = bytes[(i + 1) + k - 1]
    BY <2>1, <2>2, PartOf
  <2>4. Len(b) = 2 /\ b[1] = bytes[i + 2 - 1] /\ b[2] = bytes[i + 3 - 1]
    <3>1. (i + 2) - (i + 1) + 1 = 2 /\ i + 1 =< i + 2 /\ 1 \in 1 .. 2 /\ 2 \in 1 .. 2
          /\ (i + 1) + 1 - 1 = i + 2 - 1 /\ (i + 1) + 2 - 1 = i + 3 - 1
      OBVIOUS
    <3> QED BY <2>3, <3>1
  <2>5. 2 \in 1 .. 7 /\ 3 \in 1 .. 7
    OBVIOUS
  <2>6. b[1] = 4 /\ b[2] = 0
    BY <1>3, <1>5, <2>4, <2>5
  <2>7. FromLe(b) = 4 + 256 * 0 + 0
    BY <2>4, <2>6 DEF FromLe
  <2> QED BY <2>1, <2>7
<1>8. SubSeq(bytes, i + 3, i + 6) = le(c[2], 4)
  <2>1. PICK b, l : b = SubSeq(bytes, i + 3, i + 6) /\ l = le(c[2], 4)
    OBVIOUS
  <2>2. i + 3 \in Nat /\ i + 6 \in Int /\ i + 3 > 0 /\ i + 6 =< Len(bytes)
    BY <1>4
  <2>3. /\ b \in Seq(Byte)
        /\ Len(b) = IF i + 3 =< i + 6 THEN (i + 6) - (i + 3) + 1 ELSE 0
        /\ \A k \in 1 .. (i + 6) - (i + 3) + 1 : b[k] = bytes[(i + 3) + k - 1]
    BY <2>1, <2>2, PartOf
  <2>4. (i + 6) - (i + 3) + 1 = 4 /\ i + 3 =< i + 6
    OBVIOUS
  <2>5. Len(b) = 4 /\ \A k \in 1 .. 4 : b[k] = bytes[(i + 3) + k - 1]
    BY <2>3, <2>4
  <2>6. l \in Seq(Byte) /\ Len(l) = 4
    <3>1. 4 \in {1, 2, 4}
      OBVIOUS
    <3> QED BY <2>1, <3>1, CountIs, LeBytes
  <2>7. ASSUME NEW k \in 1 .. 4 PROVE b[k] = l[k]
    <3>1. 3 + k \in 1 .. 7 /\ i + (3 + k) - 1 = (i + 3) + k - 1
      OBVIOUS
    <3>2. bytes[(i + 3) + k - 1] = e[3 + k]
      BY <1>5, <3>1
    <3> QED BY <1>3, <2>1, <2>5, <3>2
  <2> QED BY <2>1, <2>3, <2>5, <2>6, <2>7, SeqEqual
<1>9. FromLe(le(c[2], 4)) = c[2]
  <2>1. 4 \in {1, 2, 4}
    OBVIOUS
  <2> QED BY <2>1, CountIs, LeReads
<1> QED BY <1>3, <1>6, <1>7, <1>8, <1>9

\* The places in an entry.
FourMore(i) == i + 2 + 4 = i + 6 /\ i + 3 + 4 = i + 7 /\ 4 \in {1, 2, 4}
LEMMA FourMoreIs ==
  ASSUME NEW i \in Int
  PROVE  FourMore(i)
BY DEF FourMore

LEMMA EntryAdds ==
  ASSUME NEW bytes \in Seq(Byte), NEW native \in BOOLEAN, NEW i \in 1 .. Len(bytes), i + 6 < Len(bytes),
         NEW c \in Counts, \A j \in 1 .. 7 : bytes[i + j - 1] = CountEntry(c)[j],
         NEW f, f[i + 7] \in Nat
  PROVE  AddingUp(bytes, native, f, i) = Amount(c) + f[i + 7]
<1>1. /\ bytes[i] = c[1]
      /\ FromLe(SubSeq(bytes, i + 1, i + 2)) = 4
      /\ FromLe(SubSeq(bytes, i + 3, i + 6)) = c[2]
  BY EntryPart
<1>2. RowsLen(bytes, native, i) = 4
  BY <1>1 DEF RowsLen
<1>3. i + 2 + 4 = i + 6 /\ i + 3 + 4 = i + 7 /\ 4 \in {1, 2, 4}
  <2>1. FourMore(i)
    BY FourMoreIs
  <2> QED BY <2>1 DEF FourMore
<1>4. RowsCount(bytes, native, i) = Amount(c)
  BY <1>1, <1>2, <1>3 DEF RowsCount, Amount
<1>5. bytes[i] \in CountTags /\ bytes[i] # isc_info_end
  BY <1>1, CountIs, CountTagsAre
<1>6. Len(bytes) \in Nat
  BY LenProperties
<1>7. ~(Len(bytes) < i + 2) /\ ~(Len(bytes) < i + 6) /\ ~(i > Len(bytes))
  <2>1. PICK n : n = Len(bytes)
    OBVIOUS
  <2>2. n \in Nat /\ i \in Nat /\ i + 6 < n
    BY <1>6, <2>1
  <2>3. ~(n < i + 2) /\ ~(n < i + 6) /\ ~(i > n)
    BY <2>2
  <2> QED BY <2>1, <2>3
<1>8. ~NoEntry(bytes, native, i)
  BY <1>2, <1>3, <1>5, <1>7 DEF NoEntry
<1>9. f[i + 7] # InvalidRows
  <2>1. \A x \in Nat : x # -1
    OBVIOUS
  <2> QED BY <2>1 DEF InvalidRows
<1> QED BY <1>2, <1>3, <1>4, <1>5, <1>7, <1>8, <1>9 DEF AddingUp

LEMMA SevenSteps ==
  ASSUME NEW n \in Nat, NEW k \in 0 .. n, k < n
  PROVE  /\ n - (k + 1) \in 0 .. n /\ (n - (k + 1)) + 1 = n - k
         /\ (n - (k + 1)) + 1 \in 1 .. n
         /\ 7 * (n - (k + 1)) + 1 \in 1 .. 7 * n + 1
         /\ (7 * (n - (k + 1)) + 1) + 6 < 7 * n + 1
         /\ (7 * (n - (k + 1)) + 1) + 7 = 7 * (n - k) + 1
OBVIOUS

LEMMA SevenPlus ==
  ASSUME NEW m \in Nat, NEW j \in 1 .. 7
  PROVE  (7 * m + 1) + j - 1 = 7 * ((m + 1) - 1) + j
OBVIOUS

LEMMA TakeOff ==
  ASSUME NEW a \in Nat, NEW b \in Nat, NEW c \in Nat, NEW d \in Nat, NEW s, b = a + c, b + d = s
  PROVE  c + d \in Nat /\ a + (c + d) = s
OBVIOUS

\* Counts one behind the other, and their end.
CountsLaid(bytes, counts) ==
  /\ bytes \in Seq(Byte) /\ Len(bytes) = 7 * Len(counts) + 1
  /\ bytes[7 * Len(counts) + 1] = isc_info_end
  /\ \A k \in 1 .. Len(counts) : \A j \in 1 .. 7 :
       bytes[7 * (k - 1) + j] = CountEntry(counts[k])[j]

\* Either client adds up all of them.
LEMMA AddedUp ==
  ASSUME NEW counts \in Seq(Counts), NEW bytes, CountsLaid(bytes, counts), NEW native \in BOOLEAN
  PROVE  AddUp(bytes, native) = Changed(counts)
<1>1. PICK n : n = Len(counts)
  OBVIOUS
<1>2. n \in Nat
  BY <1>1, LenProperties
<1>3. /\ bytes \in Seq(Byte) /\ Len(bytes) = 7 * n + 1
      /\ bytes[7 * n + 1] = isc_info_end
      /\ \A k \in 1 .. n : \A j \in 1 .. 7 : bytes[7 * (k - 1) + j] = CountEntry(counts[k])[j]
  BY <1>1 DEF CountsLaid
<1>4. PICK h : /\ AddUp(bytes, native) = h[1]
               /\ \A i \in 1 .. Len(bytes) + 1 : h[i] = AddingUp(bytes, native, h, i)
  BY <1>3, AddUpIs
<1>5. PICK g : Changed(counts) = g[n] /\ \A i \in 0 .. n : g[i] = Changing(counts, g, i)
  BY <1>1, ChangedIs
<1>6. \A k \in 0 .. n : g[k] \in Nat
  BY <1>1, <1>5, ChangedNat
<1>7. PICK T : T = {k \in 0 .. n : h[7 * (n - k) + 1] \in Nat /\ g[n - k] + h[7 * (n - k) + 1] = g[n]}
  OBVIOUS
<1>8. 0 \in T
  <2>1. 0 \in 0 .. n /\ n - 0 = n /\ n \in 0 .. n
    BY <1>2
  <2>2. 7 * n + 1 \in 1 .. Len(bytes) + 1 /\ ~(7 * n + 1 > Len(bytes))
    BY <1>2, <1>3
  <2>3. h[7 * n + 1] = 0
    BY <1>3, <1>4, <2>2 DEF AddingUp
  <2>4. g[n] \in Nat
    BY <1>6, <2>1
  <2>5. g[n] + 0 = g[n] /\ 0 \in Nat
    BY <2>4
  <2>6. h[7 * (n - 0) + 1] = 0 /\ g[n - 0] = g[n]
    BY <2>1, <2>3
  <2> QED BY <1>7, <2>1, <2>5, <2>6
<1>9. \A k \in 0 .. n : k < n /\ k \in T => k + 1 \in T
  <2>1. ASSUME NEW k \in 0 .. n, k < n, k \in T PROVE k + 1 \in T
    <3>1. PICK m, i : m = n - (k + 1) /\ i = 7 * m + 1
      OBVIOUS
    <3>2. /\ m \in 0 .. n /\ m + 1 = n - k /\ m + 1 \in 1 .. n
          /\ i \in 1 .. 7 * n + 1 /\ i + 6 < 7 * n + 1 /\ i + 7 = 7 * (n - k) + 1
      BY <1>2, <2>1, <3>1, SevenSteps
    <3>3. i \in 1 .. Len(bytes) /\ i \in 1 .. Len(bytes) + 1 /\ i + 6 < Len(bytes) /\ m \in Nat
          /\ k + 1 \in 0 .. n /\ m + 1 \in 0 .. n /\ m + 1 # 0 /\ (m + 1) - 1 = m
      BY <1>2, <1>3, <2>1, <3>2
    <3>4. PICK c : c = counts[m + 1]
      OBVIOUS
    <3>5. c \in Counts
      BY <1>1, <3>2, <3>4
    <3>6. \A j \in 1 .. 7 : bytes[i + j - 1] = CountEntry(c)[j]
      <4>1. ASSUME NEW j \in 1 .. 7 PROVE bytes[i + j - 1] = CountEntry(c)[j]
        <5>1. i + j - 1 = 7 * ((m + 1) - 1) + j
          BY <3>1, <3>3, SevenPlus
        <5>2. bytes[7 * ((m + 1) - 1) + j] = CountEntry(counts[m + 1])[j]
          BY <1>3, <3>2
        <5> QED BY <3>4, <5>1, <5>2
      <4> QED BY <4>1
    <3>7. h[i + 7] \in Nat /\ g[m + 1] + h[i + 7] = g[n]
      BY <1>7, <2>1, <3>2
    <3>8. AddingUp(bytes, native, h, i) = Amount(c) + h[i + 7]
      BY <1>3, <3>3, <3>5, <3>6, <3>7, EntryAdds, ZenonT(30)
    <3>9. h[i] = Amount(c) + h[i + 7]
      BY <1>4, <3>3, <3>8
    <3>10. g[m + 1] = g[m] + Amount(c)
      BY <1>5, <3>3, <3>4 DEF Changing
    <3>11. g[m] \in Nat /\ g[m + 1] \in Nat /\ Amount(c) \in Nat
      BY <1>6, <3>2, <3>3, <3>5, AmountIs
    <3>12. PICK a, b, x, d : a = g[m] /\ b = g[m + 1] /\ x = Amount(c) /\ d = h[i + 7]
      OBVIOUS
    <3>13. x + d \in Nat /\ a + (x + d) = g[n]
      BY <3>7, <3>10, <3>11, <3>12, TakeOff
    <3>14. h[i] \in Nat /\ g[m] + h[i] = g[n]
      BY <3>9, <3>12, <3>13
    <3> QED BY <1>7, <3>1, <3>3, <3>14
  <2> QED BY <2>1
<1>10. n \in T
  <2>1. \A k \in 0 .. n : k \in T
    BY <1>2, <1>8, <1>9, Counting
  <2>2. n \in 0 .. n
    BY <1>2
  <2> QED BY <2>1, <2>2
<1>11. h[1] \in Nat /\ g[0] + h[1] = g[n]
  <2>1. n - n = 0 /\ 7 * 0 + 1 = 1
    BY <1>2
  <2>2. h[7 * (n - n) + 1] \in Nat /\ g[n - n] + h[7 * (n - n) + 1] = g[n]
    BY <1>7, <1>10
  <2> QED BY <2>1, <2>2
<1>12. g[0] = 0
  <2>1. 0 \in 0 .. n
    BY <1>2
  <2> QED BY <1>5, <2>1 DEF Changing
<1>13. h[1] = g[n]
  BY <1>11, <1>12
<1> QED BY <1>4, <1>5, <1>13

\* What the server counted is laid out, with its end behind it.
LEMMA CountedIs ==
  ASSUME NEW counts \in Seq(Counts)
  PROVE  Counted(counts) \in Seq(Byte) /\ CountsLaid(Counted(counts) \o <<isc_info_end>>, counts)
<1>1. PICK q, s, n : q = [i \in DOMAIN counts |-> CountEntry(counts[i])] /\ s = FlattenSeq(q) /\ n = Len(counts)
  OBVIOUS
<1>2. n \in Nat /\ DOMAIN counts = 1 .. n
  BY <1>1, LenProperties
<1>3. Counted(counts) = s
  BY <1>1 DEF Counted, CountEntry
<1>4. \A i \in 1 .. n : CountShape(q[i], counts[i]) /\ q[i] = CountEntry(counts[i])
  <2>1. ASSUME NEW i \in 1 .. n PROVE CountShape(q[i], counts[i]) /\ q[i] = CountEntry(counts[i])
    <3>1. counts[i] \in Counts
      BY <1>1, <1>2, <2>1
    <3>2. q[i] = CountEntry(counts[i])
      BY <1>1, <1>2, <2>1
    <3> QED BY <3>1, <3>2, CountEntryIs
  <2> QED BY <2>1
<1>5. q \in Seq(Seq(Byte)) /\ Len(q) = n
  <2>1. q \in [1 .. n -> Seq(Byte)]
    BY <1>1, <1>2, <1>4 DEF CountShape
  <2> QED BY <1>2, <2>1, TableIs
<1>6. Sevens(q)
  BY <1>4, <1>5 DEF Sevens, CountShape
<1>7. Laid(s, q, n)
  BY <1>1, <1>5, <1>6, LaidOut
<1>8. s \in Seq(Byte) /\ Len(s) = 7 * n /\ \A i \in 1 .. n : \A j \in 1 .. 7 : s[7 * (i - 1) + j] = q[i][j]
  BY <1>7 DEF Laid
<1>9. PICK e, b : e = <<isc_info_end>> /\ b = s \o e
  OBVIOUS
<1>10. e \in Seq(Byte) /\ Len(e) = 1 /\ e[1] = isc_info_end
  BY <1>9, CountTagsAre
<1>11. b \in Seq(Byte) /\ Len(b) = 7 * n + 1 /\ b[7 * n + 1] = isc_info_end
  <2>1. s \o e \in Seq(Byte) /\ Len(s \o e) = Len(s) + Len(e) /\ \A i \in 1 .. Len(e) : (s \o e)[Len(s) + i] = e[i]
    <3>1. s \in Seq(Byte) /\ e \in Seq(Byte)
      BY <1>8, <1>10
    <3> QED BY <3>1, Behind
  <2>2. 1 \in 1 .. Len(e)
    BY <1>10
  <2> QED BY <1>8, <1>9, <1>10, <2>1, <2>2
<1>12. ASSUME NEW k \in 1 .. n, NEW j \in 1 .. 7 PROVE b[7 * (k - 1) + j] = CountEntry(counts[k])[j]
  <2>1. PICK p : p = 7 * (k - 1) + j
    OBVIOUS
  <2>2. p \in 1 .. 7 * n
    BY <1>2, <2>1, SevenPlaces
  <2>3. p \in 1 .. Len(s) + Len(e) /\ p <= Len(s)
    BY <1>2, <1>8, <1>10, <2>2
  <2>4. (s \o e)[p] = s[p]
    BY <1>8, <1>10, <2>3, ConcatProperties
  <2>5. s[p] = q[k][j]
    BY <1>8, <2>1
  <2> QED BY <1>4, <1>9, <2>1, <2>4, <2>5
<1>13. CountsLaid(b, counts)
  BY <1>1, <1>11, <1>12 DEF CountsLaid
<1> QED BY <1>3, <1>8, <1>9, <1>13

\* An answer with counts, and what is behind its first three bytes.
LEMMA RecordsAre ==
  ASSUME NEW counts \in Seq(Counts), counts # <<>>
  PROVE  /\ Head(Records(counts)) = isc_info_sql_records
         /\ After(Records(counts), 3) = Counted(counts) \o <<isc_info_end>>
<1>1. PICK x, l, s, e : /\ x = <<isc_info_sql_records>> /\ l = le(Len(Counted(counts)) + 1, 2)
                        /\ s = Counted(counts) /\ e = <<isc_info_end>>
  OBVIOUS
<1>2. Records(counts) = ((x \o l) \o s) \o e
  BY <1>1 DEF Records
<1>3. x \in Seq(Byte) /\ Len(x) = 1 /\ x[1] = isc_info_sql_records /\ e \in Seq(Byte)
  BY <1>1, CountTagsAre
<1>4. s \in Seq(Byte)
  BY <1>1, CountedIs
<1>5. l \in Seq(Byte) /\ Len(l) = 2
  <2>1. 2 \in {1, 2, 4}
    OBVIOUS
  <2>2. Len(s) + 1 \in Nat
    BY <1>4, LenProperties
  <2> QED BY <1>1, <2>1, <2>2, LeBytes
<1>6. PICK t, a : t = s \o e /\ a = x \o l
  OBVIOUS
<1>7. t \in Seq(Byte) /\ a \in Seq(Byte) /\ Len(a) = 3
  <2>1. t \in Seq(Byte)
    BY <1>3, <1>4, <1>6, Behind
  <2>2. a \in Seq(Byte) /\ Len(a) = Len(x) + Len(l)
    BY <1>3, <1>5, <1>6, Behind
  <2> QED BY <1>3, <1>5, <2>1, <2>2
<1>8. Records(counts) = a \o t
  <2>1. Grouped(a, s, e)
    BY <1>3, <1>4, <1>7, Groups
  <2> QED BY <1>2, <1>6, <2>1 DEF Grouped
<1>9. After(a \o t, 3) = t
  BY <1>7, CutBehind
<1>10. a \o t = x \o (l \o t)
  <2>1. Grouped(x, l, t)
    BY <1>3, <1>5, <1>7, Groups
  <2> QED BY <1>6, <2>1 DEF Grouped
<1>11. PICK r : r = l \o t
  OBVIOUS
<1>12. r \in Seq(Byte)
  BY <1>5, <1>7, <1>11, Behind
<1>13. x \o r \in Seq(Byte) /\ Len(x \o r) = 1 + Len(r) /\ Len(r) \in Nat
  <2>1. x \in Seq(Byte) /\ r \in Seq(Byte)
    BY <1>3, <1>12
  <2>2. x \o r \in Seq(Byte) /\ Len(x \o r) = Len(x) + Len(r)
    BY <2>1, Behind
  <2>3. Len(r) \in Nat
    BY <2>1, LenProperties
  <2> QED BY <1>3, <2>2, <2>3
<1>14. (x \o r)[1] = x[1]
  <2>1. 1 \in 1 .. Len(x) + Len(r) /\ 1 <= Len(x)
    BY <1>3, <1>13
  <2> QED BY <1>3, <1>12, <2>1, ConcatProperties
<1>15. Head(x \o r) = (x \o r)[1]
  BY <1>13
<1> QED BY <1>1, <1>3, <1>6, <1>8, <1>9, <1>10, <1>11, <1>14, <1>15

\* Both clients give the rows that the counts of an execution say were changed: for any
\* number of counts, in any order, of any four bytes.
THEOREM RowsAreCounted ==
  ASSUME NEW counts \in Seq(Counts)
  PROVE  /\ parse_info_sql_affected_rows(Records(counts)) = Changed(counts)
         /\ native_affected_rows(Records(counts)) = Changed(counts)
<1>1. CASE counts = <<>>
  <2>1. Records(counts) = <<isc_info_end>>
    BY <1>1 DEF Records
  <2>2. Head(Records(counts)) = isc_info_end
    BY <2>1
  <2>3. Changed(counts) = 0
    <3>1. PICK h : Changed(counts) = h[Len(counts)] /\ \A i \in 0 .. Len(counts) : h[i] = Changing(counts, h, i)
      BY ChangedIs
    <3>2. Len(counts) = 0 /\ 0 \in 0 .. 0
      BY <1>1
    <3> QED BY <3>1, <3>2 DEF Changing
  <2> QED BY <2>2, <2>3, CountTagsAre DEF parse_info_sql_affected_rows, native_affected_rows
<1>2. CASE counts # <<>>
  <2>1. PICK b : b = Counted(counts) \o <<isc_info_end>>
    OBVIOUS
  <2>2. CountsLaid(b, counts)
    BY <2>1, CountedIs
  <2>3. TRUE \in BOOLEAN /\ FALSE \in BOOLEAN
    OBVIOUS
  <2>4. AddUp(b, TRUE) = Changed(counts)
    BY <2>2, <2>3, AddedUp
  <2>5. AddUp(b, FALSE) = Changed(counts)
    BY <2>2, <2>3, AddedUp
  <2>6. Head(Records(counts)) = isc_info_sql_records /\ After(Records(counts), 3) = b
    BY <1>2, <2>1, RecordsAre
  <2> QED BY <2>4, <2>5, <2>6, CountTagsAre DEF parse_info_sql_affected_rows, native_affected_rows
<1> QED BY <1>1, <1>2

\* The columns a server describes: any subtype and scale of any type.
Columns == [t : SqlTypes, sub : Int, scale : Int]
NumberTypes == {"SHORT", "LONG", "INT64"}
TimeTypes == {"TIMESTAMP", "TYPE_DATE", "TYPE_TIME"}

LEMMA TypesAre ==
  ASSUME NEW t \in SqlTypes
  PROVE  \/ t \in {"TEXT", "VARYING"} \/ t \in NumberTypes \/ t \in {"FLOAT", "DOUBLE"}
         \/ t \in TimeTypes \/ t = "BLOB" \/ t = "BOOLEAN" \/ t \in {"ARRAY", "INT128"}
BY DEF SqlTypes, NumberTypes, TimeTypes

\* What the wire client makes of a column that it coerced to a type.
LEMMA ValueKind ==
  ASSUME NEW y, NEW v, NEW blobs
  PROVE  /\ y.t = "VARYING" => column_value(y, v, blobs).k = "Text"
         /\ y.t = "INT64" => column_value(y, v, blobs).k = "Integer"
         /\ y.t = "DOUBLE" => column_value(y, v, blobs).k = "Floating"
         /\ y.t = "TIMESTAMP" => column_value(y, v, blobs).k = "Timestamp"
         /\ y.t = "BOOLEAN" => column_value(y, v, blobs).k = "Boolean"
         /\ y.t = "BLOB" => column_value(y, v, blobs).k = IF y.sub = 0 THEN "Binary" ELSE "Text"
<1>1. y.t = "VARYING" => column_value(y, v, blobs).k = "Text"
  BY DEF column_value, Val
<1>2. y.t = "INT64" => column_value(y, v, blobs).k = "Integer"
  BY DEF column_value, Val
<1>3. y.t = "DOUBLE" => column_value(y, v, blobs).k = "Floating"
  BY DEF column_value, Val
<1>4. y.t = "TIMESTAMP" => column_value(y, v, blobs).k = "Timestamp"
  BY DEF column_value, Val
<1>5. y.t = "BOOLEAN" => column_value(y, v, blobs).k = "Boolean"
  BY DEF column_value, Val
<1>6. y.t = "BLOB" => column_value(y, v, blobs).k = IF y.sub = 0 THEN "Binary" ELSE "Text"
  BY DEF column_value, Val
<1> QED BY <1>1, <1>2, <1>3, <1>4, <1>5, <1>6

LEMMA Supported ==
  /\ Unsupported # "VARYING" /\ Unsupported # "INT64" /\ Unsupported # "DOUBLE" /\ Unsupported # "TIMESTAMP"
  /\ Unsupported # "BOOLEAN" /\ Unsupported # "BLOB"
BY DEF Unsupported

LEMMA Retyped ==
  ASSUME NEW var \in Columns, NEW t
  PROVE  [var EXCEPT !.t = t].t = t /\ [var EXCEPT !.t = t].sub = var.sub
BY DEF Columns

LEMMA WireKind ==
  ASSUME NEW var \in Columns, NEW t, coerce(var) = t, t # Unsupported
  PROVE  \E y, v, blobs : y.t = t /\ y.sub = var.sub /\ wire_kind(var) = column_value(y, v, blobs).k
<1>1. PICK y, v, blobs : /\ y = [var EXCEPT !.t = t] /\ v = (IF t = "BLOB" THEN Id(1) ELSE <<1>>)
                         /\ blobs = <<<<>>>>
  OBVIOUS
<1>2. y.t = t /\ y.sub = var.sub
  BY <1>1, Retyped
<1>3. wire_kind(var) = column_value(y, v, blobs).k
  BY <1>1 DEF wire_kind
<1> QED BY <1>2, <1>3

LEMMA WireKinds ==
  ASSUME NEW var \in Columns
  PROVE  /\ coerce(var) = "VARYING" => wire_kind(var) = "Text"
         /\ coerce(var) = "INT64" => wire_kind(var) = "Integer"
         /\ coerce(var) = "DOUBLE" => wire_kind(var) = "Floating"
         /\ coerce(var) = "TIMESTAMP" => wire_kind(var) = "Timestamp"
         /\ coerce(var) = "BOOLEAN" => wire_kind(var) = "Boolean"
         /\ coerce(var) = "BLOB" => wire_kind(var) = IF var.sub = 0 THEN "Binary" ELSE "Text"
<1>1. ASSUME coerce(var) = "VARYING" PROVE wire_kind(var) = "Text"
  <2>1. PICK y, v, blobs : y.t = "VARYING" /\ wire_kind(var) = column_value(y, v, blobs).k
    BY <1>1, WireKind, Supported
  <2> QED BY <2>1, ValueKind
<1>2. ASSUME coerce(var) = "INT64" PROVE wire_kind(var) = "Integer"
  <2>1. PICK y, v, blobs : y.t = "INT64" /\ wire_kind(var) = column_value(y, v, blobs).k
    BY <1>2, WireKind, Supported
  <2> QED BY <2>1, ValueKind
<1>3. ASSUME coerce(var) = "DOUBLE" PROVE wire_kind(var) = "Floating"
  <2>1. PICK y, v, blobs : y.t = "DOUBLE" /\ wire_kind(var) = column_value(y, v, blobs).k
    BY <1>3, WireKind, Supported
  <2> QED BY <2>1, ValueKind
<1>4. ASSUME coerce(var) = "TIMESTAMP" PROVE wire_kind(var) = "Timestamp"
  <2>1. PICK y, v, blobs : y.t = "TIMESTAMP" /\ wire_kind(var) = column_value(y, v, blobs).k
    BY <1>4, WireKind, Supported
  <2> QED BY <2>1, ValueKind
<1>5. ASSUME coerce(var) = "BOOLEAN" PROVE wire_kind(var) = "Boolean"
  <2>1. PICK y, v, blobs : y.t = "BOOLEAN" /\ wire_kind(var) = column_value(y, v, blobs).k
    BY <1>5, WireKind, Supported
  <2> QED BY <2>1, ValueKind
<1>6. ASSUME coerce(var) = "BLOB" PROVE wire_kind(var) = IF var.sub = 0 THEN "Binary" ELSE "Text"
  <2>1. PICK y, v, blobs : y.t = "BLOB" /\ y.sub = var.sub /\ wire_kind(var) = column_value(y, v, blobs).k
    BY <1>6, WireKind, Supported
  <2>2. column_value(y, v, blobs).k = IF y.sub = 0 THEN "Binary" ELSE "Text"
    BY <2>1, ValueKind
  <2> QED BY <2>1, <2>2
<1> QED BY <1>1, <1>2, <1>3, <1>4, <1>5, <1>6

\* Both clients make the same of a column of any type: but for a blob of a subtype of
\* the application's own.
THEOREM ColumnsAgree ==
  ASSUME NEW var \in Columns
  PROVE  wire_kind(var) = native_kind(var) \/ (var.t = "BLOB" /\ var.sub < 0)
<1>1. var.t \in SqlTypes /\ var.sub \in Int /\ var.scale \in Int
  BY DEF Columns
<1>2. CASE var.t \in {"TEXT", "VARYING"}
  <2>1. coerce(var) = "VARYING" /\ native_kind(var) = "Text"
    BY <1>2 DEF coerce, native_kind
  <2> QED BY <2>1, WireKinds
<1>3. CASE var.t \in NumberTypes
  <2>1. coerce(var) = as_number(var) /\ native_kind(var) = IF var.scale = 0 THEN "Integer" ELSE "Floating"
    BY <1>3 DEF coerce, native_kind, NumberTypes
  <2>2. CASE var.scale = 0
    <3>1. coerce(var) = "INT64" /\ native_kind(var) = "Integer"
      BY <2>1, <2>2 DEF as_number
    <3> QED BY <3>1, WireKinds
  <2>3. CASE var.scale # 0
    <3>1. coerce(var) = "DOUBLE" /\ native_kind(var) = "Floating"
      BY <2>1, <2>3 DEF as_number
    <3> QED BY <3>1, WireKinds
  <2> QED BY <2>2, <2>3
<1>4. CASE var.t \in {"FLOAT", "DOUBLE"}
  <2>1. coerce(var) = "DOUBLE" /\ native_kind(var) = "Floating"
    BY <1>4 DEF coerce, native_kind
  <2> QED BY <2>1, WireKinds
<1>5. CASE var.t \in TimeTypes
  <2>1. coerce(var) = "TIMESTAMP" /\ native_kind(var) = "Timestamp"
    BY <1>5 DEF coerce, native_kind, TimeTypes
  <2> QED BY <2>1, WireKinds
<1>6. CASE var.t = "BLOB"
  <2>1. coerce(var) = IF var.sub =< 1 THEN "BLOB" ELSE Unsupported
    BY <1>6 DEF coerce
  <2>2. native_kind(var) = IF var.sub > 1 THEN Unsupported ELSE IF var.sub =< 0 THEN "Binary" ELSE "Text"
    BY <1>6 DEF native_kind
  <2>3. CASE var.sub > 1
    <3>1. coerce(var) = Unsupported /\ native_kind(var) = Unsupported
      BY <1>1, <2>1, <2>2, <2>3
    <3> QED BY <3>1 DEF wire_kind
  <2>4. CASE var.sub \in {0, 1}
    <3>1. coerce(var) = "BLOB"
      BY <2>1, <2>4
    <3>2. native_kind(var) = IF var.sub = 0 THEN "Binary" ELSE "Text"
      BY <2>2, <2>4
    <3> QED BY <3>1, <3>2, WireKinds
  <2>5. var.sub > 1 \/ var.sub \in {0, 1} \/ var.sub < 0
    BY <1>1
  <2> QED BY <1>6, <2>3, <2>4, <2>5
<1>7. CASE var.t = "BOOLEAN"
  <2>1. coerce(var) = "BOOLEAN" /\ native_kind(var) = "Boolean"
    BY <1>7 DEF coerce, native_kind
  <2> QED BY <2>1, WireKinds
<1>8. CASE var.t \in {"ARRAY", "INT128"}
  <2>1. coerce(var) = Unsupported /\ native_kind(var) = Unsupported
    BY <1>8 DEF coerce, native_kind
  <2> QED BY <2>1 DEF wire_kind
<1> QED BY <1>1, <1>2, <1>3, <1>4, <1>5, <1>6, <1>7, <1>8, TypesAre

---------------------------------------------------------------------------
(* Named parameters                                                        *)

\* How often c is among the first i of s.
Count(s, c, i) == Cardinality({j \in 1 .. i : s[j] = c})

LEMMA CountNat ==
  ASSUME NEW s, NEW c, NEW i \in Nat
  PROVE  Count(s, c, i) \in Nat /\ IsFiniteSet({j \in 1 .. i : s[j] = c})
<1>1. IsFiniteSet(1 .. i)
  BY FS_Interval
<1>2. {j \in 1 .. i : s[j] = c} \subseteq 1 .. i
  OBVIOUS
<1>3. IsFiniteSet({j \in 1 .. i : s[j] = c})
  BY <1>1, <1>2, FS_Subset
<1> QED BY <1>3, FS_CardinalityType DEF Count

LEMMA CountNone == ASSUME NEW s, NEW c PROVE Count(s, c, 0) = 0
<1>1. {j \in 1 .. 0 : s[j] = c} = {}
  OBVIOUS
<1> QED BY <1>1, FS_EmptySet DEF Count

LEMMA CountNext ==
  ASSUME NEW s, NEW c, NEW i \in Nat
  PROVE  Count(s, c, i + 1) = IF s[i + 1] = c THEN Count(s, c, i) + 1 ELSE Count(s, c, i)
<1>1. PICK A, B, n : A = {j \in 1 .. i : s[j] = c} /\ B = {j \in 1 .. n : s[j] = c} /\ n = i + 1
  OBVIOUS
<1>2. n \notin A /\ IsFiniteSet(A) /\ 1 .. n = 1 .. i \cup {n}
  <2>1. IsFiniteSet(A)
    BY <1>1, CountNat
  <2>2. n \notin 1 .. i /\ 1 .. n = 1 .. i \cup {n}
    BY <1>1
  <2>3. n \notin A
    BY <1>1, <2>2
  <2> QED BY <2>1, <2>2, <2>3
<1>3. CASE s[n] = c
  <2>1. B = A \cup {n}
    BY <1>1, <1>2, <1>3
  <2>2. Cardinality(A \cup {n}) = Cardinality(A) + 1
    BY <1>2, FS_AddElement
  <2> QED BY <1>1, <1>3, <2>1, <2>2 DEF Count
<1>4. CASE s[n] # c
  <2>1. B = A
    BY <1>1, <1>2, <1>4
  <2> QED BY <1>1, <1>4, <2>1 DEF Count
<1> QED BY <1>1, <1>3, <1>4

\* The same elements, the same number of them.
LEMMA CountSame ==
  ASSUME NEW s, NEW t, NEW c, NEW i \in Nat, \A j \in 1 .. i : s[j] = t[j]
  PROVE  Count(s, c, i) = Count(t, c, i)
<1>1. {j \in 1 .. i : s[j] = c} = {j \in 1 .. i : t[j] = c}
  OBVIOUS
<1> QED BY <1>1 DEF Count

\* Where there is none of them the number stays.
LEMMA CountFlat ==
  ASSUME NEW s, NEW c, NEW i \in Nat, NEW k \in Nat, i =< k, \A j \in i + 1 .. k : s[j] # c
  PROVE  Count(s, c, k) = Count(s, c, i)
<1>1. {j \in 1 .. k : s[j] = c} = {j \in 1 .. i : s[j] = c}
  <2>1. ASSUME NEW j \in 1 .. k, s[j] = c PROVE j \in 1 .. i
    <3>1. j \in i + 1 .. k \/ j \in 1 .. i
      OBVIOUS
    <3> QED BY <2>1, <3>1
  <2>2. 1 .. i \subseteq 1 .. k
    OBVIOUS
  <2> QED BY <2>1, <2>2
<1> QED BY <1>1 DEF Count

\* Behind another sequence.
LEMMA CountBehind ==
  ASSUME NEW S, NEW a \in Seq(S), NEW b \in Seq(S), NEW c
  PROVE  \A j \in 0 .. Len(b) : Count(a \o b, c, Len(a) + j) = Count(a, c, Len(a)) + Count(b, c, j)
<1>1. PICK m, n, t : m = Len(a) /\ n = Len(b) /\ t = a \o b
  OBVIOUS
<1>2. m \in Nat /\ n \in Nat
  BY <1>1, LenProperties
<1>3. PICK T : T = {j \in 0 .. n : Count(t, c, m + j) = Count(a, c, m) + Count(b, c, j)}
  OBVIOUS
<1>4. 0 \in T
  <2>1. \A j \in 1 .. m : t[j] = a[j]
    <3>1. ASSUME NEW j \in 1 .. m PROVE t[j] = a[j]
      <4>1. j \in 1 .. Len(a) + Len(b) /\ j <= Len(a)
        BY <1>1, <1>2
      <4> QED BY <1>1, <4>1, ConcatProperties
    <3> QED BY <3>1
  <2>2. Count(t, c, m) = Count(a, c, m)
    BY <1>2, <2>1, CountSame
  <2>3. Count(b, c, 0) = 0 /\ Count(a, c, m) \in Nat
    BY <1>2, CountNone, CountNat
  <2>4. m + 0 = m /\ Count(a, c, m) + 0 = Count(a, c, m) /\ 0 \in 0 .. n
    BY <1>2, <2>3
  <2> QED BY <1>3, <2>2, <2>3, <2>4
<1>5. \A j \in 0 .. n : j < n /\ j \in T => j + 1 \in T
  <2>1. ASSUME NEW j \in 0 .. n, j < n, j \in T PROVE j + 1 \in T
    <3>1. j \in Nat /\ j + 1 \in 0 .. n /\ j + 1 \in 1 .. n /\ m + j \in Nat /\ m + (j + 1) = (m + j) + 1
      BY <1>2, <2>1
    <3>2. t[m + (j + 1)] = b[j + 1]
      BY <1>1, <3>1, BehindAt
    <3>3. Count(t, c, (m + j) + 1)
            = IF t[(m + j) + 1] = c THEN Count(t, c, m + j) + 1 ELSE Count(t, c, m + j)
      BY <3>1, CountNext
    <3>4. Count(b, c, j + 1) = IF b[j + 1] = c THEN Count(b, c, j) + 1 ELSE Count(b, c, j)
      BY <3>1, CountNext
    <3>5. Count(a, c, m) \in Nat /\ Count(b, c, j) \in Nat
      BY <1>2, <3>1, CountNat
    <3>6. Count(t, c, m + j) = Count(a, c, m) + Count(b, c, j)
      BY <1>3, <2>1
    <3>7. PICK x, y : x = Count(a, c, m) /\ y = Count(b, c, j)
      OBVIOUS
    <3>8. (x + y) + 1 = x + (y + 1)
      BY <3>5, <3>7
    <3>9. Count(t, c, m + (j + 1)) = Count(a, c, m) + Count(b, c, j + 1)
      BY <3>1, <3>2, <3>3, <3>4, <3>6, <3>7, <3>8
    <3> QED BY <1>3, <3>1, <3>9
  <2> QED BY <2>1
<1>6. \A j \in 0 .. n : j \in T
  BY <1>2, <1>4, <1>5, Counting
<1> QED BY <1>1, <1>3, <1>6

\* The first of some places.
LEMMA FirstPlace ==
  ASSUME NEW n \in Nat, NEW A, A \subseteq 1 .. n, A # {}
  PROVE  \E e \in A : \A k \in A : e =< k
<1> SUFFICES ASSUME \A e \in A : \E k \in A : ~(e =< k) PROVE FALSE
  OBVIOUS
<1>1. PICK T : T = {k \in 0 .. n : \A j \in 1 .. k : j \notin A}
  OBVIOUS
<1>2. 0 \in T
  BY <1>1
<1>3. \A k \in 0 .. n : k < n /\ k \in T => k + 1 \in T
  <2>1. ASSUME NEW k \in 0 .. n, k < n, k \in T PROVE k + 1 \in T
    <3>1. k + 1 \notin A
      <4>1. ASSUME k + 1 \in A PROVE FALSE
        <5>1. PICK j \in A : ~(k + 1 =< j)
          BY <4>1
        <5>2. j \in 1 .. k
          BY <5>1
        <5> QED BY <1>1, <2>1, <5>2
      <4> QED BY <4>1
    <3>2. \A j \in 1 .. k + 1 : j \in 1 .. k \/ j = k + 1
      OBVIOUS
    <3> QED BY <1>1, <2>1, <3>1, <3>2
  <2> QED BY <2>1
<1>4. \A k \in 0 .. n : k \in T
  BY <1>2, <1>3, Counting
<1>5. n \in T
  BY <1>4
<1>6. A = {}
  BY <1>1, <1>5
<1> QED BY <1>6

\* The characters of a statement, and those it has with its names replaced.
Replaced == Characters \cup {"?"}

LEMMA CharactersAre ==
  /\ Letters \subseteq Characters /\ "'" \in Characters /\ ":" \in Characters
  /\ "?" \notin Characters /\ "'" \notin Letters /\ ":" \notin Letters /\ "?" \notin Letters
  /\ "'" # ":" /\ "?" # "'" /\ "?" # ":"
BY DEF Characters, Letters

\* A run of letters from place i on, as long as it can be.
WordShape(raw, i, n) ==
  /\ n \in Nat /\ i + n - 1 =< Len(raw)
  /\ \A j \in i .. i + n - 1 : raw[j] \in Letters
  /\ i + n > Len(raw) \/ raw[i + n] \notin Letters

LEMMA WordIsRun ==
  ASSUME NEW raw \in Seq(Characters), NEW i \in 1 .. Len(raw) + 1
  PROVE  WordShape(raw, i, WordAt(raw, i))
<1>1. PICK m : m = Len(raw)
  OBVIOUS
<1>2. m \in Nat
  BY <1>1, LenProperties
<1>3. PICK A : A = {k \in 1 .. m + 1 : k >= i /\ (k > m \/ raw[k] \notin Letters)}
  OBVIOUS
<1>4. m + 1 \in A
  BY <1>1, <1>2, <1>3
<1>5. PICK e \in A : \A k \in A : e =< k
  <2>1. m + 1 \in Nat /\ A \subseteq 1 .. m + 1 /\ A # {}
    BY <1>2, <1>3, <1>4
  <2> QED BY <2>1, FirstPlace
<1>6. PICK n : n = e - i
  OBVIOUS
<1>7. n \in 0 .. m /\ i + n = e /\ e \in 1 .. m + 1 /\ i + n - 1 =< m
  BY <1>1, <1>2, <1>3, <1>5, <1>6
<1>8. \A j \in i .. (i + n - 1) : j =< m /\ raw[j] \in Letters
  <2>1. ASSUME NEW j \in i .. (i + n - 1) PROVE j =< m /\ raw[j] \in Letters
    <3>1. j \in 1 .. m + 1 /\ j >= i /\ j < e /\ j =< m
      BY <1>1, <1>2, <1>7
    <3>2. j \notin A
      <4>1. ASSUME j \in A PROVE FALSE
        <5>1. e =< j
          BY <1>5, <4>1
        <5> QED BY <1>7, <3>1, <5>1
      <4> QED BY <4>1
    <3> QED BY <1>3, <3>1, <3>2
  <2> QED BY <2>1
<1>9. i + n > m \/ raw[i + n] \notin Letters
  BY <1>3, <1>5, <1>7
<1>10. PICK w : w = WordAt(raw, i)
  OBVIOUS
<1>11. /\ w \in 0 .. m
       /\ \A j \in i .. (i + w - 1) : j =< m /\ raw[j] \in Letters
       /\ i + w > m \/ raw[i + w] \notin Letters
  BY <1>1, <1>7, <1>8, <1>9, <1>10 DEF WordAt
<1>12. i + w - 1 =< m
  <2>1. CASE w = 0
    BY <1>1, <1>2, <2>1
  <2>2. CASE w > 0
    <3>1. i + w - 1 \in i .. (i + w - 1)
      BY <1>2, <1>11, <2>2
    <3> QED BY <1>11, <3>1
  <2> QED BY <1>2, <1>11, <2>1, <2>2
<1> QED BY <1>1, <1>2, <1>10, <1>11, <1>12 DEF WordShape

\* A literal from place i on: to the next apostrophe.
LiteralShape(raw, i, n) ==
  /\ n \in Nat /\ n > 1 /\ i + n - 1 =< Len(raw)
  /\ raw[i] = "'" /\ raw[i + n - 1] = "'"
  /\ \A j \in i + 1 .. i + n - 2 : raw[j] # "'"

LEMMA LiteralIs ==
  ASSUME NEW raw \in Seq(Characters), NEW i \in 1 .. Len(raw) + 1
  PROVE  /\ literal(raw, i) = 0 \/ LiteralShape(raw, i, literal(raw, i))
         /\ raw[i] # "'" => literal(raw, i) = 0
         /\ raw[i] = "'" /\ literal(raw, i) = 0 => \A j \in i + 1 .. Len(raw) : raw[j] # "'"
<1>1. PICK m, A : m = Len(raw) /\ A = {j \in i + 1 .. m : raw[j] = "'"}
  OBVIOUS
<1>2. m \in Nat
  BY <1>1, LenProperties
<1>3. literal(raw, i) = IF raw[i] # "'" \/ A = {} THEN 0
                        ELSE (CHOOSE j \in A : \A k \in A : j =< k) - i + 1
  BY <1>1 DEF literal
<1>4. CASE raw[i] # "'" \/ A = {}
  BY <1>1, <1>3, <1>4
<1>5. CASE raw[i] = "'" /\ A # {}
  <2>1. A \subseteq 1 .. m
    BY <1>1, <1>2
  <2>2. \E e \in A : \A k \in A : e =< k
    BY <1>2, <1>5, <2>1, FirstPlace
  <2>3. PICK e : e = CHOOSE j \in A : \A k \in A : j =< k
    OBVIOUS
  <2>4. e \in A /\ \A k \in A : e =< k
    BY <2>2, <2>3
  <2>5. PICK n : n = e - i + 1
    OBVIOUS
  <2>6. n \in Nat /\ n > 1 /\ i + n - 1 = e /\ e =< m /\ raw[e] = "'" /\ i + n - 2 = e - 1
    BY <1>1, <1>2, <2>4, <2>5
  <2>7. \A j \in i + 1 .. i + n - 2 : raw[j] # "'"
    <3>1. ASSUME NEW j \in i + 1 .. i + n - 2, raw[j] = "'" PROVE FALSE
      <4>1. j \in i + 1 .. m /\ j < e
        BY <1>2, <2>6
      <4>2. j \in A
        BY <1>1, <3>1, <4>1
      <4> QED BY <2>4, <4>1, <4>2
    <3> QED BY <3>1
  <2>8. literal(raw, i) = n
    BY <1>3, <1>5, <2>3, <2>5
  <2>9. LiteralShape(raw, i, n)
    BY <1>1, <1>5, <2>6, <2>7 DEF LiteralShape
  <2>10. n # 0
    BY <2>6
  <2> QED BY <1>5, <2>8, <2>9, <2>10
<1> QED BY <1>4, <1>5

\* One step of the parsing, with what is parsed behind it in f.
WordBehind(raw, i) == IF raw[i] = ":" THEN WordAt(raw, i + 1) ELSE 0
Taken(raw, i) ==
  IF literal(raw, i) > 0 THEN literal(raw, i)
  ELSE IF WordBehind(raw, i) > 0 THEN 1 + WordBehind(raw, i) ELSE 1
Replacing(raw, f, i) ==
  IF i > Len(raw) THEN [sql |-> <<>>, names |-> <<>>]
  ELSE IF WordBehind(raw, i) > 0
       THEN [sql |-> <<"?">> \o f[i + Taken(raw, i)].sql,
             names |-> <<SubSeq(raw, i + 1, i + WordBehind(raw, i))>> \o f[i + Taken(raw, i)].names]
  ELSE [f[i + Taken(raw, i)] EXCEPT !.sql = SubSeq(raw, i, i + Taken(raw, i) - 1) \o @]
Parsed == [sql : Seq(Replaced), names : Seq(Seq(Characters))]

\* What is taken is a name, a literal, or one character that begins neither.
TakesName(raw, i) ==
  LET w == WordBehind(raw, i)
  IN /\ w \in Nat /\ w > 0 /\ Taken(raw, i) = 1 + w /\ i + w =< Len(raw) /\ raw[i] = ":"
     /\ \A j \in i + 1 .. i + w : raw[j] \in Letters
TakesLiteral(raw, i) == WordBehind(raw, i) = 0 /\ LiteralShape(raw, i, Taken(raw, i))
TakesOne(raw, i) ==
  /\ WordBehind(raw, i) = 0 /\ Taken(raw, i) = 1
  /\ raw[i] = ":" => i + 1 > Len(raw) \/ raw[i + 1] \notin Letters
  /\ raw[i] = "'" => \A j \in i + 1 .. Len(raw) : raw[j] # "'"

LEMMA TakesOneOfThree ==
  ASSUME NEW raw \in Seq(Characters), NEW i \in 1 .. Len(raw)
  PROVE  TakesName(raw, i) \/ TakesLiteral(raw, i) \/ TakesOne(raw, i)
<1>1. Len(raw) \in Nat /\ i \in 1 .. Len(raw) + 1 /\ i + 1 \in 1 .. Len(raw) + 1
  BY LenProperties
<1>2. PICK l, w : l = literal(raw, i) /\ w = WordBehind(raw, i)
  OBVIOUS
<1>3. /\ l = 0 \/ LiteralShape(raw, i, l)
      /\ raw[i] # "'" => l = 0
      /\ raw[i] = "'" /\ l = 0 => \A j \in i + 1 .. Len(raw) : raw[j] # "'"
  BY <1>1, <1>2, LiteralIs
<1>4. Taken(raw, i) = IF l > 0 THEN l ELSE IF w > 0 THEN 1 + w ELSE 1
  BY <1>2 DEF Taken
<1>5. CASE raw[i] = ":"
  <2>1. w = WordAt(raw, i + 1)
    BY <1>2, <1>5 DEF WordBehind
  <2>2. WordShape(raw, i + 1, w)
    BY <1>1, <2>1, WordIsRun
  <2>3. /\ w \in Nat /\ (i + 1) + w - 1 =< Len(raw)
        /\ \A j \in i + 1 .. (i + 1) + w - 1 : raw[j] \in Letters
        /\ (i + 1) + w > Len(raw) \/ raw[(i + 1) + w] \notin Letters
    BY <2>2 DEF WordShape
  <2>4. l = 0
    BY <1>3, <1>5, CharactersAre
  <2>5. (i + 1) + w - 1 = i + w
    BY <2>3
  <2>6. ~(0 > 0)
    OBVIOUS
  <2>7. CASE w > 0
    <3>1. Taken(raw, i) = 1 + w
      BY <1>4, <2>4, <2>6, <2>7
    <3>2. TakesName(raw, i)
      BY <1>2, <1>5, <2>3, <2>5, <2>7, <3>1 DEF TakesName
    <3> QED BY <3>2
  <2>8. CASE w = 0
    <3>1. Taken(raw, i) = 1
      BY <1>4, <2>4, <2>6, <2>8
    <3>2. i + 1 > Len(raw) \/ raw[i + 1] \notin Letters
      <4>1. (i + 1) + 0 = i + 1
        OBVIOUS
      <4> QED BY <2>3, <2>8, <4>1
    <3>3. TakesOne(raw, i)
      BY <1>2, <1>5, <2>8, <3>1, <3>2, CharactersAre DEF TakesOne
    <3> QED BY <3>3
  <2> QED BY <2>3, <2>7, <2>8
<1>6. CASE raw[i] # ":"
  <2>1. w = 0 /\ ~(0 > 0)
    BY <1>2, <1>6 DEF WordBehind
  <2>2. CASE l = 0
    <3>1. Taken(raw, i) = 1
      BY <1>4, <2>1, <2>2
    <3>2. TakesOne(raw, i)
      BY <1>2, <1>3, <1>6, <2>1, <2>2, <3>1 DEF TakesOne
    <3> QED BY <3>2
  <2>3. CASE LiteralShape(raw, i, l)
    <3>1. l > 0
      BY <2>3 DEF LiteralShape
    <3>2. Taken(raw, i) = l
      BY <1>4, <3>1
    <3>3. TakesLiteral(raw, i)
      BY <1>2, <2>1, <2>3, <3>2 DEF TakesLiteral
    <3> QED BY <3>3
  <2> QED BY <1>3, <2>2, <2>3
<1> QED BY <1>5, <1>6

LEMMA TakenIs ==
  ASSUME NEW raw \in Seq(Characters), NEW i \in 1 .. Len(raw)
  PROVE  /\ Taken(raw, i) \in Nat /\ i + Taken(raw, i) \in i + 1 .. Len(raw) + 1
         /\ WordBehind(raw, i) \in Nat
         /\ WordBehind(raw, i) > 0 => TakesName(raw, i)
<1>1. Len(raw) \in Nat
  BY LenProperties
<1>2. PICK w, n : w = WordBehind(raw, i) /\ n = Taken(raw, i)
  OBVIOUS
<1>3. CASE TakesName(raw, i)
  <2>1. w \in Nat /\ w > 0 /\ n = 1 + w /\ i + w =< Len(raw)
    BY <1>2, <1>3 DEF TakesName
  <2>2. n \in Nat /\ i + n \in i + 1 .. Len(raw) + 1
    BY <1>1, <2>1
  <2> QED BY <1>2, <1>3, <2>1, <2>2
<1>4. CASE TakesLiteral(raw, i)
  <2>1. w = 0 /\ n \in Nat /\ n > 1 /\ i + n - 1 =< Len(raw)
    BY <1>2, <1>4 DEF TakesLiteral, LiteralShape
  <2>2. i + n \in i + 1 .. Len(raw) + 1 /\ w \in Nat /\ ~(w > 0)
    BY <1>1, <2>1
  <2> QED BY <1>2, <2>1, <2>2
<1>5. CASE TakesOne(raw, i)
  <2>1. w = 0 /\ n = 1
    BY <1>2, <1>5 DEF TakesOne
  <2>2. n \in Nat /\ i + n \in i + 1 .. Len(raw) + 1 /\ w \in Nat /\ ~(w > 0)
    BY <1>1, <2>1
  <2> QED BY <1>2, <2>1, <2>2
<1> QED BY <1>3, <1>4, <1>5, TakesOneOfThree

LEMMA PartIn ==
  ASSUME NEW raw \in Seq(Characters), NEW m \in Nat, m > 0, NEW n \in Int, n =< Len(raw)
  PROVE  SubSeq(raw, m, n) \in Seq(Characters) /\ SubSeq(raw, m, n) \in Seq(Replaced)
<1>1. SubSeq(raw, m, n) \in Seq(Characters)
  BY PartOf
<1>2. Characters \subseteq Replaced
  BY DEF Replaced
<1>3. \A s \in Seq(Characters) : s \in Seq(Replaced)
  BY <1>2, SeqIn
<1> QED BY <1>1, <1>3

LEMMA MarkIn == "?" \in Replaced /\ <<"?">> \in Seq(Replaced) /\ <<>> \in Seq(Replaced) /\ <<>> \in Seq(Seq(Characters))
<1>1. "?" \in Replaced
  BY DEF Replaced
<1>2. <<"?">> \in Seq(Replaced)
  BY <1>1
<1> QED BY <1>1, <1>2, EmptySeq

LEMMA CountGrows ==
  ASSUME NEW s, NEW c, NEW i \in Nat, NEW k \in Nat, i =< k
  PROVE  Count(s, c, i) =< Count(s, c, k)
<1>1. {j \in 1 .. i : s[j] = c} \subseteq {j \in 1 .. k : s[j] = c}
  OBVIOUS
<1>2. IsFiniteSet({j \in 1 .. k : s[j] = c})
  BY CountNat
<1> QED BY <1>1, <1>2, FS_Subset DEF Count

LEMMA CountHere ==
  ASSUME NEW s, NEW c, NEW i \in Nat, i > 0, s[i] = c
  PROVE  Count(s, c, i) > 0
<1>1. PICK k : k = i - 1
  OBVIOUS
<1>2. k \in Nat /\ k + 1 = i
  BY <1>1
<1>3. Count(s, c, k) \in Nat
  BY <1>2, CountNat
<1>4. Count(s, c, k + 1) = Count(s, c, k) + 1
  BY <1>2, CountNext
<1>5. Count(s, c, k) + 1 > 0
  BY <1>3
<1> QED BY <1>2, <1>4, <1>5

\* A statement with its names replaced, and the names put back: one piece for
\* each character.
NamedPiece(s, names, i) == IF s[i] = "?" THEN <<":">> \o names[Count(s, "?", i)] ELSE <<s[i]>>
NamedPieces(s, names) == [i \in 1 .. Len(s) |-> NamedPiece(s, names, i)]
PutBack(s, names) == FlattenSeq(NamedPieces(s, names))

\* There is a name for each question mark.
Matched(s, names) ==
  s \in Seq(Replaced) /\ names \in Seq(Seq(Characters)) /\ Count(s, "?", Len(s)) = Len(names)

LEMMA NameOf ==
  ASSUME NEW s, NEW names, Matched(s, names), NEW i \in 1 .. Len(s), s[i] = "?"
  PROVE  Count(s, "?", i) \in 1 .. Len(names)
<1>1. Len(s) \in Nat /\ Len(names) = Count(s, "?", Len(s))
  BY LenProperties DEF Matched
<1>2. i \in Nat /\ i > 0 /\ i =< Len(s)
  BY <1>1
<1>3. Count(s, "?", i) =< Count(s, "?", Len(s))
  BY <1>1, <1>2, CountGrows
<1>4. Count(s, "?", i) > 0
  BY <1>2, CountHere
<1>5. Count(s, "?", i) \in Nat /\ Count(s, "?", Len(s)) \in Nat
  BY <1>1, <1>2, CountNat
<1>6. PICK x, y : x = Count(s, "?", i) /\ y = Count(s, "?", Len(s))
  OBVIOUS
<1>7. x \in 1 .. y
  BY <1>3, <1>4, <1>5, <1>6
<1> QED BY <1>1, <1>6, <1>7

LEMMA PieceIn ==
  ASSUME NEW s, NEW names, Matched(s, names), NEW i \in 1 .. Len(s)
  PROVE  NamedPiece(s, names, i) \in Seq(Replaced)
<1>1. s \in Seq(Replaced) /\ names \in Seq(Seq(Characters))
  BY DEF Matched
<1>2. CASE s[i] = "?"
  <2>1. PICK k : k = Count(s, "?", i)
    OBVIOUS
  <2>2. k \in 1 .. Len(names)
    BY <1>2, <2>1, NameOf
  <2>3. names[k] \in Seq(Characters)
    BY <1>1, <2>2, ElementOfSeq
  <2>4. \A t \in Seq(Characters) : t \in Seq(Replaced)
    <3>1. Characters \subseteq Replaced
      BY DEF Replaced
    <3> QED BY <3>1, SeqIn
  <2>5. ":" \in Replaced
    BY CharactersAre DEF Replaced
  <2>6. <<":">> \in Seq(Replaced)
    BY <2>5
  <2>7. <<":">> \o names[k] \in Seq(Replaced)
    BY <2>3, <2>4, <2>6, ConcatProperties
  <2> QED BY <1>2, <2>1, <2>7 DEF NamedPiece
<1>3. CASE s[i] # "?"
  <2>1. s[i] \in Replaced
    BY <1>1, ElementOfSeq
  <2>2. <<s[i]>> \in Seq(Replaced)
    BY <2>1
  <2> QED BY <1>3, <2>2 DEF NamedPiece
<1> QED BY <1>2, <1>3

LEMMA PiecesIn ==
  ASSUME NEW s, NEW names, Matched(s, names)
  PROVE  NamedPieces(s, names) \in Seq(Seq(Replaced)) /\ Len(NamedPieces(s, names)) = Len(s)
<1>1. Len(s) \in Nat
  BY LenProperties DEF Matched
<1>2. NamedPieces(s, names) \in [1 .. Len(s) -> Seq(Replaced)]
  BY PieceIn DEF NamedPieces
<1> QED BY <1>1, <1>2, TableIs

\* Two parts, one behind the other.
Joined(x, p, q) == x = p \o q
LEMMA PiecesBehind ==
  ASSUME NEW s, NEW a, NEW t, NEW b, Matched(s, a), Matched(t, b),
         NEW u, NEW c, u = s \o t, c = a \o b,
         NEW p, NEW q, p = NamedPieces(s, a), q = NamedPieces(t, b)
  PROVE  Matched(u, c) /\ Joined(NamedPieces(u, c), p, q)
<1>1. /\ s \in Seq(Replaced) /\ a \in Seq(Seq(Characters)) /\ Count(s, "?", Len(s)) = Len(a)
      /\ t \in Seq(Replaced) /\ b \in Seq(Seq(Characters)) /\ Count(t, "?", Len(t)) = Len(b)
  BY DEF Matched
<1>2. PICK m, n : m = Len(s) /\ n = Len(t)
  OBVIOUS
<1>3. m \in Nat /\ n \in Nat /\ u \in Seq(Replaced) /\ Len(u) = m + n
  BY <1>1, <1>2, LenProperties, ConcatProperties
<1>4. c \in Seq(Seq(Characters)) /\ Len(c) = Len(a) + Len(b)
  BY <1>1, <1>2, ConcatProperties
<1>5. \A j \in 0 .. n : Count(u, "?", m + j) = Len(a) + Count(t, "?", j)
  <2>1. \A j \in 0 .. Len(t) : Count(s \o t, "?", Len(s) + j) = Count(s, "?", Len(s)) + Count(t, "?", j)
    BY <1>1, CountBehind
  <2> QED BY <1>1, <1>2, <2>1
<1>6. Matched(u, c)
  <2>1. n \in 0 .. n
    BY <1>3
  <2>2. Count(u, "?", m + n) = Len(a) + Len(b)
    BY <1>1, <1>2, <1>5, <2>1
  <2> QED BY <1>3, <1>4, <2>2 DEF Matched
<1>7. ASSUME NEW i \in 1 .. m PROVE NamedPiece(u, c, i) = NamedPiece(s, a, i)
  <2>1. \A j \in 1 .. i : u[j] = s[j]
    <3>1. ASSUME NEW j \in 1 .. i PROVE u[j] = s[j]
      <4>1. j \in 1 .. Len(s) + Len(t) /\ j =< Len(s)
        BY <1>2, <1>3
      <4> QED BY <1>1, <1>2, <4>1, ConcatProperties
    <3> QED BY <3>1
  <2>2. i \in Nat /\ i \in 1 .. i
    BY <1>3
  <2>3. u[i] = s[i] /\ Count(u, "?", i) = Count(s, "?", i)
    BY <2>1, <2>2, CountSame
  <2>4. ASSUME s[i] = "?" PROVE c[Count(s, "?", i)] = a[Count(s, "?", i)]
    <3>1. PICK k : k = Count(s, "?", i)
      OBVIOUS
    <3>2. k \in 1 .. Len(a)
      BY <1>2, <2>4, <3>1, NameOf
    <3>3. Len(a) \in Nat /\ Len(b) \in Nat
      BY <1>1, LenProperties
    <3>4. k \in 1 .. Len(a) + Len(b) /\ k =< Len(a)
      BY <3>2, <3>3
    <3>5. c[k] = a[k]
      BY <1>1, <1>2, <3>4, ConcatProperties
    <3> QED BY <3>1, <3>5
  <2> QED BY <2>3, <2>4 DEF NamedPiece
<1>8. ASSUME NEW i \in 1 .. n PROVE NamedPiece(u, c, m + i) = NamedPiece(t, b, i)
  <2>1. u[m + i] = t[i]
    BY <1>1, <1>2, BehindAt
  <2>2. i \in 0 .. n
    BY <1>3
  <2>3. Count(u, "?", m + i) = Len(a) + Count(t, "?", i)
    BY <1>5, <2>2
  <2>4. ASSUME t[i] = "?" PROVE c[Count(u, "?", m + i)] = b[Count(t, "?", i)]
    <3>1. PICK k : k = Count(t, "?", i)
      OBVIOUS
    <3>2. k \in 1 .. Len(b)
      BY <1>2, <2>4, <3>1, NameOf
    <3>3. (a \o b)[Len(a) + k] = b[k]
      BY <1>1, <3>2, BehindAt
    <3> QED BY <1>2, <2>3, <3>1, <3>3
  <2> QED BY <2>1, <2>4 DEF NamedPiece
<1>9. PICK x : x = NamedPieces(u, c)
  OBVIOUS
<1>10. x \in Seq(Seq(Replaced)) /\ Len(x) = m + n
  BY <1>3, <1>6, <1>9, PiecesIn
<1>11. p \in Seq(Seq(Replaced)) /\ Len(p) = m /\ q \in Seq(Seq(Replaced)) /\ Len(q) = n
  BY <1>2, <1>9, PiecesIn
<1>12. p \o q \in Seq(Seq(Replaced)) /\ Len(p \o q) = m + n
  BY <1>11, ConcatProperties
<1>13. ASSUME NEW i \in 1 .. m + n PROVE x[i] = (p \o q)[i]
  <2>1. CASE i =< m
    <3>1. i \in 1 .. m /\ i \in 1 .. Len(u)
      BY <1>3, <2>1
    <3>2. x[i] = NamedPiece(u, c, i) /\ p[i] = NamedPiece(s, a, i)
      BY <1>2, <1>9, <3>1 DEF NamedPieces
    <3>3. (p \o q)[i] = p[i]
      BY <1>11, <2>1, ConcatProperties
    <3> QED BY <1>7, <3>1, <3>2, <3>3
  <2>2. CASE i > m
    <3>1. PICK j : j = i - m
      OBVIOUS
    <3>2. j \in 1 .. n /\ m + j = i /\ i \in 1 .. Len(u)
      BY <1>3, <2>2, <3>1
    <3>3. x[i] = NamedPiece(u, c, i) /\ q[j] = NamedPiece(t, b, j)
      BY <1>2, <1>9, <3>2 DEF NamedPieces
    <3>4. PICK k : k = m + j
      OBVIOUS
    <3>5. (p \o q)[Len(p) + j] = q[j]
      <4>1. j \in 1 .. Len(q)
        BY <1>11, <3>2
      <4>2. Lies(p, q, j)
        BY <1>11, <4>1, LiesBehind
      <4> QED BY <4>2 DEF Lies
    <3>6. (p \o q)[k] = q[j]
      BY <1>11, <3>4, <3>5
    <3>7. NamedPiece(u, c, k) = NamedPiece(t, b, j)
      BY <1>8, <3>2, <3>4
    <3>8. k = i
      BY <3>2, <3>4
    <3> QED BY <3>3, <3>6, <3>7, <3>8
  <2>3. i =< m \/ i > m
    BY <1>3
  <2> QED BY <2>1, <2>2, <2>3
<1>14. x = p \o q
  BY <1>10, <1>12, <1>13, SeqEqual
<1> QED BY <1>2, <1>6, <1>9, <1>14 DEF Joined

LEMMA PutBackBehind ==
  ASSUME NEW s, NEW a, NEW t, NEW b, Matched(s, a), Matched(t, b),
         NEW u, NEW c, u = s \o t, c = a \o b
  PROVE  Matched(u, c) /\ Joined(PutBack(u, c), PutBack(s, a), PutBack(t, b))
<1>1. PICK p, q : p = NamedPieces(s, a) /\ q = NamedPieces(t, b)
  OBVIOUS
<1>2. p \in Seq(Seq(Replaced)) /\ q \in Seq(Seq(Replaced))
  BY <1>1, PiecesIn
<1>3. FlattenSeq(p \o q) = FlattenSeq(p) \o FlattenSeq(q)
  BY <1>2, FlattenConcat
<1>4. Joined(NamedPieces(u, c), p, q)
  BY <1>1, PiecesBehind
<1>5. Matched(u, c)
  BY PiecesBehind
<1>6. NamedPieces(u, c) = p \o q
  BY <1>4 DEF Joined
<1> QED BY <1>1, <1>3, <1>5, <1>6 DEF PutBack, Joined

\* One by one, and joined again.
LEMMA FlattenSingles ==
  ASSUME NEW S, NEW s \in Seq(S), NEW x \in Seq(Seq(S)), Len(x) = Len(s),
         \A i \in 1 .. Len(s) : x[i] = <<s[i]>>
  PROVE  FlattenSeq(x) = s
<1>1. PICK n, T : n = Len(s) /\ T = {k \in 0 .. n : FlattenSeq(Upto(x, k)) = Upto(s, k)}
  OBVIOUS
<1>2. n \in Nat
  BY <1>1, LenProperties
<1>3. 0 \in T
  <2>1. 0 \in 0 .. Len(s) /\ 0 \in 0 .. Len(x)
    BY <1>1, <1>2
  <2>2. Upto(x, 0) = <<>> /\ Upto(s, 0) = <<>>
    BY <2>1, UptoIs
  <2> QED BY <1>1, <2>1, <2>2, FlattenNothing
<1>4. \A k \in 0 .. n : k < n /\ k \in T => k + 1 \in T
  <2>1. ASSUME NEW k \in 0 .. n, k < n, k \in T PROVE k + 1 \in T
    <3>1. k + 1 \in 1 .. Len(s) /\ k + 1 \in 0 .. n /\ k \in 0 .. Len(s) /\ k \in 0 .. Len(x) /\ k < Len(s) /\ k < Len(x)
      BY <1>1, <1>2, <2>1
    <3>2. PICK u, v : u = Upto(x, k) /\ v = Upto(s, k)
      OBVIOUS
    <3>3. u \in Seq(Seq(S)) /\ Upto(x, k + 1) = Append(u, x[k + 1]) /\ x[k + 1] \in Seq(S)
      <4>1. Upto(x, k) \in Seq(Seq(S)) /\ Upto(x, k + 1) = Append(Upto(x, k), x[k + 1]) /\ x[k + 1] \in Seq(S)
        BY <3>1, UptoNext
      <4> QED BY <3>2, <4>1
    <3>4. v \in Seq(S) /\ Upto(s, k + 1) = Append(v, s[k + 1]) /\ s[k + 1] \in S
      <4>1. Upto(s, k) \in Seq(S) /\ Upto(s, k + 1) = Append(Upto(s, k), s[k + 1]) /\ s[k + 1] \in S
        BY <3>1, UptoNext
      <4> QED BY <3>2, <4>1
    <3>5. FlattenSeq(u) = v
      BY <1>1, <2>1, <3>2
    <3>6. PICK y, c : y = x[k + 1] /\ c = s[k + 1]
      OBVIOUS
    <3>7. y = <<c>> /\ y \in Seq(S) /\ c \in S
      BY <3>1, <3>3, <3>4, <3>6
    <3>8. FlattenSeq(Append(u, y)) = FlattenSeq(u) \o y
      BY <3>3, <3>7, FlattenAppend
    <3>9. v \o <<c>> = Append(v, c)
      BY <3>4, <3>7
    <3>10. FlattenSeq(Upto(x, k + 1)) = Upto(s, k + 1)
      BY <3>3, <3>4, <3>5, <3>6, <3>7, <3>8, <3>9
    <3> QED BY <1>1, <3>1, <3>10
  <2> QED BY <2>1
<1>5. \A k \in 0 .. n : k \in T
  BY <1>2, <1>3, <1>4, Counting
<1>6. n \in T /\ n \in 0 .. Len(s) /\ n \in 0 .. Len(x) /\ n = Len(x)
  BY <1>1, <1>2, <1>5
<1>7. Upto(x, n) = x /\ Upto(s, n) = s
  BY <1>1, <1>6, UptoIs
<1> QED BY <1>1, <1>6, <1>7

\* A part with no name in it is put back as it is.
LEMMA PlainBack ==
  ASSUME NEW q \in Seq(Characters)
  PROVE  Matched(q, <<>>) /\ PutBack(q, <<>>) = q
<1>1. Len(q) \in Nat
  BY LenProperties
<1>2. \A i \in 1 .. Len(q) : q[i] # "?"
  BY ElementOfSeq, CharactersAre
<1>3. q \in Seq(Replaced)
  <2>1. Characters \subseteq Replaced
    BY DEF Replaced
  <2> QED BY <2>1, SeqIn
<1>4. Matched(q, <<>>)
  <2>1. \A i \in 0 + 1 .. Len(q) : q[i] # "?"
    BY <1>2
  <2>2. 0 \in Nat /\ 0 =< Len(q)
    BY <1>1
  <2>3. Count(q, "?", Len(q)) = Count(q, "?", 0)
    BY <1>1, <2>1, <2>2, CountFlat
  <2>4. Count(q, "?", Len(q)) = 0
    BY <2>3, CountNone
  <2>5. Len(<<>>) = 0 /\ <<>> \in Seq(Seq(Characters))
    BY MarkIn
  <2> QED BY <1>3, <2>4, <2>5 DEF Matched
<1>5. PICK x : x = NamedPieces(q, <<>>)
  OBVIOUS
<1>6. x \in Seq(Seq(Replaced)) /\ Len(x) = Len(q)
  BY <1>4, <1>5, PiecesIn
<1>7. \A i \in 1 .. Len(q) : x[i] = <<q[i]>>
  BY <1>2, <1>5 DEF NamedPieces, NamedPiece
<1>8. FlattenSeq(x) = q
  BY <1>3, <1>6, <1>7, FlattenSingles
<1> QED BY <1>4, <1>5, <1>8 DEF PutBack

\* A name is put back behind its colon.
LEMMA NameBack ==
  ASSUME NEW name \in Seq(Characters)
  PROVE  Matched(<<"?">>, <<name>>) /\ PutBack(<<"?">>, <<name>>) = <<":">> \o name
<1>1. PICK s, a : s = <<"?">> /\ a = <<name>>
  OBVIOUS
<1>2. s \in Seq(Replaced) /\ Len(s) = 1 /\ s[1] = "?" /\ a \in Seq(Seq(Characters)) /\ Len(a) = 1 /\ a[1] = name
  BY <1>1, MarkIn
<1>3. Count(s, "?", 1) = 1
  <2>1. 0 \in Nat /\ 0 + 1 = 1
    OBVIOUS
  <2>2. Count(s, "?", 0) = 0
    BY CountNone
  <2>3. Count(s, "?", 0 + 1) = IF s[0 + 1] = "?" THEN Count(s, "?", 0) + 1 ELSE Count(s, "?", 0)
    BY <2>1, CountNext
  <2> QED BY <1>2, <2>1, <2>2, <2>3
<1>4. Matched(s, a)
  BY <1>2, <1>3 DEF Matched
<1>5. PICK x : x = NamedPiece(s, a, 1)
  OBVIOUS
<1>6. x \in Seq(Replaced)
  <2>1. 1 \in 1 .. Len(s)
    BY <1>2
  <2> QED BY <1>4, <1>5, <2>1, PieceIn
<1>7. x = <<":">> \o name
  BY <1>2, <1>3, <1>5 DEF NamedPiece
<1>8. NamedPieces(s, a) = <<x>>
  <2>1. NamedPieces(s, a) = [i \in 1 .. 1 |-> NamedPiece(s, a, i)]
    BY <1>2 DEF NamedPieces
  <2>2. 1 .. 1 = {1}
    OBVIOUS
  <2>3. [i \in 1 .. 1 |-> NamedPiece(s, a, i)] = [i \in {1} |-> x]
    BY <1>5, <2>2
  <2>4. [i \in {1} |-> x] = <<x>>
    OBVIOUS
  <2> QED BY <2>1, <2>3, <2>4
<1>9. FlattenSeq(<<x>>) = x
  BY <1>6, FlattenOne
<1> QED BY <1>1, <1>4, <1>7, <1>8, <1>9 DEF PutBack

\* Every question mark is outside the literals, every colon before a letter inside.
PlacedAt(s, j) ==
  /\ s[j] = "?" => Count(s, "'", j) % 2 # 1
  /\ s[j] = ":" /\ j < Len(s) /\ s[j + 1] \in Letters => Count(s, "'", j) % 2 = 1
Placed(s) == \A j \in 1 .. Len(s) : PlacedAt(s, j)
InPairs(s) == Count(s, "'", Len(s)) % 2 = 0
Begins(s) == Len(s) > 0 /\ s[1] \in Letters
Colon(s) == Len(s) > 0 /\ s[Len(s)] = ":"

LEMMA EvenMore ==
  ASSUME NEW a \in Nat, NEW b \in Nat, a % 2 = 0
  PROVE  (a + b) % 2 = b % 2
BY SMT

LEMMA InPairsBehind ==
  ASSUME NEW S, NEW s \in Seq(S), NEW t \in Seq(S), InPairs(s), NEW u, u = s \o t
  PROVE  InPairs(u) <=> InPairs(t)
<1>1. PICK m, n : m = Len(s) /\ n = Len(t)
  OBVIOUS
<1>2. m \in Nat /\ n \in Nat /\ n \in 0 .. n /\ Len(u) = m + n
  BY <1>1, LenProperties, ConcatProperties
<1>3. \A j \in 0 .. Len(t) : Count(s \o t, "'", Len(s) + j) = Count(s, "'", Len(s)) + Count(t, "'", j)
  BY CountBehind
<1>4. Count(u, "'", m + n) = Count(s, "'", m) + Count(t, "'", n)
  BY <1>1, <1>2, <1>3
<1>5. PICK a, b : a = Count(s, "'", m) /\ b = Count(t, "'", n)
  OBVIOUS
<1>6. a \in Nat /\ b \in Nat
  BY <1>2, <1>5, CountNat
<1>7. a % 2 = 0
  BY <1>1, <1>5 DEF InPairs
<1>8. (a + b) % 2 = b % 2
  BY <1>6, <1>7, EvenMore
<1> QED BY <1>1, <1>2, <1>4, <1>5, <1>8 DEF InPairs

LEMMA PlacedBehind ==
  ASSUME NEW S, NEW s \in Seq(S), NEW t \in Seq(S), InPairs(s), Placed(s), Placed(t),
         ~(Colon(s) /\ Begins(t)), NEW u, u = s \o t
  PROVE  Placed(u)
<1>1. PICK m, n : m = Len(s) /\ n = Len(t)
  OBVIOUS
<1>2. m \in Nat /\ n \in Nat /\ Len(u) = m + n
  BY <1>1, LenProperties, ConcatProperties
<1>3. \A j \in 0 .. Len(t) : Count(s \o t, "'", Len(s) + j) = Count(s, "'", Len(s)) + Count(t, "'", j)
  BY CountBehind
<1>4. \A j \in 1 .. m + n : u[j] = IF j =< m THEN s[j] ELSE t[j - m]
  BY <1>1, ConcatProperties
<1>5. ASSUME NEW j \in 1 .. m PROVE PlacedAt(u, j)
  <2>1. j \in 1 .. m + n /\ j =< m /\ j \in Nat
    BY <1>2
  <2>2. \A k \in 1 .. j : u[k] = s[k]
    <3>1. \A k \in 1 .. j : k \in 1 .. m + n /\ k =< m
      BY <1>2, <2>1
    <3> QED BY <1>4, <3>1
  <2>3. Count(u, "'", j) = Count(s, "'", j)
    BY <2>1, <2>2, CountSame
  <2>4. u[j] = s[j]
    BY <1>4, <2>1
  <2>5. PlacedAt(s, j)
    BY <1>1 DEF Placed
  <2>6. CASE j < m
    <3>1. j + 1 \in 1 .. m + n /\ j + 1 =< m /\ j < m + n
      BY <1>2, <2>1, <2>6
    <3>2. u[j + 1] = s[j + 1]
      BY <1>4, <3>1
    <3> QED BY <1>1, <1>2, <2>3, <2>4, <2>5, <2>6, <3>1, <3>2 DEF PlacedAt
  <2>7. CASE j = m
    <3>1. ASSUME s[j] = ":", j < Len(u), u[j + 1] \in Letters PROVE FALSE
      <4>1. j + 1 \in 1 .. m + n /\ ~(j + 1 =< m) /\ (j + 1) - m = 1 /\ n > 0 /\ m > 0
        BY <1>2, <2>1, <2>7, <3>1
      <4>2. u[j + 1] = t[1]
        <5>1. u[j + 1] = IF j + 1 =< m THEN s[j + 1] ELSE t[(j + 1) - m]
          BY <1>4, <4>1
        <5> QED BY <4>1, <5>1
      <4>3. Begins(t)
        BY <1>1, <3>1, <4>1, <4>2 DEF Begins
      <4>4. Colon(s)
        BY <1>1, <2>7, <3>1, <4>1 DEF Colon
      <4> QED BY <4>3, <4>4
    <3>2. s[j] = "?" => Count(s, "'", j) % 2 # 1
      BY <2>5 DEF PlacedAt
    <3> QED BY <2>3, <2>4, <3>1, <3>2 DEF PlacedAt
  <2>8. j < m \/ j = m
    BY <1>2, <2>1
  <2> QED BY <2>6, <2>7, <2>8
<1>6. ASSUME NEW j \in 1 .. n PROVE PlacedAt(u, m + j)
  <2>1. PICK k : k = m + j
    OBVIOUS
  <2>2. k \in 1 .. m + n /\ ~(k =< m) /\ k - m = j /\ j \in 0 .. n /\ j \in Nat
    BY <1>2, <2>1
  <2>3. u[k] = t[j]
    BY <1>4, <2>2
  <2>4. Count(u, "'", k) = Count(s, "'", m) + Count(t, "'", j)
    BY <1>1, <1>3, <2>1, <2>2
  <2>5. PICK a, b : a = Count(s, "'", m) /\ b = Count(t, "'", j)
    OBVIOUS
  <2>6. a \in Nat /\ b \in Nat
    BY <1>2, <2>2, <2>5, CountNat
  <2>7. a % 2 = 0
    BY <1>1, <2>5 DEF InPairs
  <2>8. (a + b) % 2 = b % 2
    BY <2>6, <2>7, EvenMore
  <2>9. Count(u, "'", k) % 2 = Count(t, "'", j) % 2
    BY <2>4, <2>5, <2>8
  <2>10. PlacedAt(t, j)
    BY <1>1 DEF Placed
  <2>11. ASSUME k < Len(u) PROVE j < Len(t) /\ u[k + 1] = t[j + 1]
    <3>1. j < n /\ k + 1 \in 1 .. m + n /\ ~(k + 1 =< m) /\ (k + 1) - m = j + 1
      BY <1>2, <2>1, <2>11
    <3>2. u[k + 1] = IF k + 1 =< m THEN s[k + 1] ELSE t[(k + 1) - m]
      BY <1>4, <3>1
    <3> QED BY <1>1, <3>1, <3>2
  <2>12. PlacedAt(u, k)
    BY <2>3, <2>9, <2>10, <2>11 DEF PlacedAt
  <2> QED BY <2>1, <2>12
<1>7. ASSUME NEW j \in 1 .. Len(u) PROVE PlacedAt(u, j)
  <2>1. CASE j \in 1 .. m
    BY <1>5, <2>1
  <2>2. CASE j \notin 1 .. m
    <3>1. PICK i : i = j - m
      OBVIOUS
    <3>2. i \in 1 .. n /\ m + i = j
      BY <1>2, <2>2, <3>1
    <3>3. PlacedAt(u, m + i)
      BY <1>6, <3>2
    <3> QED BY <3>2, <3>3
  <2> QED BY <2>1, <2>2
<1> QED BY <1>7 DEF Placed

LEMMA CountFirst ==
  ASSUME NEW s, NEW c
  PROVE  Count(s, c, 1) = IF s[1] = c THEN 1 ELSE 0
<1>1. 0 \in Nat /\ 0 + 1 = 1
  OBVIOUS
<1>2. Count(s, c, 0) = 0
  BY CountNone
<1>3. Count(s, c, 0 + 1) = IF s[0 + 1] = c THEN Count(s, c, 0) + 1 ELSE Count(s, c, 0)
  BY <1>1, CountNext
<1> QED BY <1>1, <1>2, <1>3

\* One character.
LEMMA OnePlaced ==
  ASSUME NEW S, NEW s \in Seq(S), Len(s) = 1
  PROVE  Placed(s) /\ (s[1] # "'" => InPairs(s))
<1>1. Count(s, "'", 1) = IF s[1] = "'" THEN 1 ELSE 0
  BY CountFirst
<1>2. PICK e : e = Count(s, "'", 1)
  OBVIOUS
<1>3. s[1] # "'" => e % 2 = 0
  BY <1>1, <1>2, SMT
<1>4. ~(1 < 1)
  OBVIOUS
<1>5. s[1] = "?" => s[1] # "'"
  BY CharactersAre
<1>6. s[1] = "?" => e % 2 # 1
  BY <1>3, <1>5, SMT
<1>7. PlacedAt(s, 1)
  BY <1>2, <1>4, <1>6 DEF PlacedAt
<1>8. Placed(s)
  <2>1. \A j \in 1 .. Len(s) : j = 1
    OBVIOUS
  <2> QED BY <1>7, <2>1 DEF Placed
<1>9. s[1] # "'" => InPairs(s)
  BY <1>2, <1>3 DEF InPairs
<1> QED BY <1>8, <1>9

\* A literal has two apostrophes, at its ends, and whatever it has is inside.
Closed(raw, i, n, q) ==
  /\ q \in Seq(Characters) /\ Len(q) = n /\ q[1] = raw[i]
  /\ InPairs(q) /\ Placed(q) /\ ~Colon(q)
LEMMA LiteralPlaced ==
  ASSUME NEW raw \in Seq(Characters), NEW i \in 1 .. Len(raw), NEW n, LiteralShape(raw, i, n),
         NEW q, q = SubSeq(raw, i, i + n - 1)
  PROVE  Closed(raw, i, n, q)
<1>1. /\ n \in Nat /\ n > 1 /\ i + n - 1 =< Len(raw)
      /\ raw[i] = "'" /\ raw[i + n - 1] = "'"
      /\ \A j \in i + 1 .. i + n - 2 : raw[j] # "'"
  BY DEF LiteralShape
<1>2. PICK e : e = i + n - 1
  OBVIOUS
<1>3. i \in Nat /\ i > 0 /\ e \in Int /\ e =< Len(raw) /\ i =< e /\ e - i + 1 = n
  BY <1>1, <1>2, LenProperties
<1>4. /\ SubSeq(raw, i, e) \in Seq(Characters)
      /\ Len(SubSeq(raw, i, e)) = IF i =< e THEN e - i + 1 ELSE 0
      /\ \A j \in 1 .. e - i + 1 : SubSeq(raw, i, e)[j] = raw[i + j - 1]
  BY <1>3, PartOf
<1>5. q \in Seq(Characters) /\ Len(q) = n /\ \A j \in 1 .. n : q[j] = raw[i + j - 1]
  BY <1>2, <1>3, <1>4
<1>6. q[1] = raw[i] /\ q[1] = "'"
  <2>1. 1 \in 1 .. n /\ i + 1 - 1 = i
    BY <1>1, <1>3
  <2>2. q[1] = raw[i + 1 - 1]
    BY <1>5, <2>1
  <2> QED BY <1>1, <2>1, <2>2
<1>7. q[n] = "'"
  <2>1. n \in 1 .. n
    BY <1>1
  <2> QED BY <1>1, <1>5, <2>1
<1>8. ASSUME NEW j \in 2 .. n - 1 PROVE q[j] # "'"
  <2>1. PICK k : k = i + j - 1
    OBVIOUS
  <2>2. k \in i + 1 .. i + n - 2 /\ j \in 1 .. n
    BY <1>1, <1>3, <2>1
  <2>3. raw[k] # "'"
    BY <1>1, <2>2
  <2>4. q[j] = raw[k]
    BY <1>5, <2>1, <2>2
  <2> QED BY <2>3, <2>4
<1>9. Count(q, "'", 1) = 1
  BY <1>6, CountFirst
<1>10. ASSUME NEW j \in 1 .. n - 1 PROVE Count(q, "'", j) = 1
  <2>1. 1 \in Nat /\ j \in Nat /\ 1 =< j
    BY <1>1
  <2>2. \A k \in 1 + 1 .. j : q[k] # "'"
    <3>1. ASSUME NEW k \in 1 + 1 .. j PROVE q[k] # "'"
      <4>1. k \in 2 .. n - 1
        BY <1>1, <2>1
      <4> QED BY <1>8, <4>1
    <3> QED BY <3>1
  <2>3. Count(q, "'", j) = Count(q, "'", 1)
    BY <2>1, <2>2, CountFlat
  <2> QED BY <1>9, <2>3
<1>11. Count(q, "'", n) = 2
  <2>1. PICK k : k = n - 1
    OBVIOUS
  <2>2. k \in Nat /\ k \in 1 .. n - 1 /\ k + 1 = n
    BY <1>1, <2>1
  <2>3. Count(q, "'", k + 1) = IF q[k + 1] = "'" THEN Count(q, "'", k) + 1 ELSE Count(q, "'", k)
    <3>1. k \in Nat
      BY <2>2
    <3> QED BY <3>1, CountNext
  <2>4. Count(q, "'", k) = 1
    BY <1>10, <2>2
  <2> QED BY <1>7, <2>2, <2>3, <2>4
<1>12. InPairs(q)
  <2>1. 2 % 2 = 0
    BY SMT
  <2> QED BY <1>5, <1>11, <2>1 DEF InPairs
<1>13. ~Colon(q)
  BY <1>5, <1>7, CharactersAre DEF Colon
<1>14. ASSUME NEW j \in 1 .. n PROVE PlacedAt(q, j)
  <2>1. q[j] \in Characters
    BY <1>5, ElementOfSeq
  <2>2. q[j] # "?"
    BY <2>1, CharactersAre
  <2>3. CASE j < n
    <3>1. j \in 1 .. n - 1
      BY <1>1, <2>3
    <3>2. Count(q, "'", j) = 1
      BY <1>10, <3>1
    <3>3. 1 % 2 = 1
      BY SMT
    <3> QED BY <2>2, <3>2, <3>3 DEF PlacedAt
  <2>4. CASE ~(j < n)
    BY <1>5, <2>2, <2>4 DEF PlacedAt
  <2> QED BY <2>3, <2>4
<1>15. Placed(q)
  BY <1>5, <1>14 DEF Placed
<1> QED BY <1>5, <1>6, <1>12, <1>13, <1>15 DEF Closed

LEMMA ReplacingIn ==
  ASSUME NEW raw \in Seq(Characters), NEW i \in 1 .. Len(raw) + 1, NEW f,
         \A k \in i + 1 .. Len(raw) + 1 : f[k] \in Parsed
  PROVE  Replacing(raw, f, i) \in Parsed
<1>1. Len(raw) \in Nat
  BY LenProperties
<1>2. CASE i > Len(raw)
  <2>1. [sql |-> <<>>, names |-> <<>>] \in Parsed
    BY MarkIn DEF Parsed
  <2> QED BY <1>2, <2>1 DEF Replacing
<1>3. CASE ~(i > Len(raw))
  <2>1. i \in 1 .. Len(raw)
    BY <1>1, <1>3
  <2>2. PICK m, w, r : m = Taken(raw, i) /\ w = WordBehind(raw, i) /\ r = f[i + Taken(raw, i)]
    OBVIOUS
  <2>3. m \in Nat /\ i + m \in i + 1 .. Len(raw) + 1 /\ w \in Nat /\ (w > 0 => TakesName(raw, i))
    BY <2>1, <2>2, TakenIs
  <2>5. r \in Parsed
    BY <2>2, <2>3
  <2>6. PICK s, a : s = r.sql /\ a = r.names
    OBVIOUS
  <2>7. s \in Seq(Replaced) /\ a \in Seq(Seq(Characters))
    BY <2>5, <2>6 DEF Parsed
  <2>8. CASE w > 0
    <3>1. i + w =< Len(raw)
      BY <2>2, <2>3, <2>8 DEF TakesName
    <3>2. PICK name : name = SubSeq(raw, i + 1, i + w)
      OBVIOUS
    <3>3. i + 1 \in Nat /\ i + 1 > 0 /\ i + w \in Int
      BY <2>3
    <3>4. name \in Seq(Characters)
      BY <3>1, <3>2, <3>3, PartIn
    <3>5. <<name>> \in Seq(Seq(Characters))
      BY <3>4
    <3>6. <<"?">> \o s \in Seq(Replaced)
      BY <2>7, MarkIn, ConcatProperties
    <3>7. <<name>> \o a \in Seq(Seq(Characters))
      BY <2>7, <3>5, ConcatProperties
    <3>8. Replacing(raw, f, i) = [sql |-> <<"?">> \o s, names |-> <<name>> \o a]
      BY <1>3, <2>2, <2>6, <2>8, <3>2 DEF Replacing
    <3>9. PICK x, y : x = <<"?">> \o s /\ y = <<name>> \o a
      OBVIOUS
    <3>10. [sql |-> x, names |-> y] \in Parsed
      BY <3>6, <3>7, <3>9 DEF Parsed
    <3> QED BY <3>8, <3>9, <3>10
  <2>9. CASE ~(w > 0)
    <3>1. PICK q : q = SubSeq(raw, i, i + m - 1)
      OBVIOUS
    <3>2. i \in Nat /\ i > 0 /\ i + m - 1 \in Int /\ i + m - 1 =< Len(raw)
      BY <1>1, <2>3
    <3>3. q \in Seq(Replaced)
      BY <3>1, <3>2, PartIn
    <3>4. q \o s \in Seq(Replaced)
      BY <2>7, <3>3, ConcatProperties
    <3>5. Replacing(raw, f, i) = [r EXCEPT !.sql = q \o @]
      BY <1>3, <2>2, <2>9, <3>1 DEF Replacing
    <3>6. PICK x : x = q \o s
      OBVIOUS
    <3>7. Replacing(raw, f, i) = [r EXCEPT !.sql = x]
      BY <2>6, <3>5, <3>6
    <3>8. x \in Seq(Replaced)
      BY <3>4, <3>6
    <3>9. [r EXCEPT !.sql = x] \in Parsed
      BY <2>5, <3>8 DEF Parsed
    <3> QED BY <3>7, <3>9
  <2> QED BY <2>8, <2>9
<1> QED BY <1>2, <1>3

LEMMA ReplacingBehind ==
  ASSUME NEW raw \in Seq(Characters), NEW i \in 1 .. Len(raw) + 1, NEW f, NEW g,
         \A k \in i + 1 .. Len(raw) + 1 : f[k] = g[k]
  PROVE  Replacing(raw, f, i) = Replacing(raw, g, i)
<1>1. Len(raw) \in Nat
  BY LenProperties
<1>2. CASE i > Len(raw)
  BY <1>2 DEF Replacing
<1>3. CASE ~(i > Len(raw))
  <2>1. i \in 1 .. Len(raw)
    BY <1>1, <1>3
  <2>2. i + Taken(raw, i) \in i + 1 .. Len(raw) + 1
    BY <2>1, TakenIs
  <2>3. f[i + Taken(raw, i)] = g[i + Taken(raw, i)]
    BY <2>2
  <2> QED BY <1>3, <2>3 DEF Replacing
<1> QED BY <1>2, <1>3

\* The parsing is the recursion its definition writes.
NamedBy(raw, h) == \A i \in 1 .. Len(raw) + 1 : h[i] = Replacing(raw, h, i)

LEMMA NamedIs ==
  ASSUME NEW raw \in Seq(Characters)
  PROVE  \E h : parse_named(raw) = h[1] /\ NamedBy(raw, h)
<1> DEFINE n == Len(raw)
           D == 1 .. n + 1
           S == [p \in D \X [D -> Parsed] |-> Replacing(raw, p[2], p[1])]
           Step(g) == [i \in D |-> Replacing(raw, g, i)]
           h == CHOOSE g : g = Step(g)
<1>1. parse_named(raw) = h[1]
  BY DEF parse_named, Replacing, Taken, WordBehind
<1>2. n \in Nat
  BY LenProperties
<1>3. S \in [D \X [D -> Parsed] -> Parsed]
  <2> HIDE DEF n
  <2>1. ASSUME NEW p \in D \X [D -> Parsed] PROVE Replacing(raw, p[2], p[1]) \in Parsed
    <3>1. PICK i, f : i = p[1] /\ f = p[2]
      OBVIOUS
    <3>2. i \in D /\ f \in [D -> Parsed]
      BY <3>1
    <3>3. \A k \in i + 1 .. n + 1 : f[k] \in Parsed
      BY <1>2, <3>2
    <3>4. Replacing(raw, f, i) \in Parsed
      BY <3>2, <3>3, ReplacingIn DEF n
    <3> QED BY <3>1, <3>4
  <2> QED BY <2>1
<1>4. ASSUME NEW d \in D, NEW f \in [D -> Parsed], NEW g \in [D -> Parsed], \A k \in d + 1 .. n + 1 : f[k] = g[k]
      PROVE  S[<<d, f>>] = S[<<d, g>>]
  <2>1. Replacing(raw, f, d) = Replacing(raw, g, d)
    BY <1>4, ReplacingBehind
  <2>2. S[<<d, f>>] = Replacing(raw, f, d) /\ S[<<d, g>>] = Replacing(raw, g, d)
    OBVIOUS
  <2> QED BY <2>1, <2>2
<1>5. LooksBehind(n, Parsed, S)
  <2> HIDE DEF n, S
  <2> QED BY <1>4 DEF LooksBehind
<1>6. [sql |-> <<>>, names |-> <<>>] \in Parsed
  BY MarkIn DEF Parsed
<1>7. SolvedBehind(n, Parsed, S)
  <2> HIDE DEF n, S
  <2> QED BY <1>2, <1>3, <1>5, <1>6, Backwards
<1>8. PICK f \in [D -> Parsed] : \A d \in D : f[d] = S[<<d, f>>]
  BY <1>7 DEF SolvedBehind
<1>9. \A d \in D : f[d] = Replacing(raw, f, d)
  BY <1>8
<1>10. f = Step(f)
  BY <1>9
<1>11. h = Step(h)
  BY <1>10
<1> HIDE DEF h
<1>12. \A i \in D : h[i] = Replacing(raw, h, i)
  BY <1>11
<1> QED BY <1>1, <1>12 DEF NamedBy

\* What a parsing from place i on keeps of the statement: all of it can be put back;
\* it begins with a letter only if the statement does there; and where the apostrophes
\* left are in pairs, it has its question marks and colons where they should be.
Rest(raw, i) == SubSeq(raw, i, Len(raw))
Kept(raw, i, p) ==
  /\ p \in Parsed
  /\ Matched(p.sql, p.names)
  /\ PutBack(p.sql, p.names) = Rest(raw, i)
  /\ Begins(p.sql) => i =< Len(raw) /\ raw[i] \in Letters
  /\ InPairs(Rest(raw, i)) => Placed(p.sql)

\* A part s, with the names a, stands for what is taken of the statement at place i.
StandsFor(raw, i, m, s, a) ==
  /\ Matched(s, a) /\ Len(s) > 0
  /\ PutBack(s, a) = SubSeq(raw, i, i + m - 1)
  /\ s[1] \in Letters => raw[i] \in Letters
  /\ InPairs(Rest(raw, i)) =>
       /\ Placed(s) /\ InPairs(s) /\ InPairs(SubSeq(raw, i, i + m - 1))
       /\ ~(Colon(s) /\ i + m =< Len(raw) /\ raw[i + m] \in Letters)

LEMMA RestIs ==
  ASSUME NEW raw \in Seq(Characters), NEW i \in 1 .. Len(raw) + 1
  PROVE  Rest(raw, i) \in Seq(Characters) /\ Len(Rest(raw, i)) = Len(raw) + 1 - i
<1>1. PICK n : n = Len(raw)
  OBVIOUS
<1>2. n \in Nat /\ i \in Nat /\ i > 0 /\ n \in Int /\ n =< n
  BY <1>1, LenProperties
<1>3. SubSeq(raw, i, n) \in Seq(Characters) /\ Len(SubSeq(raw, i, n)) = IF i =< n THEN n - i + 1 ELSE 0
  BY <1>1, <1>2, PartOf
<1>4. (IF i =< n THEN n - i + 1 ELSE 0) = n + 1 - i
  BY <1>1, <1>2
<1> QED BY <1>1, <1>3, <1>4 DEF Rest

LEMMA KeptStep ==
  ASSUME NEW raw \in Seq(Characters), NEW i \in 1 .. Len(raw), NEW m \in Nat, m > 0,
         i + m =< Len(raw) + 1, NEW s, NEW a, StandsFor(raw, i, m, s, a),
         NEW r, Kept(raw, i + m, r),
         NEW p \in Parsed, p.sql = s \o r.sql, p.names = a \o r.names
  PROVE  Kept(raw, i, p)
<1>1. PICK q, u, v : q = SubSeq(raw, i, i + m - 1) /\ u = Rest(raw, i) /\ v = Rest(raw, i + m)
  OBVIOUS
<1>2. PICK n, k, e : n = Len(raw) /\ k = i + m /\ e = i + m - 1
  OBVIOUS
<1>3. n \in Nat /\ k \in 1 .. n + 1 /\ e \in i - 1 .. n /\ e + 1 = k /\ i \in 1 .. n + 1 /\ n \in e .. n /\ i \in Nat /\ i > 0 /\ e \in Int /\ e =< n
  BY <1>2, LenProperties
<1>4. u = q \o v
  <2>1. SubSeq(raw, i, e) \o SubSeq(raw, e + 1, n) = SubSeq(raw, i, n)
    BY <1>2, <1>3, ConcatAdjacentSubSeq
  <2> QED BY <1>1, <1>2, <1>3, <2>1 DEF Rest
<1>5. q \in Seq(Characters) /\ v \in Seq(Characters)
  <2>1. q \in Seq(Characters)
    BY <1>1, <1>2, <1>3, PartIn
  <2>2. v \in Seq(Characters)
    BY <1>1, <1>2, <1>3, RestIs
  <2> QED BY <2>1, <2>2
<1>6. PICK t, b, x, y : t = r.sql /\ b = r.names /\ x = p.sql /\ y = p.names
  OBVIOUS
<1>7. /\ r \in Parsed /\ Matched(t, b) /\ PutBack(t, b) = v
      /\ Begins(t) => k =< n /\ raw[k] \in Letters
      /\ InPairs(v) => Placed(t)
  BY <1>1, <1>2, <1>6 DEF Kept
<1>8. /\ Matched(s, a) /\ Len(s) > 0 /\ PutBack(s, a) = q
      /\ s[1] \in Letters => raw[i] \in Letters
      /\ InPairs(u) => /\ Placed(s) /\ InPairs(s) /\ InPairs(q)
                       /\ ~(Colon(s) /\ k =< n /\ raw[k] \in Letters)
  BY <1>1, <1>2 DEF StandsFor
<1>9. x = s \o t /\ y = a \o b
  BY <1>6
<1>10. s \in Seq(Replaced) /\ t \in Seq(Replaced)
  BY <1>7, <1>8 DEF Matched
<1>11. Matched(x, y) /\ Joined(PutBack(x, y), PutBack(s, a), PutBack(t, b))
  BY <1>7, <1>8, <1>9, PutBackBehind
<1>12. PutBack(x, y) = u
  <2>1. PutBack(x, y) = PutBack(s, a) \o PutBack(t, b)
    BY <1>11 DEF Joined
  <2> QED BY <1>4, <1>7, <1>8, <2>1
<1>13. ASSUME Begins(x) PROVE i =< n /\ raw[i] \in Letters
  <2>1. Len(s) \in Nat /\ Len(t) \in Nat
    BY <1>10, LenProperties
  <2>2. 1 \in 1 .. Len(s) + Len(t) /\ 1 =< Len(s)
    BY <1>8, <2>1
  <2>3. x[1] = s[1]
    BY <1>9, <1>10, <2>2, ConcatProperties
  <2>4. x[1] \in Letters
    BY <1>13 DEF Begins
  <2> QED BY <1>2, <1>8, <2>3, <2>4
<1>14. ASSUME InPairs(u) PROVE Placed(x)
  <2>1. InPairs(v)
    BY <1>4, <1>5, <1>8, <1>14, InPairsBehind
  <2>2. Placed(t)
    BY <1>7, <2>1
  <2>3. ~(Colon(s) /\ Begins(t))
    BY <1>7, <1>8, <1>14
  <2>4. Placed(s) /\ InPairs(s)
    BY <1>8, <1>14
  <2> QED BY <1>9, <1>10, <2>2, <2>3, <2>4, PlacedBehind
<1> QED BY <1>1, <1>2, <1>6, <1>11, <1>12, <1>13, <1>14 DEF Kept

LEMMA NoApostrophe ==
  ASSUME NEW S, NEW s \in Seq(S), \A j \in 1 .. Len(s) : s[j] # "'"
  PROVE  InPairs(s)
<1>1. Len(s) \in Nat /\ 0 \in Nat /\ 0 =< Len(s)
  BY LenProperties
<1>2. \A j \in 0 + 1 .. Len(s) : s[j] # "'"
  OBVIOUS
<1>3. Count(s, "'", Len(s)) = Count(s, "'", 0)
  BY <1>1, <1>2, CountFlat
<1>4. Count(s, "'", Len(s)) = 0
  BY <1>3, CountNone
<1>5. 0 % 2 = 0
  BY SMT
<1> QED BY <1>4, <1>5 DEF InPairs

LEMMA FirstTaken ==
  ASSUME NEW raw \in Seq(Characters), NEW i \in 1 .. Len(raw)
  PROVE  SubSeq(raw, i, i) = <<raw[i]>> /\ raw[i] \in Characters
<1>1. i \in Nat /\ i > 0 /\ i \in Int /\ i =< Len(raw) /\ i - i + 1 = 1 /\ i + 1 - 1 = i
  BY LenProperties
<1>2. PICK q : q = SubSeq(raw, i, i)
  OBVIOUS
<1>3. /\ SubSeq(raw, i, i) \in Seq(Characters)
      /\ Len(SubSeq(raw, i, i)) = IF i =< i THEN i - i + 1 ELSE 0
      /\ \A j \in 1 .. i - i + 1 : SubSeq(raw, i, i)[j] = raw[i + j - 1]
  BY <1>1, PartOf
<1>4. q \in Seq(Characters) /\ Len(q) = 1
  BY <1>1, <1>2, <1>3
<1>5. q[1] = raw[i]
  <2>1. 1 \in 1 .. i - i + 1
    BY <1>1
  <2>2. q[1] = raw[i + 1 - 1]
    BY <1>2, <1>3, <2>1
  <2> QED BY <1>1, <2>2
<1>6. q = <<q[1]>>
  BY <1>4
<1>7. raw[i] \in Characters
  BY ElementOfSeq
<1> QED BY <1>2, <1>5, <1>6, <1>7

LEMMA NameStands ==
  ASSUME NEW raw \in Seq(Characters), NEW i \in 1 .. Len(raw), TakesName(raw, i)
  PROVE  StandsFor(raw, i, Taken(raw, i), <<"?">>, <<SubSeq(raw, i + 1, i + WordBehind(raw, i))>>)
<1>1. PICK w, m : w = WordBehind(raw, i) /\ m = Taken(raw, i)
  OBVIOUS
<1>2. /\ w \in Nat /\ w > 0 /\ m = 1 + w /\ i + w =< Len(raw) /\ raw[i] = ":"
      /\ \A j \in i + 1 .. i + w : raw[j] \in Letters
  BY <1>1 DEF TakesName
<1>3. PICK e, k : e = i + w /\ k = i + 1
  OBVIOUS
<1>4. /\ e = i + m - 1 /\ k \in Nat /\ k > 0 /\ e \in Int /\ e =< Len(raw) /\ i \in Nat /\ i > 0
      /\ i \in 1 .. Len(raw) + 1 /\ i \in i - 1 .. Len(raw) /\ e \in i .. Len(raw) /\ e - i + 1 = m /\ i =< e
  BY <1>2, <1>3, LenProperties
<1>5. PICK name, s, a : name = SubSeq(raw, k, e) /\ s = <<"?">> /\ a = <<SubSeq(raw, k, e)>>
  OBVIOUS
<1>6. name \in Seq(Characters)
  BY <1>4, <1>5, PartIn
<1>7. Matched(s, a) /\ PutBack(s, a) = <<":">> \o name
  BY <1>5, <1>6, NameBack
<1>8. PICK q : q = SubSeq(raw, i, e)
  OBVIOUS
<1>9. PutBack(s, a) = q
  <2>1. SubSeq(raw, i, i) \o SubSeq(raw, i + 1, e) = SubSeq(raw, i, e)
    BY <1>4, ConcatAdjacentSubSeq
  <2>2. SubSeq(raw, i, i) = <<":">>
    BY <1>2, FirstTaken
  <2> QED BY <1>3, <1>5, <1>7, <1>8, <2>1, <2>2
<1>10. s \in Seq(Replaced) /\ Len(s) = 1 /\ s[1] = "?"
  BY <1>5, MarkIn
<1>11. s[1] # "'" /\ s[1] # ":" /\ s[1] \notin Letters
  BY <1>10, CharactersAre
<1>12. Placed(s) /\ InPairs(s)
  BY <1>10, <1>11, OnePlaced
<1>13. ~Colon(s)
  BY <1>10, <1>11 DEF Colon
<1>14. InPairs(q)
  <2>1. /\ SubSeq(raw, i, e) \in Seq(Characters)
        /\ Len(SubSeq(raw, i, e)) = IF i =< e THEN e - i + 1 ELSE 0
        /\ \A j \in 1 .. e - i + 1 : SubSeq(raw, i, e)[j] = raw[i + j - 1]
    BY <1>4, PartOf
  <2>2. q \in Seq(Characters) /\ Len(q) = m /\ \A j \in 1 .. m : q[j] = raw[i + j - 1]
    BY <1>4, <1>8, <2>1
  <2>3. ASSUME NEW j \in 1 .. Len(q) PROVE q[j] # "'"
    <3>1. PICK l : l = i + j - 1
      OBVIOUS
    <3>2. j \in 1 .. m /\ (l = i \/ l \in i + 1 .. i + w)
      BY <1>2, <1>4, <2>2, <3>1
    <3>3. q[j] = raw[l]
      BY <2>2, <3>1, <3>2
    <3>4. raw[l] = ":" \/ raw[l] \in Letters
      BY <1>2, <3>2
    <3> QED BY <3>3, <3>4, CharactersAre
  <2> QED BY <2>2, <2>3, NoApostrophe
<1>15. StandsFor(raw, i, m, s, a)
  <2>1. Len(s) > 0
    BY <1>10
  <2> QED BY <1>4, <1>7, <1>8, <1>9, <1>11, <1>12, <1>13, <1>14, <2>1 DEF StandsFor
<1> QED BY <1>1, <1>3, <1>5, <1>15

LEMMA LiteralStands ==
  ASSUME NEW raw \in Seq(Characters), NEW i \in 1 .. Len(raw), TakesLiteral(raw, i)
  PROVE  StandsFor(raw, i, Taken(raw, i), SubSeq(raw, i, i + Taken(raw, i) - 1), <<>>)
<1>1. PICK m : m = Taken(raw, i)
  OBVIOUS
<1>0. PICK q : q = SubSeq(raw, i, i + m - 1)
  OBVIOUS
<1>2. LiteralShape(raw, i, m)
  BY <1>1 DEF TakesLiteral
<1>7. Closed(raw, i, m, q)
  BY <1>0, <1>2, LiteralPlaced
<1>3. q \in Seq(Characters) /\ Len(q) = m /\ q[1] = raw[i] /\ InPairs(q) /\ Placed(q) /\ ~Colon(q)
  BY <1>7 DEF Closed
<1>4. Matched(q, <<>>) /\ PutBack(q, <<>>) = q
  BY <1>3, PlainBack
<1>5. m > 0
  BY <1>2 DEF LiteralShape
<1>6. StandsFor(raw, i, m, q, <<>>)
  BY <1>0, <1>3, <1>4, <1>5 DEF StandsFor
<1> QED BY <1>0, <1>1, <1>6

LEMMA OneStands ==
  ASSUME NEW raw \in Seq(Characters), NEW i \in 1 .. Len(raw), TakesOne(raw, i)
  PROVE  StandsFor(raw, i, Taken(raw, i), SubSeq(raw, i, i + Taken(raw, i) - 1), <<>>)
<1>1. /\ Taken(raw, i) = 1
      /\ raw[i] = ":" => i + 1 > Len(raw) \/ raw[i + 1] \notin Letters
      /\ raw[i] = "'" => \A j \in i + 1 .. Len(raw) : raw[j] # "'"
  BY DEF TakesOne
<1>2. PICK q : q = <<raw[i]>>
  OBVIOUS
<1>3. i + 1 - 1 = i /\ i \in Nat /\ i > 0 /\ Len(raw) \in Nat
  BY LenProperties
<1>4. q = SubSeq(raw, i, i + 1 - 1) /\ raw[i] \in Characters
  BY <1>2, <1>3, FirstTaken
<1>5. q \in Seq(Characters) /\ Len(q) = 1 /\ q[1] = raw[i]
  BY <1>2, <1>4
<1>6. Matched(q, <<>>) /\ PutBack(q, <<>>) = q
  BY <1>5, PlainBack
<1>7. ASSUME InPairs(Rest(raw, i)) PROVE raw[i] # "'"
  <2>1. SUFFICES ASSUME raw[i] = "'" PROVE FALSE
    OBVIOUS
  <2>2. PICK u, n, k : u = Rest(raw, i) /\ n = Len(raw) /\ k = Len(raw) + 1 - i
    OBVIOUS
  <2>3. i \in 1 .. Len(raw) + 1 /\ k \in Nat /\ 1 =< k /\ 1 \in 1 .. k /\ i + 1 - 1 = i
    BY <1>3, <2>2
  <2>4. Len(u) = k
    BY <2>2, <2>3, RestIs
  <2>5. \A j \in 1 .. k : u[j] = raw[i + j - 1]
    <3>1. n \in Int /\ n =< n /\ i =< n /\ n - i + 1 = k
      BY <1>3, <2>2
    <3>2. \A j \in 1 .. n - i + 1 : SubSeq(raw, i, n)[j] = raw[i + j - 1]
      BY <1>3, <2>2, <3>1, PartOf
    <3> QED BY <2>2, <3>1, <3>2 DEF Rest
  <2>6. u[1] = "'"
    <3>1. u[1] = raw[i + 1 - 1]
      BY <2>3, <2>5
    <3> QED BY <2>1, <2>3, <3>1
  <2>7. Count(u, "'", 1) = 1
    BY <2>6, CountFirst
  <2>8. ASSUME NEW j \in 1 + 1 .. k PROVE u[j] # "'"
    <3>1. PICK l : l = i + j - 1
      OBVIOUS
    <3>2. l \in i + 1 .. Len(raw) /\ j \in 1 .. k
      BY <1>3, <2>2, <2>3, <3>1
    <3>3. u[j] = raw[l]
      BY <2>5, <3>1, <3>2
    <3> QED BY <1>1, <2>1, <3>2, <3>3
  <2>9. Count(u, "'", k) = Count(u, "'", 1)
    <3>1. 1 \in Nat
      OBVIOUS
    <3> QED BY <2>3, <2>8, <3>1, CountFlat
  <2>10. 1 % 2 # 0
    BY SMT
  <2> QED BY <1>7, <2>2, <2>4, <2>7, <2>9, <2>10 DEF InPairs
<1>8. Placed(q) /\ (q[1] # "'" => InPairs(q))
  BY <1>5, OnePlaced
<1>9. ASSUME Colon(q), i + 1 =< Len(raw), raw[i + 1] \in Letters PROVE FALSE
  <2>1. raw[i] = ":"
    BY <1>5, <1>9 DEF Colon
  <2>2. ~(i + 1 > Len(raw))
    BY <1>3, <1>9
  <2> QED BY <1>1, <1>9, <2>1, <2>2
<1>10. StandsFor(raw, i, 1, q, <<>>)
  <2>1. Len(q) > 0
    BY <1>5
  <2> QED BY <1>4, <1>5, <1>6, <1>7, <1>8, <1>9, <2>1 DEF StandsFor
<1> QED BY <1>1, <1>4, <1>10

LEMMA KeptEnd ==
  ASSUME NEW raw \in Seq(Characters), NEW h, NEW i, i = Len(raw) + 1
  PROVE  Kept(raw, i, Replacing(raw, h, i))
<1>1. Len(raw) \in Nat
  BY LenProperties
<1>2. PICK p, e : p = Replacing(raw, h, i) /\ e = <<>>
  OBVIOUS
<1>3. p = [sql |-> e, names |-> e]
  <2>1. i > Len(raw)
    BY <1>1
  <2> QED BY <1>2, <2>1 DEF Replacing
<1>4. e \in Seq(Characters) /\ e \in Seq(Replaced) /\ e \in Seq(Seq(Characters)) /\ Len(e) = 0
  <2>1. <<>> \in Seq(Characters)
    BY EmptySeq
  <2> QED BY <1>2, <2>1, MarkIn
<1>5. p \in Parsed
  BY <1>3, <1>4 DEF Parsed
<1>6. Matched(e, e) /\ PutBack(e, e) = e
  BY <1>2, <1>4, PlainBack
<1>7. Rest(raw, i) = e
  <2>1. i \in Int /\ Len(raw) \in Int /\ Len(raw) < i
    BY <1>1
  <2>2. SubSeq(raw, i, Len(raw)) = <<>>
    BY <2>1, SubSeqEmpty
  <2> QED BY <1>2, <2>2 DEF Rest
<1>8. ~Begins(e) /\ Placed(e)
  BY <1>4 DEF Begins, Placed
<1>9. p.sql = e /\ p.names = e
  BY <1>3
<1> QED BY <1>2, <1>5, <1>6, <1>7, <1>8, <1>9 DEF Kept

LEMMA KeptOne ==
  ASSUME NEW raw \in Seq(Characters), NEW h, NEW i \in 1 .. Len(raw),
         \A k \in i + 1 .. Len(raw) + 1 : Kept(raw, k, h[k])
  PROVE  Kept(raw, i, Replacing(raw, h, i))
<1>1. Len(raw) \in Nat /\ i \in 1 .. Len(raw) + 1 /\ ~(i > Len(raw))
  BY LenProperties
<1>2. PICK m, w, p : m = Taken(raw, i) /\ w = WordBehind(raw, i) /\ p = Replacing(raw, h, i)
  OBVIOUS
<1>3. m \in Nat /\ i + m \in i + 1 .. Len(raw) + 1 /\ w \in Nat /\ (w > 0 => TakesName(raw, i))
  BY <1>2, TakenIs
<1>4. PICK r : r = h[i + m]
  OBVIOUS
<1>5. Kept(raw, i + m, r)
  BY <1>3, <1>4
<1>6. p \in Parsed
  <2>1. \A k \in i + 1 .. Len(raw) + 1 : h[k] \in Parsed
    BY DEF Kept
  <2> QED BY <1>1, <1>2, <2>1, ReplacingIn
<1>7. m > 0 /\ i + m =< Len(raw) + 1
  BY <1>1, <1>3
<1>8. CASE w > 0
  <2>1. PICK s, a : s = <<"?">> /\ a = <<SubSeq(raw, i + 1, i + w)>>
    OBVIOUS
  <2>2. p = [sql |-> s \o r.sql, names |-> a \o r.names]
    BY <1>1, <1>2, <1>4, <1>8, <2>1 DEF Replacing
  <2>3. p.sql = s \o r.sql /\ p.names = a \o r.names
    BY <2>2
  <2>4. StandsFor(raw, i, m, s, a)
    BY <1>2, <1>3, <1>8, <2>1, NameStands
  <2>5. Kept(raw, i, p)
    BY <1>3, <1>5, <1>6, <1>7, <2>3, <2>4, KeptStep
  <2> QED BY <1>2, <2>5
<1>9. CASE ~(w > 0)
  <2>1. PICK q : q = SubSeq(raw, i, i + m - 1)
    OBVIOUS
  <2>2. p = [r EXCEPT !.sql = q \o @]
    BY <1>1, <1>2, <1>4, <1>9, <2>1 DEF Replacing
  <2>3. r \in Parsed
    BY <1>5 DEF Kept
  <2>4. p.sql = q \o r.sql /\ p.names = r.names
    BY <2>2, <2>3 DEF Parsed
  <2>5. r.names \in Seq(Seq(Characters))
    BY <2>3 DEF Parsed
  <2>6. p.names = <<>> \o r.names
    BY <2>4, <2>5, ConcatEmptySeq
  <2>7. ~TakesName(raw, i)
    BY <1>2, <1>9 DEF TakesName
  <2>8. TakesLiteral(raw, i) \/ TakesOne(raw, i)
    BY <2>7, TakesOneOfThree
  <2>9. StandsFor(raw, i, m, q, <<>>)
    BY <1>2, <2>1, <2>8, LiteralStands, OneStands
  <2>10. Kept(raw, i, p)
    <3>1. PICK a : a = <<>>
      OBVIOUS
    <3>2. StandsFor(raw, i, m, q, a) /\ p.names = a \o r.names
      BY <2>6, <2>9, <3>1
    <3> QED BY <1>3, <1>5, <1>6, <1>7, <2>4, <3>2, KeptStep
  <2> QED BY <1>2, <2>10
<1> QED BY <1>8, <1>9

\* So it is for the whole statement.
LEMMA StatementKept ==
  ASSUME NEW raw \in Seq(Characters)
  PROVE  Kept(raw, 1, parse_named(raw))
<1>1. PICK h : parse_named(raw) = h[1] /\ NamedBy(raw, h)
  BY NamedIs
<1>2. PICK n, T : n = Len(raw) + 1 /\ T = {i \in 1 .. Len(raw) + 1 : Kept(raw, i, h[i])}
  OBVIOUS
<1>3. n \in Nat /\ 1 \in 1 .. n
  BY <1>2, LenProperties
<1>4. \A i \in 1 .. n : (\A j \in i + 1 .. n : j \in T) => i \in T
  <2>1. ASSUME NEW i \in 1 .. n, \A j \in i + 1 .. n : j \in T PROVE i \in T
    <3>1. h[i] = Replacing(raw, h, i)
      BY <1>1, <1>2 DEF NamedBy
    <3>2. \A k \in i + 1 .. Len(raw) + 1 : Kept(raw, k, h[k])
      BY <1>2, <2>1
    <3>3. i = Len(raw) + 1 \/ i \in 1 .. Len(raw)
      BY <1>2, LenProperties
    <3>4. Kept(raw, i, Replacing(raw, h, i))
      BY <3>2, <3>3, KeptEnd, KeptOne
    <3> QED BY <1>2, <2>1, <3>1, <3>4
  <2> QED BY <2>1
<1>5. \A i \in 1 .. n : i \in T
  BY <1>3, <1>4, CountingDown
<1>6. 1 \in T
  BY <1>3, <1>5
<1> QED BY <1>1, <1>2, <1>6

\* Every name that parsing took out of a statement, put back where its question mark
\* is, gives the statement again: no name is lost, taken twice or out of order.
THEOREM NamesGoBack ==
  ASSUME NEW raw \in Seq(Characters), NEW p, p = parse_named(raw)
  PROVE  raw = FlattenSeq([i \in DOMAIN p.sql |->
                 IF p.sql[i] = "?" THEN <<":">> \o p.names[Cardinality({j \in 1 .. i : p.sql[j] = "?"})]
                 ELSE <<p.sql[i]>>])
<1>1. Kept(raw, 1, p)
  BY StatementKept
<1>2. PICK s, a : s = p.sql /\ a = p.names
  OBVIOUS
<1>3. Matched(s, a) /\ PutBack(s, a) = Rest(raw, 1)
  BY <1>1, <1>2 DEF Kept
<1>4. Rest(raw, 1) = raw
  BY SubSeqFull DEF Rest
<1>5. DOMAIN s = 1 .. Len(s)
  BY <1>3, LenProperties DEF Matched
<1>6. NamedPieces(s, a) = [i \in DOMAIN s |->
          IF s[i] = "?" THEN <<":">> \o a[Cardinality({j \in 1 .. i : s[j] = "?"})] ELSE <<s[i]>>]
  BY <1>5 DEF NamedPieces, NamedPiece, Count
<1> QED BY <1>2, <1>3, <1>4, <1>6 DEF PutBack

\* In any statement whose apostrophes are in pairs, parsing puts its question marks
\* outside the literals only, and leaves a colon before a letter inside them only.
THEOREM NamesAreFound ==
  ASSUME NEW raw \in Seq(Characters), NEW p, p = parse_named(raw),
         Apostrophes(raw, Len(raw)) % 2 = 0, NEW i \in DOMAIN p.sql
  PROVE  /\ p.sql[i] = "?" => ~InLiteral(p.sql, i)
         /\ p.sql[i] = ":" /\ i < Len(p.sql) /\ p.sql[i + 1] \in Letters => InLiteral(p.sql, i)
<1>1. Kept(raw, 1, p)
  BY StatementKept
<1>2. PICK s : s = p.sql
  OBVIOUS
<1>3. s \in Seq(Replaced) /\ (InPairs(Rest(raw, 1)) => Placed(s))
  BY <1>1, <1>2 DEF Kept, Matched
<1>4. Rest(raw, 1) = raw
  BY SubSeqFull DEF Rest
<1>5. InPairs(raw)
  BY DEF InPairs, Apostrophes, Count
<1>6. i \in 1 .. Len(s)
  BY <1>2, <1>3, LenProperties
<1>7. PlacedAt(s, i)
  BY <1>3, <1>4, <1>5, <1>6 DEF Placed
<1>8. /\ s[i] = "?" => ~InLiteral(s, i)
      /\ s[i] = ":" /\ i < Len(s) /\ s[i + 1] \in Letters => InLiteral(s, i)
  BY <1>7 DEF PlacedAt, InLiteral, Apostrophes, Count
<1> QED BY <1>2, <1>8

\* The values of a struct that has every name go where the names were.
LEMMA ValuesFollow ==
  ASSUME NEW names
  PROVE  convert(names, [name \in Range(names) |-> Len(name)]) = [i \in DOMAIN names |-> Len(names[i])]
<1>1. \A i \in DOMAIN names : names[i] \in Range(names)
  BY DEF Range
<1> QED BY <1>1 DEF convert

---------------------------------------------------------------------------
(* The errors of a reply                                                   *)

Messages == Seq(Seq(Nat))
Item == [t : {"gds"}, code : Nat, text : Messages] \cup [t : {"string"}, arg : Messages]
        \cup [t : {"number"}, arg : Messages, n : Int] \cup [t : {"warning"}]
States == [gds_code : Nat, num_arg : Nat, message : Messages, sql_code : Int, unknown : BOOLEAN]
Start == [gds_code |-> 0, num_arg |-> 0, message |-> <<>>, sql_code |-> -1, unknown |-> FALSE]

\* The last item of some, with what the ones before it gave in f.
Folding(items, f, s) == IF s = {} THEN Start ELSE status_item(f[s \ {Max(s)}], items[Max(s)])
VectorFold(items) ==
  CHOOSE f : f = [s \in SUBSET DOMAIN items |-> Folding(items, f, s)]

LEMMA VectorIs ==
  ASSUME NEW items
  PROVE  LET st == VectorFold(items)[DOMAIN items]
         IN parse_status_vector(items) = IF st.unknown THEN UnknownItem ELSE [code |-> st.sql_code, msg |-> st.message]
BY DEF parse_status_vector, FoldLeft, MapThenFoldSet, VectorFold, Folding, Start

LEMMA MaxOf ==
  ASSUME NEW n \in Nat, NEW s \in SUBSET (1 .. n), s # {}
  PROVE  Max(s) \in s /\ \A y \in s : Max(s) >= y
<1>1. PICK A : A = {n + 1 - x : x \in s}
  OBVIOUS
<1>2. A \subseteq 1 .. n /\ A # {}
  <2>1. \A x \in s : n + 1 - x \in 1 .. n
    OBVIOUS
  <2>2. A \subseteq 1 .. n
    BY <1>1, <2>1
  <2>3. PICK x : x \in s
    OBVIOUS
  <2>4. n + 1 - x \in A
    BY <1>1, <2>3
  <2> QED BY <2>2, <2>4
<1>3. PICK e \in A : \A k \in A : e =< k
  BY <1>2, FirstPlace
<1>4. PICK x \in s : e = n + 1 - x
  BY <1>1
<1>5. \A y \in s : x >= y
  <2>1. ASSUME NEW y \in s PROVE x >= y
    <3>1. n + 1 - y \in A
      BY <1>1
    <3>2. e =< n + 1 - y
      BY <1>3, <3>1
    <3>3. x \in 1 .. n /\ y \in 1 .. n
      OBVIOUS
    <3> QED BY <1>4, <3>2, <3>3
  <2> QED BY <2>1
<1>6. \E z \in s : \A y \in s : z >= y
  BY <1>5
<1> QED BY <1>6 DEF Max

\* An item of each kind.
ItemIn(item) ==
  \/ item.t = "gds" /\ item.code \in Nat /\ item.text \in Messages
  \/ item.t = "string" /\ item.arg \in Messages
  \/ item.t = "number" /\ item.arg \in Messages /\ item.n \in Int
  \/ item.t = "warning"

LEMMA ItemIs == ASSUME NEW item \in Item PROVE ItemIn(item)
BY DEF Item, ItemIn

\* What an item does, by its kind.
LEMMA ErrorItem ==
  ASSUME NEW st \in States, NEW item, item.t = "gds"
  PROVE  /\ item.code # 0 => status_item(st, item) =
              [gds_code |-> item.code, num_arg |-> 0, message |-> st.message \o item.text,
               sql_code |-> st.sql_code, unknown |-> st.unknown]
         /\ item.code = 0 => status_item(st, item) =
              [gds_code |-> 0, num_arg |-> st.num_arg, message |-> st.message,
               sql_code |-> st.sql_code, unknown |-> st.unknown]
BY DEF status_item, gds_to_msg, States

LEMMA ArgumentItem ==
  ASSUME NEW st \in States, NEW item, item.t \in {"number", "string"}
  PROVE  status_item(st, item) =
           [gds_code |-> st.gds_code, num_arg |-> st.num_arg + 1,
            message |-> replace(st.message, st.num_arg + 1, item.arg),
            sql_code |-> IF item.t = "number" /\ st.gds_code = isc_sqlerr THEN item.n ELSE st.sql_code,
            unknown |-> st.unknown]
BY DEF status_item, States

LEMMA WarningItem ==
  ASSUME NEW st \in States, NEW item, item.t = "warning"
  PROVE  status_item(st, item) =
           [gds_code |-> st.gds_code, num_arg |-> st.num_arg, message |-> st.message,
            sql_code |-> st.sql_code, unknown |-> TRUE]
BY DEF status_item, States

\* The pieces of a message that put an argument in the places n.
Put(x, n, arg) == IF x = <<n>> THEN arg ELSE <<x>>
Puts(m, n, arg) == [i \in 1 .. Len(m) |-> Put(m[i], n, arg)]

LEMMA PutIn ==
  ASSUME NEW x \in Seq(Nat), NEW n, NEW arg \in Messages
  PROVE  Put(x, n, arg) \in Messages
<1>1. <<x>> \in Messages
  BY DEF Messages
<1> QED BY <1>1 DEF Put

LEMMA PutsIn ==
  ASSUME NEW m \in Messages, NEW n, NEW arg \in Messages
  PROVE  /\ Puts(m, n, arg) \in Seq(Messages) /\ Len(Puts(m, n, arg)) = Len(m)
         /\ replace(m, n, arg) = FlattenSeq(Puts(m, n, arg))
<1>1. Len(m) \in Nat /\ DOMAIN m = 1 .. Len(m)
  BY LenProperties DEF Messages
<1>2. ASSUME NEW i \in 1 .. Len(m) PROVE Put(m[i], n, arg) \in Messages
  <2>1. m[i] \in Seq(Nat)
    BY ElementOfSeq DEF Messages
  <2> QED BY <2>1, PutIn
<1>3. Puts(m, n, arg) \in [1 .. Len(m) -> Messages]
  BY <1>2 DEF Puts
<1>4. Puts(m, n, arg) \in Seq(Messages) /\ Len(Puts(m, n, arg)) = Len(m)
  BY <1>1, <1>3, TableIs
<1>5. replace(m, n, arg) = FlattenSeq(Puts(m, n, arg))
  BY <1>1 DEF replace, Puts, Put
<1> QED BY <1>4, <1>5

LEMMA ReplaceIn ==
  ASSUME NEW m \in Messages, NEW n, NEW arg \in Messages
  PROVE  replace(m, n, arg) \in Messages
<1>1. PICK q : q = Puts(m, n, arg)
  OBVIOUS
<1>2. q \in Seq(Seq(Seq(Nat))) /\ replace(m, n, arg) = FlattenSeq(q)
  BY <1>1, PutsIn DEF Messages
<1>3. FlattenSeq(q) \in Seq(Seq(Nat))
  <2>1. <<>> \in Seq(Seq(Nat))
    BY EmptySeq
  <2> QED BY <1>2, <2>1, FlattenAppend
<1> QED BY <1>2, <1>3 DEF Messages

LEMMA ReplaceBehind ==
  ASSUME NEW a \in Messages, NEW b \in Messages, NEW n, NEW arg \in Messages
  PROVE  Joined(replace(a \o b, n, arg), replace(a, n, arg), replace(b, n, arg))
<1>1. PICK u, p, q, x : u = a \o b /\ p = Puts(a, n, arg) /\ q = Puts(b, n, arg) /\ x = Puts(a \o b, n, arg)
  OBVIOUS
<1>2. a \in Seq(Seq(Nat)) /\ b \in Seq(Seq(Nat))
  BY DEF Messages
<1>3. PICK l, k : l = Len(a) /\ k = Len(b)
  OBVIOUS
<1>4. l \in Nat /\ k \in Nat /\ u \in Seq(Seq(Nat)) /\ Len(u) = l + k
  BY <1>1, <1>2, <1>3, LenProperties, ConcatProperties
<1>5. u \in Messages
  BY <1>4 DEF Messages
<1>6. p \in Seq(Messages) /\ Len(p) = l /\ replace(a, n, arg) = FlattenSeq(p)
  BY <1>1, <1>3, PutsIn
<1>7. q \in Seq(Messages) /\ Len(q) = k /\ replace(b, n, arg) = FlattenSeq(q)
  BY <1>1, <1>3, PutsIn
<1>8. x \in Seq(Messages) /\ Len(x) = l + k /\ replace(u, n, arg) = FlattenSeq(x)
  BY <1>1, <1>4, <1>5, PutsIn
<1>9. p \o q \in Seq(Messages) /\ Len(p \o q) = l + k
  BY <1>6, <1>7, ConcatProperties
<1>10. ASSUME NEW i \in 1 .. l + k PROVE x[i] = (p \o q)[i]
  <2>1. x[i] = Put(u[i], n, arg)
    BY <1>1, <1>4 DEF Puts
  <2>2. i \in 1 .. Len(a) + Len(b) /\ i \in 1 .. Len(p) + Len(q)
    BY <1>3, <1>6, <1>7
  <2>3. u[i] = IF i <= Len(a) THEN a[i] ELSE b[i - Len(a)]
    BY <1>1, <1>2, <2>2, ConcatProperties
  <2>4. (p \o q)[i] = IF i <= Len(p) THEN p[i] ELSE q[i - Len(p)]
    BY <1>6, <1>7, <2>2, ConcatProperties
  <2>5. CASE i <= l
    <3>1. i \in 1 .. Len(a)
      BY <1>3, <1>4, <2>5
    <3>2. p[i] = Put(a[i], n, arg)
      BY <1>1, <3>1 DEF Puts
    <3> QED BY <1>3, <1>6, <2>1, <2>3, <2>4, <2>5, <3>2
  <2>6. CASE ~(i <= l)
    <3>1. PICK j : j = i - l
      OBVIOUS
    <3>2. j \in 1 .. Len(b)
      BY <1>3, <1>4, <2>6, <3>1
    <3>3. q[j] = Put(b[j], n, arg)
      BY <1>1, <3>2 DEF Puts
    <3> QED BY <1>3, <1>6, <2>1, <2>3, <2>4, <2>6, <3>1, <3>3
  <2> QED BY <2>5, <2>6
<1>11. x = p \o q
  BY <1>8, <1>9, <1>10, SeqEqual
<1>12. FlattenSeq(p \o q) = FlattenSeq(p) \o FlattenSeq(q)
  BY <1>6, <1>7, FlattenConcat DEF Messages
<1> QED BY <1>1, <1>6, <1>7, <1>8, <1>11, <1>12 DEF Joined

LEMMA ReplaceOne ==
  ASSUME NEW x \in Seq(Nat), NEW n, NEW arg \in Messages
  PROVE  replace(<<x>>, n, arg) = Put(x, n, arg)
<1>1. PICK m, y : m = <<x>> /\ y = Put(x, n, arg)
  OBVIOUS
<1>2. m \in Messages /\ Len(m) = 1 /\ m[1] = x
  BY <1>1 DEF Messages
<1>3. y \in Seq(Seq(Nat))
  BY <1>1, PutIn DEF Messages
<1>4. Puts(m, n, arg) = <<y>>
  <2>1. Puts(m, n, arg) = [i \in 1 .. 1 |-> Put(m[i], n, arg)]
    BY <1>2 DEF Puts
  <2>2. 1 .. 1 = {1}
    OBVIOUS
  <2>3. [i \in 1 .. 1 |-> Put(m[i], n, arg)] = [i \in {1} |-> y]
    BY <1>1, <1>2, <2>2
  <2>4. [i \in {1} |-> y] = <<y>>
    OBVIOUS
  <2> QED BY <2>1, <2>3, <2>4
<1>5. replace(m, n, arg) = FlattenSeq(<<y>>)
  BY <1>2, <1>4, PutsIn
<1>6. FlattenSeq(<<y>>) = y
  BY <1>3, FlattenOne
<1> QED BY <1>1, <1>5, <1>6

LEMMA ReplaceNothing ==
  ASSUME NEW n, NEW arg \in Messages
  PROVE  replace(<<>>, n, arg) = <<>>
<1>1. PICK m : m = <<>>
  OBVIOUS
<1>2. m \in Messages /\ Len(m) = 0
  BY <1>1, EmptySeq DEF Messages
<1>3. PICK x : x = Puts(m, n, arg)
  OBVIOUS
<1>4. x \in Seq(Messages) /\ Len(x) = 0 /\ replace(m, n, arg) = FlattenSeq(x)
  BY <1>2, <1>3, PutsIn
<1>5. x = <<>>
  BY <1>4, EmptySeq
<1> QED BY <1>1, <1>4, <1>5, FlattenNothing

\* Messages with no place in them.
Free == {x \in Seq(Nat) : Len(x) # 1}

LEMMA FreeIs == ASSUME NEW m \in Seq(Free) PROVE m \in Messages /\ \A i \in 1 .. Len(m) : Len(m[i]) # 1
<1>1. Free \subseteq Seq(Nat)
  BY DEF Free
<1>2. m \in Seq(Seq(Nat))
  BY <1>1, SeqIn
<1>3. \A i \in 1 .. Len(m) : m[i] \in Free
  BY ElementOfSeq
<1> QED BY <1>2, <1>3 DEF Messages, Free

LEMMA ReplaceFree ==
  ASSUME NEW m \in Seq(Free), NEW n, NEW arg \in Messages
  PROVE  replace(m, n, arg) = m
<1>1. m \in Messages /\ \A i \in 1 .. Len(m) : Len(m[i]) # 1
  BY FreeIs
<1>2. PICK x : x = Puts(m, n, arg)
  OBVIOUS
<1>3. x \in Seq(Messages) /\ Len(x) = Len(m) /\ replace(m, n, arg) = FlattenSeq(x)
  BY <1>1, <1>2, PutsIn
<1>4. ASSUME NEW i \in 1 .. Len(m) PROVE x[i] = <<m[i]>>
  <2>1. m[i] # <<n>>
    <3>1. Len(<<n>>) = 1
      OBVIOUS
    <3> QED BY <1>1, <3>1
  <2> QED BY <1>2, <2>1 DEF Puts, Put
<1>5. FlattenSeq(x) = m
  BY <1>1, <1>3, <1>4, FlattenSingles DEF Messages
<1> QED BY <1>3, <1>5

LEMMA JoinedMessages ==
  ASSUME NEW q \in Seq(Messages)
  PROVE  FlattenSeq(q) \in Messages
<1>1. <<>> \in Seq(Seq(Nat))
  BY EmptySeq
<1>2. q \in Seq(Seq(Seq(Nat)))
  BY DEF Messages
<1>3. FlattenSeq(q) \in Seq(Seq(Nat))
  BY <1>1, <1>2, FlattenAppend
<1> QED BY <1>3 DEF Messages

LEMMA ReplaceFlat ==
  ASSUME NEW q \in Seq(Messages), NEW r \in Seq(Messages), NEW n, NEW arg \in Messages, Len(r) = Len(q),
         \A i \in 1 .. Len(q) : r[i] = replace(q[i], n, arg)
  PROVE  replace(FlattenSeq(q), n, arg) = FlattenSeq(r)
<1>1. PICK l, T : l = Len(q) /\ T = {k \in 0 .. l : replace(FlattenSeq(Upto(q, k)), n, arg) = FlattenSeq(Upto(r, k))}
  OBVIOUS
<1>2. l \in Nat
  BY <1>1, LenProperties
<1>3. 0 \in T
  <2>1. 0 \in 0 .. Len(q) /\ 0 \in 0 .. Len(r)
    BY <1>1, <1>2
  <2>2. Upto(q, 0) = <<>> /\ Upto(r, 0) = <<>>
    BY <2>1, UptoIs
  <2> QED BY <1>1, <2>1, <2>2, FlattenNothing, ReplaceNothing
<1>4. \A k \in 0 .. l : k < l /\ k \in T => k + 1 \in T
  <2>1. ASSUME NEW k \in 0 .. l, k < l, k \in T PROVE k + 1 \in T
    <3>1. k + 1 \in 1 .. Len(q) /\ k + 1 \in 0 .. l /\ k \in 0 .. Len(q) /\ k \in 0 .. Len(r) /\ k < Len(q) /\ k < Len(r)
      BY <1>1, <1>2, <2>1
    <3>2. PICK u, v, y, z : u = Upto(q, k) /\ v = Upto(r, k) /\ y = q[k + 1] /\ z = r[k + 1]
      OBVIOUS
    <3>3. u \in Seq(Messages) /\ Upto(q, k + 1) = Append(u, y) /\ y \in Messages
      <4>1. Upto(q, k) \in Seq(Messages) /\ Upto(q, k + 1) = Append(Upto(q, k), q[k + 1]) /\ q[k + 1] \in Messages
        BY <3>1, UptoNext
      <4> QED BY <3>2, <4>1
    <3>4. v \in Seq(Messages) /\ Upto(r, k + 1) = Append(v, z) /\ z \in Messages
      <4>1. Upto(r, k) \in Seq(Messages) /\ Upto(r, k + 1) = Append(Upto(r, k), r[k + 1]) /\ r[k + 1] \in Messages
        BY <3>1, UptoNext
      <4> QED BY <3>2, <4>1
    <3>5. replace(FlattenSeq(u), n, arg) = FlattenSeq(v)
      BY <1>1, <2>1, <3>2
    <3>6. z = replace(y, n, arg)
      BY <3>1, <3>2
    <3>7. PICK f, g : f = FlattenSeq(u) /\ g = FlattenSeq(v)
      OBVIOUS
    <3>8. FlattenSeq(Append(u, y)) = f \o y
      BY <3>3, <3>7, FlattenAppend DEF Messages
    <3>9. FlattenSeq(Append(v, z)) = g \o z
      BY <3>4, <3>7, FlattenAppend DEF Messages
    <3>10. f \in Messages
      BY <3>3, <3>7, JoinedMessages
    <3>11. Joined(replace(f \o y, n, arg), replace(f, n, arg), replace(y, n, arg))
      BY <3>3, <3>10, ReplaceBehind
    <3>12. replace(f \o y, n, arg) = g \o z
      BY <3>5, <3>6, <3>7, <3>11 DEF Joined
    <3>13. replace(FlattenSeq(Upto(q, k + 1)), n, arg) = FlattenSeq(Upto(r, k + 1))
      BY <3>3, <3>4, <3>8, <3>9, <3>12
    <3> QED BY <1>1, <3>1, <3>13
  <2> QED BY <2>1
<1>5. \A k \in 0 .. l : k \in T
  BY <1>2, <1>3, <1>4, Counting
<1>6. l \in T /\ l \in 0 .. Len(q) /\ l \in 0 .. Len(r) /\ l = Len(r)
  BY <1>1, <1>2, <1>5
<1>7. Upto(q, l) = q /\ Upto(r, l) = r
  BY <1>1, <1>6, UptoIs
<1> QED BY <1>1, <1>6, <1>7

\* The text of an error with its first j arguments in their places.
Fill(x, args, j) == IF Len(x) = 1 /\ x[1] \in 1 .. j THEN args[x[1]].arg ELSE <<x>>
Fills(text, args, j) == [i \in 1 .. Len(text) |-> Fill(text[i], args, j)]
Filled(text, args, j) == FlattenSeq(Fills(text, args, j))
\* The arguments, none of which reads like a place.
Supplied(args) == Len(args) \in Nat /\ \A i \in 1 .. Len(args) : args[i].arg \in Seq(Free)

LEMMA FillIn ==
  ASSUME NEW x \in Seq(Nat), NEW args, Supplied(args), NEW j \in 0 .. Len(args)
  PROVE  Fill(x, args, j) \in Messages
<1>1. CASE Len(x) = 1 /\ x[1] \in 1 .. j
  <2>1. x[1] \in 1 .. Len(args)
    BY <1>1 DEF Supplied
  <2>2. args[x[1]].arg \in Messages
    BY <2>1, FreeIs DEF Supplied
  <2> QED BY <1>1, <2>2 DEF Fill
<1>2. CASE ~(Len(x) = 1 /\ x[1] \in 1 .. j)
  <2>1. <<x>> \in Messages
    BY DEF Messages
  <2> QED BY <1>2, <2>1 DEF Fill
<1> QED BY <1>1, <1>2

LEMMA FillNext ==
  ASSUME NEW x \in Seq(Nat), NEW args, Supplied(args), NEW j \in 0 .. Len(args), j < Len(args)
  PROVE  replace(Fill(x, args, j), j + 1, args[j + 1].arg) = Fill(x, args, j + 1)
<1>1. PICK a : a = args[j + 1].arg
  OBVIOUS
<1>2. j \in Nat /\ j + 1 \in 1 .. Len(args) /\ 1 .. j + 1 = 1 .. j \cup {j + 1} /\ j + 1 \notin 1 .. j
  BY DEF Supplied
<1>3. a \in Seq(Free)
  BY <1>1, <1>2 DEF Supplied
<1>4. a \in Messages
  BY <1>3, FreeIs
<1>5. CASE Len(x) = 1 /\ x[1] \in 1 .. j
  <2>1. PICK b : b = args[x[1]].arg
    OBVIOUS
  <2>2. x[1] \in 1 .. Len(args)
    BY <1>5 DEF Supplied
  <2>3. b \in Seq(Free)
    BY <2>1, <2>2 DEF Supplied
  <2>4. replace(b, j + 1, a) = b
    BY <1>4, <2>3, ReplaceFree
  <2>5. x[1] \in 1 .. j + 1
    BY <1>2, <1>5
  <2> QED BY <1>1, <1>5, <2>1, <2>4, <2>5 DEF Fill
<1>6. CASE ~(Len(x) = 1 /\ x[1] \in 1 .. j)
  <2>1. replace(<<x>>, j + 1, a) = Put(x, j + 1, a)
    BY <1>4, ReplaceOne
  <2>2. Fill(x, args, j) = <<x>>
    BY <1>6 DEF Fill
  <2>3. CASE x = <<j + 1>>
    <3>1. Len(x) = 1 /\ x[1] = j + 1
      BY <2>3
    <3>2. Fill(x, args, j + 1) = a
      BY <1>1, <1>2, <3>1 DEF Fill
    <3>3. Put(x, j + 1, a) = a
      BY <2>3 DEF Put
    <3> QED BY <1>1, <2>1, <2>2, <3>2, <3>3
  <2>4. CASE x # <<j + 1>>
    <3>1. ~(Len(x) = 1 /\ x[1] = j + 1)
      <4>1. SUFFICES ASSUME Len(x) = 1, x[1] = j + 1 PROVE FALSE
        OBVIOUS
      <4>2. PICK y : y = <<j + 1>>
        OBVIOUS
      <4>3. y \in Seq(Nat) /\ Len(y) = 1 /\ y[1] = j + 1
        BY <1>2, <4>2
      <4>4. \A i \in 1 .. Len(x) : x[i] = y[i]
        BY <4>1, <4>3
      <4>5. x = y
        BY <4>1, <4>3, <4>4, SeqEqual
      <4> QED BY <2>4, <4>2, <4>5
    <3>2. ~(Len(x) = 1 /\ x[1] \in 1 .. j + 1)
      BY <1>2, <1>6, <3>1
    <3>3. Fill(x, args, j + 1) = <<x>>
      BY <3>2 DEF Fill
    <3>4. Put(x, j + 1, a) = <<x>>
      BY <2>4 DEF Put
    <3> QED BY <1>1, <2>1, <2>2, <3>3, <3>4
  <2> QED BY <2>3, <2>4
<1> QED BY <1>5, <1>6

LEMMA FillsIn ==
  ASSUME NEW text \in Messages, NEW args, Supplied(args), NEW j \in 0 .. Len(args)
  PROVE  Fills(text, args, j) \in Seq(Messages) /\ Len(Fills(text, args, j)) = Len(text)
<1>1. Len(text) \in Nat
  BY LenProperties DEF Messages
<1>2. ASSUME NEW i \in 1 .. Len(text) PROVE Fill(text[i], args, j) \in Messages
  <2>1. text[i] \in Seq(Nat)
    BY ElementOfSeq DEF Messages
  <2> QED BY <2>1, FillIn
<1>3. Fills(text, args, j) \in [1 .. Len(text) -> Messages]
  BY <1>2 DEF Fills
<1> QED BY <1>1, <1>3, TableIs

\* The next argument goes into its places, and nowhere else.
LEMMA FilledNext ==
  ASSUME NEW text \in Messages, NEW args, Supplied(args), NEW j \in 0 .. Len(args), j < Len(args)
  PROVE  replace(Filled(text, args, j), j + 1, args[j + 1].arg) = Filled(text, args, j + 1)
<1>1. PICK q, r : q = Fills(text, args, j) /\ r = Fills(text, args, j + 1)
  OBVIOUS
<1>2. j + 1 \in 0 .. Len(args) /\ j + 1 \in 1 .. Len(args)
  BY DEF Supplied
<1>3. q \in Seq(Messages) /\ Len(q) = Len(text)
  BY <1>1, FillsIn
<1>4. r \in Seq(Messages) /\ Len(r) = Len(text)
  BY <1>1, <1>2, FillsIn
<1>5. PICK a : a = args[j + 1].arg
  OBVIOUS
<1>6. a \in Messages
  BY <1>2, <1>5, FreeIs DEF Supplied
<1>7. ASSUME NEW i \in 1 .. Len(q) PROVE r[i] = replace(q[i], j + 1, a)
  <2>1. i \in 1 .. Len(text)
    BY <1>3
  <2>2. text[i] \in Seq(Nat)
    BY <2>1, ElementOfSeq DEF Messages
  <2>3. q[i] = Fill(text[i], args, j) /\ r[i] = Fill(text[i], args, j + 1)
    BY <1>1, <2>1 DEF Fills
  <2>4. replace(Fill(text[i], args, j), j + 1, args[j + 1].arg) = Fill(text[i], args, j + 1)
    BY <2>2, FillNext
  <2> QED BY <1>5, <2>3, <2>4
<1>8. replace(FlattenSeq(q), j + 1, a) = FlattenSeq(r)
  BY <1>3, <1>4, <1>6, <1>7, ReplaceFlat
<1> QED BY <1>1, <1>5, <1>8 DEF Filled

LEMMA FilledNone ==
  ASSUME NEW text \in Messages, NEW args, Supplied(args)
  PROVE  Filled(text, args, 0) = text
<1>1. PICK q : q = Fills(text, args, 0)
  OBVIOUS
<1>2. 0 \in 0 .. Len(args)
  BY DEF Supplied
<1>3. q \in Seq(Messages) /\ Len(q) = Len(text)
  BY <1>1, <1>2, FillsIn
<1>4. 1 .. 0 = {}
  OBVIOUS
<1>5. ASSUME NEW i \in 1 .. Len(text) PROVE q[i] = <<text[i]>>
  BY <1>1, <1>4 DEF Fills, Fill
<1> QED BY <1>1, <1>3, <1>5, FlattenSingles DEF Messages, Filled

\* With all of them there is no place left.
LEMMA FilledFree ==
  ASSUME NEW text \in Messages, NEW args, Supplied(args),
         \A i \in 1 .. Len(text) : Len(text[i]) = 1 => text[i][1] \in 1 .. Len(args)
  PROVE  Filled(text, args, Len(args)) \in Seq(Free)
<1>1. PICK q : q = Fills(text, args, Len(args))
  OBVIOUS
<1>2. Len(text) \in Nat
  BY LenProperties DEF Messages
<1>3. ASSUME NEW i \in 1 .. Len(text) PROVE Fill(text[i], args, Len(args)) \in Seq(Free)
  <2>1. text[i] \in Seq(Nat)
    BY ElementOfSeq DEF Messages
  <2>2. CASE Len(text[i]) = 1
    BY <2>2 DEF Fill, Supplied
  <2>3. CASE Len(text[i]) # 1
    <3>1. text[i] \in Free
      BY <2>1, <2>3 DEF Free
    <3>2. <<text[i]>> \in Seq(Free)
      BY <3>1
    <3> QED BY <2>3, <3>2 DEF Fill
  <2> QED BY <2>2, <2>3
<1>4. q \in [1 .. Len(text) -> Seq(Free)]
  BY <1>1, <1>3 DEF Fills
<1>5. q \in Seq(Seq(Free))
  BY <1>2, <1>4, TableIs
<1>6. <<>> \in Seq(Free)
  BY EmptySeq
<1>7. FlattenSeq(q) \in Seq(Free)
  BY <1>5, <1>6, FlattenAppend
<1> QED BY <1>1, <1>7 DEF Filled

LEMMA StartIn == Start \in States
<1>1. <<>> \in Seq(Seq(Nat))
  BY EmptySeq
<1> QED BY <1>1 DEF Start, States, Messages

LEMMA StateIn ==
  ASSUME NEW st \in States, NEW item \in Item
  PROVE  status_item(st, item) \in States
<1>1. ItemIn(item)
  BY ItemIs
<1>2. /\ st.gds_code \in Nat /\ st.num_arg \in Nat /\ st.message \in Messages /\ st.sql_code \in Int
      /\ st.unknown \in BOOLEAN
  BY DEF States
<1>3. PICK m, c, k, q, u : m = st.message /\ c = st.gds_code /\ k = st.num_arg /\ q = st.sql_code /\ u = st.unknown
  OBVIOUS
<1>4. m \in Messages /\ c \in Nat /\ k \in Nat /\ q \in Int /\ u \in BOOLEAN
  BY <1>2, <1>3
<1>5. CASE item.t = "gds" /\ item.code \in Nat /\ item.text \in Messages
  <2>1. PICK x : x = m \o item.text
    OBVIOUS
  <2>2. x \in Messages
    BY <1>4, <1>5, <2>1, ConcatProperties DEF Messages
  <2>3. CASE item.code # 0
    <3>1. status_item(st, item) = [gds_code |-> item.code, num_arg |-> 0, message |-> x, sql_code |-> q, unknown |-> u]
      BY <1>3, <1>5, <2>1, <2>3, ErrorItem
    <3> QED BY <1>4, <1>5, <2>2, <3>1 DEF States
  <2>4. CASE item.code = 0
    <3>1. status_item(st, item) = [gds_code |-> 0, num_arg |-> k, message |-> m, sql_code |-> q, unknown |-> u]
      BY <1>3, <1>5, <2>4, ErrorItem
    <3> QED BY <1>4, <3>1 DEF States
  <2> QED BY <2>3, <2>4
<1>6. CASE /\ item.t \in {"number", "string"} /\ item.arg \in Messages
           /\ item.t = "number" => item.n \in Int
  <2>1. PICK x, y : /\ x = replace(m, k + 1, item.arg)
                    /\ y = IF item.t = "number" /\ c = isc_sqlerr THEN item.n ELSE q
    OBVIOUS
  <2>2. x \in Messages /\ k + 1 \in Nat
    BY <1>4, <1>6, <2>1, ReplaceIn
  <2>3. y \in Int
    BY <1>4, <1>6, <2>1
  <2>4. status_item(st, item) = [gds_code |-> c, num_arg |-> k + 1, message |-> x, sql_code |-> y, unknown |-> u]
    BY <1>3, <1>6, <2>1, ArgumentItem
  <2> QED BY <1>4, <2>2, <2>3, <2>4 DEF States
<1>7. CASE item.t = "warning"
  <2>1. status_item(st, item) = [gds_code |-> c, num_arg |-> k, message |-> m, sql_code |-> q, unknown |-> TRUE]
    BY <1>3, <1>7, WarningItem
  <2> QED BY <1>4, <2>1 DEF States
<1>8. item.t = "number" => item.t # "string"
  OBVIOUS
<1> QED BY <1>1, <1>5, <1>6, <1>7, <1>8 DEF ItemIn

\* Folding depends on smaller sets only.
LEMMA FoldingIn ==
  ASSUME NEW items \in Seq(Item), NEW n, n = Len(items), NEW s \in SUBSET (1 .. n),
         NEW f \in [SUBSET (1 .. n) -> States]
  PROVE  Folding(items, f, s) \in States
<1>1. n \in Nat
  BY LenProperties
<1>2. CASE s = {}
  BY <1>2, StartIn DEF Folding
<1>3. CASE s # {}
  <2>1. PICK e : e = Max(s)
    OBVIOUS
  <2>2. e \in s
    BY <1>1, <1>3, <2>1, MaxOf
  <2>3. items[e] \in Item
    <3>1. e \in 1 .. Len(items)
      BY <2>2
    <3> QED BY <3>1, ElementOfSeq
  <2>4. f[s \ {e}] \in States
    <3>1. s \ {e} \in SUBSET (1 .. n)
      OBVIOUS
    <3> QED BY <3>1
  <2>5. PICK st, item : st = f[s \ {e}] /\ item = items[e]
    OBVIOUS
  <2>6. status_item(st, item) \in States
    BY <2>3, <2>4, <2>5, StateIn
  <2> QED BY <1>3, <2>1, <2>5, <2>6 DEF Folding
<1> QED BY <1>2, <1>3

LEMMA SmallerSet ==
  ASSUME NEW n \in Nat, NEW s \in SUBSET (1 .. n), s # {}
  PROVE  s \ {Max(s)} \in SUBSET (1 .. n) /\ Cardinality(s \ {Max(s)}) < Cardinality(s)
<1>1. IsFiniteSet(1 .. n) /\ IsFiniteSet(s)
  <2>1. IsFiniteSet(1 .. n)
    BY FS_Interval
  <2> QED BY <2>1, FS_Subset
<1>2. PICK e : e = Max(s)
  OBVIOUS
<1>3. e \in s
  BY <1>2, MaxOf
<1>4. Cardinality(s \ {e}) = Cardinality(s) - 1
  BY <1>1, <1>3, FS_RemoveElement
<1>5. Cardinality(s) \in Nat
  BY <1>1, FS_CardinalityType
<1>6. Cardinality(s) - 1 < Cardinality(s)
  BY <1>5
<1> QED BY <1>2, <1>4, <1>6

LEMMA VectorFolds ==
  ASSUME NEW items \in Seq(Item), NEW n, n = Len(items)
  PROVE  \A s \in SUBSET (1 .. n) : VectorFold(items)[s] = Folding(items, VectorFold(items), s)
<1>0. n \in Nat /\ DOMAIN items = 1 .. n
  BY LenProperties
<1> DEFINE D == SUBSET (1 .. n)
           rank == [s \in D |-> Cardinality(s)]
           S == [p \in D \X [D -> States] |-> Folding(items, p[2], p[1])]
           Step(g) == [s \in D |-> Folding(items, g, s)]
           h == CHOOSE g : g = Step(g)
<1>1. rank \in [D -> 0 .. n]
  <2>1. ASSUME NEW s \in D PROVE Cardinality(s) \in 0 .. n
    <3>1. IsFiniteSet(1 .. n) /\ Cardinality(1 .. n) = n
      <4>1. 1 \in Int /\ n \in Int
        BY <1>0
      <4>2. PICK c : c = Cardinality(1 .. n)
        OBVIOUS
      <4>3. IsFiniteSet(1 .. n) /\ c = IF 1 > n THEN 0 ELSE n - 1 + 1
        BY <4>1, <4>2, FS_Interval
      <4>4. c = n
        BY <1>0, <4>3
      <4> QED BY <4>2, <4>3, <4>4
    <3>2. IsFiniteSet(s) /\ Cardinality(s) =< n
      BY <3>1, FS_Subset
    <3>3. Cardinality(s) \in Nat
      BY <3>2, FS_CardinalityType
    <3> QED BY <1>0, <3>2, <3>3
  <2> QED BY <2>1
<1>2. S \in [D \X [D -> States] -> States]
  <2>1. ASSUME NEW p \in D \X [D -> States] PROVE Folding(items, p[2], p[1]) \in States
    <3>1. p[1] \in D /\ p[2] \in [D -> States]
      OBVIOUS
    <3> QED BY <3>1, FoldingIn
  <2> QED BY <2>1
<1>3. ASSUME NEW d \in D, NEW f \in [D -> States], NEW g \in [D -> States],
             \A e \in D : rank[e] < rank[d] => f[e] = g[e]
      PROVE  S[<<d, f>>] = S[<<d, g>>]
  <2>1. S[<<d, f>>] = Folding(items, f, d) /\ S[<<d, g>>] = Folding(items, g, d)
    OBVIOUS
  <2>2. CASE d = {}
    BY <2>1, <2>2 DEF Folding
  <2>3. CASE d # {}
    <3>1. PICK e : e = d \ {Max(d)}
      OBVIOUS
    <3>2. e \in D /\ Cardinality(e) < Cardinality(d)
      BY <1>0, <2>3, <3>1, SmallerSet
    <3>3. rank[e] < rank[d]
      BY <3>2
    <3>4. f[e] = g[e]
      BY <1>3, <3>2, <3>3
    <3> QED BY <2>1, <2>3, <3>1, <3>4 DEF Folding
  <2> QED BY <2>2, <2>3
<1>4. Lower(D, States, rank, S)
  <2> HIDE DEF D, rank, S
  <2> QED BY <1>3 DEF Lower
<1>5. Solved(D, States, S)
  <2> HIDE DEF D, rank, S
  <2> QED BY <1>0, <1>1, <1>2, <1>4, StartIn, Recursion
<1>6. PICK f \in [D -> States] : \A d \in D : f[d] = S[<<d, f>>]
  BY <1>5 DEF Solved
<1>7. \A d \in D : f[d] = Folding(items, f, d)
  BY <1>6
<1>8. f = Step(f)
  BY <1>7
<1>9. h = Step(h)
  BY <1>8
<1>10. VectorFold(items) = h
  BY <1>0 DEF VectorFold
<1> HIDE DEF h
<1>11. \A s \in D : h[s] = Folding(items, h, s)
  BY <1>9
<1> QED BY <1>10, <1>11

\* What the client has made of the first k items.
Heard(items, k) == VectorFold(items)[1 .. k]

LEMMA AfterItems ==
  ASSUME NEW items \in Seq(Item)
  PROVE  /\ Heard(items, 0) = Start
         /\ \A k \in 0 .. Len(items) : k < Len(items) => Heard(items, k + 1) = status_item(Heard(items, k), items[k + 1])
         /\ parse_status_vector(items) =
              IF Heard(items, Len(items)).unknown THEN UnknownItem
              ELSE [code |-> Heard(items, Len(items)).sql_code, msg |-> Heard(items, Len(items)).message]
<1>1. PICK n, h : n = Len(items) /\ h = VectorFold(items)
  OBVIOUS
<1>2. n \in Nat /\ DOMAIN items = 1 .. n
  BY <1>1, LenProperties
<1>3. \A s \in SUBSET (1 .. n) : h[s] = Folding(items, h, s)
  BY <1>1, VectorFolds
<1>4. Heard(items, 0) = Start
  <2>1. 1 .. 0 = {} /\ {} \in SUBSET (1 .. n)
    OBVIOUS
  <2>2. h[{}] = Start
    BY <1>3, <2>1 DEF Folding
  <2> QED BY <1>1, <2>1, <2>2 DEF Heard
<1>5. ASSUME NEW k \in 0 .. n, k < n
      PROVE  Heard(items, k + 1) = status_item(Heard(items, k), items[k + 1])
  <2>1. PICK s, e : s = 1 .. k + 1 /\ e = Max(1 .. k + 1)
    OBVIOUS
  <2>2. s \in SUBSET (1 .. n) /\ s # {} /\ k + 1 \in s
    BY <1>2, <1>5, <2>1
  <2>3. e \in s /\ \A y \in s : e >= y
    BY <1>2, <2>1, <2>2, MaxOf
  <2>4. e = k + 1
    BY <2>1, <2>2, <2>3
  <2>5. s \ {e} = 1 .. k
    BY <2>1, <2>4
  <2>6. h[s] = status_item(h[s \ {e}], items[e])
    BY <1>3, <2>1, <2>2 DEF Folding
  <2> QED BY <1>1, <2>1, <2>4, <2>5, <2>6 DEF Heard
<1>6. /\ parse_status_vector(items) =
              IF Heard(items, n).unknown THEN UnknownItem
              ELSE [code |-> Heard(items, n).sql_code, msg |-> Heard(items, n).message]
  BY <1>1, <1>2, VectorIs DEF Heard
<1> QED BY <1>1, <1>4, <1>5, <1>6

\* What it has made of all of them.
Hear(items) == Heard(items, Len(items))

LEMMA HearIn ==
  ASSUME NEW items \in Seq(Item)
  PROVE  Hear(items) \in States
<1>1. PICK n, T : n = Len(items) /\ T = {k \in 0 .. n : Heard(items, k) \in States}
  OBVIOUS
<1>2. n \in Nat
  BY <1>1, LenProperties
<1>3. 0 \in T
  BY <1>1, <1>2, StartIn, AfterItems
<1>4. \A k \in 0 .. n : k < n /\ k \in T => k + 1 \in T
  <2>1. ASSUME NEW k \in 0 .. n, k < n, k \in T PROVE k + 1 \in T
    <3>1. k \in 0 .. Len(items) /\ k < Len(items) /\ k + 1 \in 1 .. Len(items) /\ k + 1 \in 0 .. n
      BY <1>1, <1>2, <2>1
    <3>2. PICK st, x : st = Heard(items, k) /\ x = items[k + 1]
      OBVIOUS
    <3>3. Heard(items, k + 1) = status_item(st, x)
      BY <3>1, <3>2, AfterItems
    <3>4. st \in States
      BY <1>1, <2>1, <3>2
    <3>5. x \in Item
      BY <3>1, <3>2, ElementOfSeq
    <3>6. Heard(items, k + 1) \in States
      BY <3>3, <3>4, <3>5, StateIn
    <3> QED BY <1>1, <3>1, <3>6
  <2> QED BY <2>1
<1>5. n \in T
  <2>1. \A k \in 0 .. n : k \in T
    BY <1>2, <1>3, <1>4, Counting
  <2> QED BY <1>2, <2>1
<1> QED BY <1>1, <1>5 DEF Hear

LEMMA HearNothing == Hear(<<>>) = Start
<1>1. PICK q : q = <<>>
  OBVIOUS
<1>2. q \in Seq(Item) /\ Len(q) = 0
  BY <1>1, EmptySeq
<1>3. Heard(q, 0) = Start
  BY <1>2, AfterItems
<1> QED BY <1>1, <1>2, <1>3 DEF Hear

\* The next item tells what follows.
LEMMA HearAppend ==
  ASSUME NEW items \in Seq(Item), NEW x \in Item
  PROVE  Hear(Append(items, x)) = status_item(Hear(items), x)
<1>1. PICK n, y, T : n = Len(items) /\ y = Append(items, x) /\ T = {k \in 0 .. n : Heard(y, k) = Heard(items, k)}
  OBVIOUS
<1>2. n \in Nat
  BY <1>1, LenProperties
<1>3. /\ y \in Seq(Item) /\ Len(y) = n + 1
      /\ \A i \in 1 .. n : y[i] = items[i]
      /\ y[n + 1] = x
  BY <1>1, <1>2, AppendProperties
<1>4. 0 \in T
  <2>1. Heard(y, 0) = Start
    BY <1>3, AfterItems
  <2>2. Heard(items, 0) = Start
    BY AfterItems
  <2> QED BY <1>1, <1>2, <2>1, <2>2
<1>5. \A k \in 0 .. n : k < n /\ k \in T => k + 1 \in T
  <2>1. ASSUME NEW k \in 0 .. n, k < n, k \in T PROVE k + 1 \in T
    <3>1. /\ k \in 0 .. Len(items) /\ k < Len(items) /\ k + 1 \in 1 .. n /\ k + 1 \in 0 .. n
          /\ k \in 0 .. Len(y) /\ k < Len(y)
      BY <1>1, <1>2, <1>3, <2>1
    <3>2. Heard(items, k + 1) = status_item(Heard(items, k), items[k + 1])
      BY <3>1, AfterItems
    <3>3. Heard(y, k + 1) = status_item(Heard(y, k), y[k + 1])
      BY <1>3, <3>1, AfterItems
    <3>4. Heard(y, k) = Heard(items, k) /\ y[k + 1] = items[k + 1]
      BY <1>1, <1>3, <2>1, <3>1
    <3> QED BY <1>1, <3>1, <3>2, <3>3, <3>4
  <2> QED BY <2>1
<1>6. n \in T
  <2>1. \A k \in 0 .. n : k \in T
    BY <1>2, <1>4, <1>5, Counting
  <2> QED BY <1>2, <2>1
<1>7. Heard(y, n + 1) = status_item(Heard(y, n), y[n + 1])
  <2>1. n \in 0 .. Len(y) /\ n < Len(y)
    BY <1>2, <1>3
  <2> QED BY <1>3, <2>1, AfterItems
<1> QED BY <1>1, <1>3, <1>6, <1>7 DEF Hear

LEMMA HearAll ==
  ASSUME NEW items \in Seq(Item)
  PROVE  parse_status_vector(items) =
           IF Hear(items).unknown THEN UnknownItem
           ELSE [code |-> Hear(items).sql_code, msg |-> Hear(items).message]
BY AfterItems DEF Hear

---------------------------------------------------------------------------
\* The errors of a server: a code, the text it stands for, and its arguments, a
\* number among them being that of the statement.
Argued == [t : {"string"}, arg : Messages] \cup [t : {"number"}, arg : Messages, n : {-104}]
Errors == [code : Nat \ {0}, text : Messages, args : Seq(Argued)]

LEMMA ArguedIs ==
  ASSUME NEW a \in Argued
  PROVE  /\ a \in Item /\ a.arg \in Messages /\ a.t \in {"number", "string"}
         /\ a.t = "number" => a.n = -104
<1>1. CASE a \in [t : {"string"}, arg : Messages]
  BY <1>1 DEF Item
<1>2. CASE a \in [t : {"number"}, arg : Messages, n : {-104}]
  BY <1>2 DEF Item
<1> QED BY <1>1, <1>2 DEF Argued

\* What is known while error e is told: m and c are the message and the code so far.
SqlCode(e, j, c) == IF e.code = isc_sqlerr /\ \E i \in 1 .. j : e.args[i].t = "number" THEN -104 ELSE c
Telling(e, j, m, c) ==
  [gds_code |-> e.code, num_arg |-> j, message |-> m \o Filled(e.text, e.args, j),
   sql_code |-> SqlCode(e, j, c), unknown |-> FALSE]

LEMMA SqlCodeNext ==
  ASSUME NEW e, NEW j \in Nat, NEW c
  PROVE  SqlCode(e, j + 1, c) = IF e.args[j + 1].t = "number" /\ e.code = isc_sqlerr THEN -104 ELSE SqlCode(e, j, c)
<1>1. 1 .. j + 1 = 1 .. j \cup {j + 1}
  OBVIOUS
<1>2. (\E i \in 1 .. j + 1 : e.args[i].t = "number")
      <=> (\E i \in 1 .. j : e.args[i].t = "number") \/ e.args[j + 1].t = "number"
  BY <1>1
<1> QED BY <1>2 DEF SqlCode

LEMMA SqlCodeFirst ==
  ASSUME NEW e, NEW c
  PROVE  SqlCode(e, 0, c) = c
<1>1. 1 .. 0 = {}
  OBVIOUS
<1> QED BY <1>1 DEF SqlCode

LEMMA FilledIn ==
  ASSUME NEW text \in Messages, NEW args, Supplied(args), NEW j \in 0 .. Len(args)
  PROVE  Filled(text, args, j) \in Messages
BY FillsIn, JoinedMessages DEF Filled

LEMMA TellingNext ==
  ASSUME NEW e \in Errors, Supplied(e.args), NEW m \in Seq(Free), NEW c \in Int, NEW j \in 0 .. Len(e.args), j < Len(e.args)
  PROVE  status_item(Telling(e, j, m, c), e.args[j + 1]) = Telling(e, j + 1, m, c)
<1>1. PICK a, t, f, x : /\ a = e.args[j + 1] /\ t = e.text /\ f = Filled(e.text, e.args, j)
                     /\ x = m \o f
  OBVIOUS
<1>2. e.text \in Messages /\ e.code \in Nat /\ e.args \in Seq(Argued)
  BY DEF Errors
<1>3. j \in Nat /\ j + 1 \in 1 .. Len(e.args)
  BY DEF Supplied
<1>4. a \in Item /\ a.arg \in Messages /\ a.t \in {"number", "string"} /\ (a.t = "number" => a.n = -104)
  <2>1. a \in Argued
    BY <1>1, <1>2, <1>3, ElementOfSeq
  <2> QED BY <2>1, ArguedIs
<1>5. m \in Messages
  BY FreeIs
<1>6. f \in Messages
  BY <1>1, <1>2, FilledIn
<1>7. x \in Messages
  BY <1>1, <1>5, <1>6, ConcatProperties DEF Messages
<1>8. PICK q : q = SqlCode(e, j, c)
  OBVIOUS
<1>9. q \in Int
  BY <1>8 DEF SqlCode
<1>10. PICK st : st = Telling(e, j, m, c)
  OBVIOUS
<1>11. st = [gds_code |-> e.code, num_arg |-> j, message |-> x, sql_code |-> q, unknown |-> FALSE]
  BY <1>1, <1>8, <1>10 DEF Telling
<1>12. st \in States
  BY <1>2, <1>3, <1>7, <1>9, <1>11 DEF States
<1>13. st.gds_code = e.code /\ st.num_arg = j /\ st.message = x /\ st.sql_code = q /\ st.unknown = FALSE
  BY <1>11
<1>14. status_item(st, a) =
         [gds_code |-> e.code, num_arg |-> j + 1, message |-> replace(x, j + 1, a.arg),
          sql_code |-> IF a.t = "number" /\ e.code = isc_sqlerr THEN a.n ELSE q, unknown |-> FALSE]
  BY <1>4, <1>12, <1>13, ArgumentItem
<1>15. (IF a.t = "number" /\ e.code = isc_sqlerr THEN a.n ELSE q) = SqlCode(e, j + 1, c)
  <2>1. SqlCode(e, j + 1, c) = IF a.t = "number" /\ e.code = isc_sqlerr THEN -104 ELSE q
    BY <1>1, <1>3, <1>8, SqlCodeNext
  <2> QED BY <1>4, <2>1
<1>16. replace(x, j + 1, a.arg) = m \o Filled(e.text, e.args, j + 1)
  <2>1. Joined(replace(m \o f, j + 1, a.arg), replace(m, j + 1, a.arg), replace(f, j + 1, a.arg))
    BY <1>4, <1>5, <1>6, ReplaceBehind
  <2>2. replace(m, j + 1, a.arg) = m
    BY <1>4, ReplaceFree
  <2>3. replace(Filled(e.text, e.args, j), j + 1, e.args[j + 1].arg) = Filled(e.text, e.args, j + 1)
    BY <1>2, FilledNext
  <2>4. replace(f, j + 1, a.arg) = Filled(e.text, e.args, j + 1)
    BY <1>1, <2>3
  <2> QED BY <1>1, <2>1, <2>2, <2>4 DEF Joined
<1> QED BY <1>1, <1>10, <1>14, <1>15, <1>16 DEF Telling

\* The items of an error, and of some.
Opening(e) == [t |-> "gds", code |-> e.code, text |-> e.text]
Parts(errors) == [i \in DOMAIN errors |-> <<Opening(errors[i])>> \o errors[i].args]

LEMMA ArgsAreItems == Seq(Argued) \subseteq Seq(Item)
<1>1. ASSUME NEW q \in Seq(Argued) PROVE q \in Seq(Item)
  <2>1. \A i \in 1 .. Len(q) : q[i] \in Item
    <3>1. ASSUME NEW i \in 1 .. Len(q) PROVE q[i] \in Item
      <4>1. q[i] \in Argued
        BY ElementOfSeq
      <4> QED BY <4>1, ArguedIs
    <3> QED BY <3>1
  <2> QED BY <2>1, SeqIn
<1> QED BY <1>1

LEMMA BeginIs ==
  ASSUME NEW e \in Errors
  PROVE  /\ Opening(e) \in Item /\ Opening(e).t = "gds" /\ Opening(e).code = e.code /\ Opening(e).text = e.text
         /\ e.code \in Nat /\ e.code # 0 /\ e.text \in Messages /\ e.args \in Seq(Argued) /\ e.args \in Seq(Item)
<1>1. e.code \in Nat /\ e.code # 0 /\ e.text \in Messages /\ e.args \in Seq(Argued)
  BY DEF Errors
<1>2. Opening(e) \in [t : {"gds"}, code : Nat, text : Messages]
  BY <1>1 DEF Opening
<1> QED BY <1>1, <1>2, ArgsAreItems DEF Opening, Item

\* How an error is told behind items v.
LEMMA ErrorHeard ==
  ASSUME NEW e \in Errors, Supplied(e.args), NEW v \in Seq(Item), NEW m \in Seq(Free), NEW c \in Int,
         Hear(v).message = m, Hear(v).sql_code = c, ~Hear(v).unknown
  PROVE  Hear(v \o (<<Opening(e)>> \o e.args)) = Telling(e, Len(e.args), m, c)
<1>1. PICK b, args, n, w : /\ b = Opening(e) /\ args = e.args /\ n = Len(e.args)
                           /\ w = v \o <<b>>
  OBVIOUS
<1>2. b \in Item /\ b.t = "gds" /\ b.code = e.code /\ b.text = e.text /\ b.code # 0
  BY <1>1, BeginIs
<1>3. args \in Seq(Item) /\ e.text \in Messages /\ n \in Nat
  BY <1>1, BeginIs DEF Supplied
<1>4. w = Append(v, b)
  <2>1. v \o Append(<<>>, b) = Append(v \o <<>>, b)
    BY <1>2, EmptySeq, AppendBehind
  <2>2. Append(<<>>, b) = <<b>>
    OBVIOUS
  <2>3. v \o <<>> = v
    BY ConcatEmptySeq
  <2> QED BY <1>1, <2>1, <2>2, <2>3
<1>5. w \in Seq(Item)
  BY <1>2, <1>4, AppendProperties
<1>6. PICK st : st = Hear(v)
  OBVIOUS
<1>7. st \in States /\ st.message = m /\ st.sql_code = c /\ ~st.unknown /\ st.unknown \in BOOLEAN
  <2>1. st \in States
    BY <1>6, HearIn
  <2> QED BY <1>6, <2>1 DEF States
<1>8. Hear(w) = Telling(e, 0, m, c)
  <2>1. Hear(w) = status_item(st, b)
    BY <1>2, <1>4, <1>6, HearAppend
  <2>2. status_item(st, b) =
          [gds_code |-> e.code, num_arg |-> 0, message |-> m \o e.text, sql_code |-> c, unknown |-> FALSE]
    BY <1>2, <1>7, ErrorItem
  <2>3. Filled(e.text, e.args, 0) = e.text
    BY <1>3, FilledNone
  <2>4. SqlCode(e, 0, c) = c
    BY SqlCodeFirst
  <2> QED BY <2>1, <2>2, <2>3, <2>4 DEF Telling
<1>9. PICK T : T = {j \in 0 .. n : Hear(w \o Upto(args, j)) = Telling(e, j, m, c)}
  OBVIOUS
<1>10. 0 \in T
  <2>1. 0 \in 0 .. Len(args) /\ 0 \in 0 .. n
    BY <1>1, <1>3
  <2>2. Upto(args, 0) = <<>>
    BY <1>3, <2>1, UptoIs
  <2>3. w \o <<>> = w
    BY <1>5, ConcatEmptySeq
  <2> QED BY <1>8, <1>9, <2>1, <2>2, <2>3
<1>11. \A j \in 0 .. n : j < n /\ j \in T => j + 1 \in T
  <2>1. ASSUME NEW j \in 0 .. n, j < n, j \in T PROVE j + 1 \in T
    <3>1. j \in 0 .. Len(args) /\ j < Len(args) /\ j + 1 \in 0 .. n
      BY <1>1, <1>3, <2>1
    <3>2. PICK u, x : u = Upto(args, j) /\ x = args[j + 1]
      OBVIOUS
    <3>3. u \in Seq(Item) /\ Upto(args, j + 1) = Append(u, x) /\ x \in Item
      <4>1. Upto(args, j) \in Seq(Item) /\ Upto(args, j + 1) = Append(Upto(args, j), args[j + 1]) /\ args[j + 1] \in Item
        BY <1>3, <3>1, UptoNext
      <4> QED BY <3>2, <4>1
    <3>4. w \o Append(u, x) = Append(w \o u, x)
      <4>1. Appends(w, u, x)
        BY <1>5, <3>3, AppendGroups
      <4> QED BY <4>1 DEF Appends
    <3>5. w \o u \in Seq(Item)
      BY <1>5, <3>3, ConcatProperties
    <3>6. Hear(Append(w \o u, x)) = status_item(Hear(w \o u), x)
      BY <3>3, <3>5, HearAppend
    <3>7. Hear(w \o u) = Telling(e, j, m, c)
      BY <1>9, <2>1, <3>2
    <3>8. status_item(Telling(e, j, m, c), e.args[j + 1]) = Telling(e, j + 1, m, c)
      BY <1>1, <3>1, TellingNext
    <3>9. Hear(w \o Upto(args, j + 1)) = Telling(e, j + 1, m, c)
      BY <1>1, <3>2, <3>3, <3>4, <3>6, <3>7, <3>8
    <3> QED BY <1>9, <3>1, <3>9
  <2> QED BY <2>1
<1>12. n \in T
  <2>1. \A j \in 0 .. n : j \in T
    BY <1>3, <1>10, <1>11, Counting
  <2> QED BY <1>3, <2>1
<1>13. Upto(args, n) = args
  <2>1. n \in 0 .. Len(args) /\ n = Len(args)
    BY <1>1, <1>3
  <2> QED BY <1>3, <2>1, UptoIs
<1>14. v \o (<<b>> \o args) = w \o args
  <2>1. PICK s : s = <<b>>
    OBVIOUS
  <2>2. s \in Seq(Item)
    BY <1>2, <2>1
  <2>3. (v \o s) \o args = v \o (s \o args)
    BY <1>3, <2>2, ConcatAssociative
  <2> QED BY <1>1, <2>1, <2>3
<1> QED BY <1>1, <1>9, <1>12, <1>13, <1>14

\* What Encodings means by a complete error and by telling it.
LEMMA CompleteIs ==
  ASSUME NEW e \in Errors, Complete(e)
  PROVE  /\ Supplied(e.args)
         /\ Told(e) = Filled(e.text, e.args, Len(e.args))
         /\ Told(e) \in Seq(Free)
<1>1. e.text \in Messages /\ e.args \in Seq(Argued)
  BY BeginIs
<1>2. /\ Len(e.args) \in Nat /\ DOMAIN e.args = 1 .. Len(e.args)
      /\ DOMAIN e.text = 1 .. Len(e.text)
  BY <1>1, LenProperties DEF Messages
<1>3. ASSUME NEW i \in 1 .. Len(e.args) PROVE e.args[i].arg \in Seq(Free)
  <2>1. PICK a : a = e.args[i].arg
    OBVIOUS
  <2>2. a \in Seq(Seq(Nat))
    <3>1. e.args[i] \in Argued
      BY <1>1, ElementOfSeq
    <3> QED BY <2>1, <3>1, ArguedIs DEF Messages
  <2>3. DOMAIN a = 1 .. Len(a)
    BY <2>2, LenProperties
  <2>4. \A j \in 1 .. Len(a) : a[j] \in Free
    <3>1. ASSUME NEW j \in 1 .. Len(a) PROVE a[j] \in Free
      <4>1. a[j] \in Seq(Nat)
        BY <2>2, ElementOfSeq
      <4>2. Len(a[j]) = 2
        BY <1>2, <2>1, <2>3 DEF Complete
      <4>3. Len(a[j]) # 1
        BY <4>2
      <4> QED BY <4>1, <4>3 DEF Free
    <3> QED BY <3>1
  <2> QED BY <2>1, <2>2, <2>4, SeqIn
<1>4. Supplied(e.args)
  BY <1>2, <1>3 DEF Supplied
<1>5. Told(e) = Filled(e.text, e.args, Len(e.args))
  BY <1>2 DEF Told, Filled, Fills, Fill
<1>6. \A i \in 1 .. Len(e.text) : Len(e.text[i]) = 1 => e.text[i][1] \in 1 .. Len(e.args)
  BY <1>2 DEF Complete
<1>7. Filled(e.text, e.args, Len(e.args)) \in Seq(Free)
  BY <1>1, <1>4, <1>6, FilledFree
<1> QED BY <1>4, <1>5, <1>7

Tolds(errors) == [i \in DOMAIN errors |-> Told(errors[i])]
Sqlerr(e) == e.code = isc_sqlerr /\ \E j \in 1 .. Len(e.args) : e.args[j].t = "number"
\* The code behind the first k errors.
CodeAfter(errors, k) == IF \E i \in 1 .. k : Sqlerr(errors[i]) THEN -104 ELSE -1
\* What is made of the first k errors.
Fares(errors, k) ==
  LET st == Hear(FlattenSeq(Upto(Parts(errors), k)))
  IN /\ st.message = FlattenSeq(Upto(Tolds(errors), k))
     /\ st.sql_code = CodeAfter(errors, k)
     /\ ~st.unknown

LEMMA PartsIn ==
  ASSUME NEW errors \in Seq(Errors)
  PROVE  /\ Parts(errors) \in Seq(Seq(Item)) /\ Len(Parts(errors)) = Len(errors)
         /\ Vector(errors) = FlattenSeq(Parts(errors))
<1>1. Len(errors) \in Nat /\ DOMAIN errors = 1 .. Len(errors)
  BY LenProperties
<1>2. ASSUME NEW i \in 1 .. Len(errors) PROVE <<Opening(errors[i])>> \o errors[i].args \in Seq(Item)
  <2>1. PICK b, args : b = Opening(errors[i]) /\ args = errors[i].args
    OBVIOUS
  <2>2. errors[i] \in Errors
    BY ElementOfSeq
  <2>3. b \in Item /\ args \in Seq(Item)
    BY <2>1, <2>2, BeginIs
  <2>4. <<b>> \in Seq(Item)
    BY <2>3
  <2>5. <<b>> \o args \in Seq(Item)
    BY <2>3, <2>4, ConcatProperties
  <2> QED BY <2>1, <2>5
<1>3. Parts(errors) \in [1 .. Len(errors) -> Seq(Item)]
  BY <1>1, <1>2 DEF Parts
<1>4. Vector(errors) = FlattenSeq(Parts(errors))
  BY DEF Vector, Parts, Opening
<1> QED BY <1>1, <1>3, <1>4, TableIs

LEMMA ToldsIn ==
  ASSUME NEW errors \in Seq(Errors), \A i \in DOMAIN errors : Complete(errors[i])
  PROVE  Tolds(errors) \in Seq(Seq(Free)) /\ Len(Tolds(errors)) = Len(errors)
<1>1. Len(errors) \in Nat /\ DOMAIN errors = 1 .. Len(errors)
  BY LenProperties
<1>2. ASSUME NEW i \in 1 .. Len(errors) PROVE Told(errors[i]) \in Seq(Free)
  <2>1. errors[i] \in Errors
    BY ElementOfSeq
  <2>2. Complete(errors[i])
    BY <1>1
  <2> QED BY <2>1, <2>2, CompleteIs
<1>3. Tolds(errors) \in [1 .. Len(errors) -> Seq(Free)]
  BY <1>1, <1>2 DEF Tolds
<1> QED BY <1>1, <1>3, TableIs

LEMMA CodeNext ==
  ASSUME NEW errors, NEW k \in Nat
  PROVE  /\ CodeAfter(errors, k + 1) =
              SqlCode(errors[k + 1], Len(errors[k + 1].args), CodeAfter(errors, k))
         /\ CodeAfter(errors, k) \in Int
         /\ CodeAfter(errors, 0) = -1
<1>1. 1 .. k + 1 = 1 .. k \cup {k + 1}
  OBVIOUS
<1>2. (\E i \in 1 .. k + 1 : Sqlerr(errors[i])) <=> (\E i \in 1 .. k : Sqlerr(errors[i])) \/ Sqlerr(errors[k + 1])
  BY <1>1
<1>3. CodeAfter(errors, k + 1) = IF Sqlerr(errors[k + 1]) THEN -104 ELSE CodeAfter(errors, k)
  BY <1>2 DEF CodeAfter
<1>4. CodeAfter(errors, k) \in Int
  BY DEF CodeAfter
<1>5. 1 .. 0 = {}
  OBVIOUS
<1>6. CodeAfter(errors, 0) = -1
  BY <1>5 DEF CodeAfter
<1> QED BY <1>3, <1>4, <1>6 DEF Sqlerr, SqlCode

LEMMA FareNext ==
  ASSUME NEW errors \in Seq(Errors), \A i \in DOMAIN errors : Complete(errors[i]),
         NEW k \in 0 .. Len(errors), k < Len(errors), Fares(errors, k)
  PROVE  Fares(errors, k + 1)
<1>1. PICK e, P, Q, p, q : /\ e = errors[k + 1] /\ P = Parts(errors) /\ Q = Tolds(errors)
                           /\ p = Upto(Parts(errors), k) /\ q = Upto(Tolds(errors), k)
  OBVIOUS
<1>2. Len(errors) \in Nat /\ DOMAIN errors = 1 .. Len(errors) /\ k + 1 \in 1 .. Len(errors) /\ k \in Nat
  BY LenProperties
<1>3. P \in Seq(Seq(Item)) /\ Len(P) = Len(errors)
  BY <1>1, PartsIn
<1>4. Q \in Seq(Seq(Free)) /\ Len(Q) = Len(errors)
  BY <1>1, ToldsIn
<1>5. e \in Errors /\ Complete(e)
  BY <1>1, <1>2, ElementOfSeq
<1>6. Supplied(e.args) /\ Told(e) = Filled(e.text, e.args, Len(e.args)) /\ Told(e) \in Seq(Free)
  BY <1>5, CompleteIs
<1>7. PICK x, y : x = <<Opening(e)>> \o e.args /\ y = Told(e)
  OBVIOUS
<1>8. P[k + 1] = x /\ Q[k + 1] = y
  BY <1>1, <1>2, <1>7 DEF Parts, Tolds
<1>9. p \in Seq(Seq(Item)) /\ Upto(P, k + 1) = Append(p, x) /\ x \in Seq(Item)
  <2>1. k \in 0 .. Len(P) /\ k < Len(P)
    BY <1>3
  <2>2. Upto(P, k) \in Seq(Seq(Item)) /\ Upto(P, k + 1) = Append(Upto(P, k), P[k + 1]) /\ P[k + 1] \in Seq(Item)
    BY <1>3, <2>1, UptoNext
  <2> QED BY <1>1, <1>8, <2>2
<1>10. q \in Seq(Seq(Free)) /\ Upto(Q, k + 1) = Append(q, y) /\ y \in Seq(Free)
  <2>1. k \in 0 .. Len(Q) /\ k < Len(Q)
    BY <1>4
  <2>2. Upto(Q, k) \in Seq(Seq(Free)) /\ Upto(Q, k + 1) = Append(Upto(Q, k), Q[k + 1]) /\ Q[k + 1] \in Seq(Free)
    BY <1>4, <2>1, UptoNext
  <2> QED BY <1>1, <1>8, <2>2
<1>11. PICK v, m, c : v = FlattenSeq(p) /\ m = FlattenSeq(q) /\ c = CodeAfter(errors, k)
  OBVIOUS
<1>12. v \in Seq(Item) /\ FlattenSeq(Append(p, x)) = v \o x
  BY <1>9, <1>11, FlattenAppend
<1>13. m \in Seq(Free) /\ FlattenSeq(Append(q, y)) = m \o y
  BY <1>10, <1>11, FlattenAppend
<1>14. c \in Int /\ CodeAfter(errors, k + 1) = SqlCode(e, Len(e.args), c)
  BY <1>1, <1>2, <1>11, CodeNext
<1>15. Hear(v).message = m /\ Hear(v).sql_code = c /\ ~Hear(v).unknown
  BY <1>1, <1>11 DEF Fares
<1>16. Hear(v \o x) = Telling(e, Len(e.args), m, c)
  BY <1>5, <1>6, <1>7, <1>12, <1>13, <1>14, <1>15, ErrorHeard
<1>17. PICK st : st = Telling(e, Len(e.args), m, c)
  OBVIOUS
<1>18. st.message = m \o y /\ st.sql_code = CodeAfter(errors, k + 1) /\ ~st.unknown
  BY <1>6, <1>7, <1>14, <1>17 DEF Telling
<1>19. Hear(FlattenSeq(Upto(P, k + 1))) = st
  BY <1>9, <1>12, <1>16, <1>17
<1>20. FlattenSeq(Upto(Q, k + 1)) = m \o y
  BY <1>10, <1>13
<1> QED BY <1>1, <1>18, <1>19, <1>20 DEF Fares

LEMMA FareAll ==
  ASSUME NEW errors \in Seq(Errors), \A i \in DOMAIN errors : Complete(errors[i])
  PROVE  /\ Vector(errors) \in Seq(Item)
         /\ Hear(Vector(errors)).message = FlattenSeq(Tolds(errors))
         /\ Hear(Vector(errors)).sql_code = CodeAfter(errors, Len(errors))
         /\ ~Hear(Vector(errors)).unknown
<1>1. PICK n, T : n = Len(errors) /\ T = {k \in 0 .. n : Fares(errors, k)}
  OBVIOUS
<1>2. n \in Nat
  BY <1>1, LenProperties
<1>3. PICK P, Q : P = Parts(errors) /\ Q = Tolds(errors)
  OBVIOUS
<1>4. P \in Seq(Seq(Item)) /\ Len(P) = n /\ Vector(errors) = FlattenSeq(P)
  BY <1>1, <1>3, PartsIn
<1>5. Q \in Seq(Seq(Free)) /\ Len(Q) = n
  BY <1>1, <1>3, ToldsIn
<1>6. 0 \in T
  <2>1. 0 \in 0 .. Len(P) /\ 0 \in 0 .. Len(Q) /\ 0 \in 0 .. n
    BY <1>2, <1>4, <1>5
  <2>2. Upto(P, 0) = <<>>
    BY <1>4, <2>1, UptoIs
  <2>3. Upto(Q, 0) = <<>>
    BY <1>5, <2>1, UptoIs
  <2>4. PICK z : z = FlattenSeq(<<>>)
    OBVIOUS
  <2>5. z = <<>> /\ Hear(z) = Start
    BY <2>4, FlattenNothing, HearNothing
  <2>6. CodeAfter(errors, 0) = -1
    BY 0 \in Nat, CodeNext
  <2>7. Start.message = z /\ Start.sql_code = -1 /\ ~Start.unknown
    BY <2>5 DEF Start
  <2>8. Fares(errors, 0)
    BY <1>3, <2>2, <2>3, <2>4, <2>5, <2>6, <2>7 DEF Fares
  <2> QED BY <1>1, <2>1, <2>8
<1>7. \A k \in 0 .. n : k < n /\ k \in T => k + 1 \in T
  <2>1. ASSUME NEW k \in 0 .. n, k < n, k \in T PROVE k + 1 \in T
    <3>1. k \in 0 .. Len(errors) /\ k < Len(errors) /\ Fares(errors, k) /\ k + 1 \in 0 .. n
      BY <1>1, <1>2, <2>1
    <3>2. Fares(errors, k + 1)
      BY <3>1, FareNext
    <3> QED BY <1>1, <3>1, <3>2
  <2> QED BY <2>1
<1>8. n \in T
  <2>1. \A k \in 0 .. n : k \in T
    BY <1>2, <1>6, <1>7, Counting
  <2> QED BY <1>2, <2>1
<1>9. Fares(errors, n)
  BY <1>1, <1>8
<1>10. Upto(P, n) = P /\ Upto(Q, n) = Q
  <2>1. n \in 0 .. Len(P) /\ n = Len(P) /\ n \in 0 .. Len(Q) /\ n = Len(Q)
    BY <1>2, <1>4, <1>5
  <2>2. Upto(P, n) = P
    BY <1>4, <2>1, UptoIs
  <2>3. Upto(Q, n) = Q
    BY <1>5, <2>1, UptoIs
  <2> QED BY <2>2, <2>3
<1>11. FlattenSeq(P) \in Seq(Item)
  <2>1. <<>> \in Seq(Item)
    BY EmptySeq
  <2> QED BY <1>4, <2>1, FlattenAppend
<1> QED BY <1>1, <1>3, <1>4, <1>9, <1>10, <1>11 DEF Fares

\* Every error a server sent whole is told, each with its own arguments, in their
\* places, and with the code of the statement, of any number of errors with texts and
\* arguments of any length; with a warning behind them nothing is.
THEOREM ErrorsAreHeard ==
  ASSUME NEW errors \in Seq(Errors), \A i \in DOMAIN errors : Complete(errors[i])
  PROVE  /\ parse_status_vector(Vector(errors)) =
              [code |-> CodeAfter(errors, Len(errors)), msg |-> FlattenSeq(Tolds(errors))]
         /\ parse_status_vector(Vector(errors) \o <<[t |-> "warning"]>>) = UnknownItem
<1>1. PICK v : v = Vector(errors)
  OBVIOUS
<1>2. /\ v \in Seq(Item) /\ Hear(v).message = FlattenSeq(Tolds(errors))
      /\ Hear(v).sql_code = CodeAfter(errors, Len(errors)) /\ ~Hear(v).unknown
  BY <1>1, FareAll
<1>3. parse_status_vector(v) = [code |-> CodeAfter(errors, Len(errors)), msg |-> FlattenSeq(Tolds(errors))]
  BY <1>2, HearAll
<1>4. PICK w : w = [t |-> "warning"]
  OBVIOUS
<1>5. w \in Item /\ w.t = "warning"
  BY <1>4 DEF Item
<1>6. v \o <<w>> = Append(v, w)
  <2>1. v \o Append(<<>>, w) = Append(v \o <<>>, w)
    BY <1>2, <1>5, EmptySeq, AppendBehind
  <2>2. Append(<<>>, w) = <<w>>
    OBVIOUS
  <2>3. v \o <<>> = v
    BY <1>2, ConcatEmptySeq
  <2> QED BY <2>1, <2>2, <2>3
<1>7. Append(v, w) \in Seq(Item)
  BY <1>2, <1>5, AppendProperties
<1>8. PICK st : st = Hear(v)
  OBVIOUS
<1>9. st \in States
  BY <1>2, <1>8, HearIn
<1>10. Hear(Append(v, w)) = status_item(st, w)
  BY <1>2, <1>5, <1>8, HearAppend
<1>11. Hear(Append(v, w)).unknown
  BY <1>5, <1>9, <1>10, WarningItem
<1>12. parse_status_vector(Append(v, w)) = UnknownItem
  BY <1>7, <1>11, HearAll
<1> QED BY <1>1, <1>3, <1>4, <1>6, <1>12

---------------------------------------------------------------------------
(* The inputs                                                              *)

\* What the results above ask of an input, for those kinds of input they are about:
\* every configuration, text, builder and connection string of the right form, of
\* which the actions take some.
KeyShape(x) == x.user \in Seq(Byte) /\ x.pubkey \in Seq(Byte) /\ Len(x.pubkey) =< LongestKey
RequestInput(x) == x.db \in Nat /\ x.file \in Nat /\ x.file < Limit(2) /\ x.flags \in Nat /\ x.page \in Nat
ListenShape(x) == /\ x.name \in Seq(Byte)
                  /\ Len(x.name) > 0 => x.name[Len(x.name)] # Blank
                  /\ x.blanks \in Nat /\ x.count \in Nat /\ x.count < Limit(4)
InputShape(x) ==
  /\ x.kind = "attach" => x.conf \in Confs
  /\ x.kind = "identify" => KeyShape(x)
  /\ x.kind = "request" => RequestInput(x)
  /\ x.kind = "begin" => x.calls \in Seq(AllCalls)
  /\ x.kind = "listen" => ListenShape(x)
  /\ x.kind = "connect" => WantOK(x.want)
  /\ x.kind = "column" => x.var \in Columns
  /\ x.kind = "executed" => x.counts \in Seq(Counts)
  /\ x.kind = "named" => x.raw \in Seq(Characters)
  /\ x.kind = "failed" => x.errors \in Seq(Errors) /\ x.warning \in BOOLEAN

InputInv == InputShape(input)

\* The kinds of input no result above is about.
OtherKinds == {"none", "row", "number", "described", "date", "time"}
LEMMA OtherShape ==
  ASSUME NEW x, x.kind \in OtherKinds
  PROVE  InputShape(x)
BY DEF InputShape, OtherKinds

LEMMA BytesAre ==
  ASSUME NEW n \in Nat
  PROVE  Bytes(n) \in Seq(Byte) /\ Len(Bytes(n)) = n /\ \A i \in 1 .. n : Bytes(n)[i] # Blank
<1>1. ASSUME NEW i \in 1 .. n PROVE (7 * i) % 31 \in Byte /\ (7 * i) % 31 # Blank
  BY SMT DEF Byte, Blank
<1>2. Bytes(n) \in [1 .. n -> Byte]
  BY <1>1 DEF Bytes
<1>3. \A i \in 1 .. n : Bytes(n)[i] # Blank
  BY <1>1 DEF Bytes
<1> QED BY <1>2, <1>3, TableIs

LEMMA SmallNumbers ==
  /\ Lengths \subseteq Nat /\ \A n \in Lengths : n < Limit(4)
  /\ {1, 255, 256} \subseteq Nat
  /\ \A n \in {1, 253, 254, 255, 256, 508, 509} : n \in Nat /\ n =< LongestKey
  /\ \A n \in {1, 300} : n \in Nat /\ n < Limit(2)
  /\ {1, 255, 256, 65536} \subseteq Nat /\ {0, 12} \subseteq Nat /\ {0, 4096} \subseteq Nat /\ {0, 8192} \subseteq Nat
  /\ {0, 2} \subseteq Nat
  /\ \A n \in {0, 700} : n \in Nat /\ n < Limit(4)
<1>1. \A n \in Lengths : n \in Nat /\ n < 65536
  BY SMT DEF Lengths
<1>2. \A n \in Lengths : n < Limit(4)
  BY <1>1, Limits, SMT
<1>3. \A n \in {1, 253, 254, 255, 256, 508, 509} : n \in Nat /\ n =< LongestKey
  BY SMT DEF LongestKey
<1>4. \A n \in {1, 300} : n \in Nat /\ n < Limit(2)
  BY Limits, SMT
<1>5. \A n \in {0, 700} : n \in Nat /\ n < Limit(4)
  BY Limits, SMT
<1>6. /\ {1, 255, 256} \subseteq Nat /\ {1, 255, 256, 65536} \subseteq Nat /\ {0, 12} \subseteq Nat
      /\ {0, 4096} \subseteq Nat /\ {0, 8192} \subseteq Nat /\ {0, 2} \subseteq Nat
  BY SMT
<1> QED BY <1>1, <1>2, <1>3, <1>4, <1>5, <1>6

LEMMA AttachShape == ASSUME Attach PROVE InputShape(input')
<1>1. PICK u \in Lengths, p \in Lengths, r \in Lengths, remote \in BOOLEAN, triggers \in BOOLEAN, page \in {0, 8192} :
        input' = [kind |-> "attach",
                  conf |-> [user |-> Bytes(u), pass |-> Bytes(p), role |-> Bytes(r),
                            remote |-> remote, triggers |-> triggers, page |-> page]]
  BY Zenon DEF Attach
<1>2. ASSUME NEW n \in Lengths PROVE Bytes(n) \in Texts4
  <2>1. n \in Nat /\ n < Limit(4)
    BY SmallNumbers
  <2>2. Bytes(n) \in Seq(Byte) /\ Len(Bytes(n)) = n
    BY <2>1, BytesAre
  <2> QED BY <2>1, <2>2 DEF Texts4
<1>3. PICK a, b, c : a = Bytes(u) /\ b = Bytes(p) /\ c = Bytes(r)
  OBVIOUS
<1>4. a \in Texts4 /\ b \in Texts4 /\ c \in Texts4 /\ page \in Nat
  BY <1>2, <1>3, SmallNumbers
<1>5. input'.conf = [user |-> a, pass |-> b, role |-> c, remote |-> remote, triggers |-> triggers, page |-> page]
  BY <1>1, <1>3
<1>6. input'.conf \in Confs
  BY <1>4, <1>5 DEF Confs
<1>7. input'.kind = "attach"
  BY <1>1
<1> QED BY <1>6, <1>7, SMTT(20) DEF InputShape

LEMMA IdentifyShape == ASSUME Identify PROVE InputShape(input')
<1>1. PICK u \in {1, 255, 256}, n \in {1, 253, 254, 255, 256, 508, 509} :
        input' = [kind |-> "identify", user |-> Bytes(u), pubkey |-> Bytes(n)]
  BY DEF Identify
<1>2. u \in Nat /\ n \in Nat /\ n =< LongestKey
  BY SmallNumbers
<1>3. Bytes(u) \in Seq(Byte) /\ Bytes(n) \in Seq(Byte) /\ Len(Bytes(n)) = n
  BY <1>2, BytesAre
<1>4. input'.kind = "identify" /\ input'.user = Bytes(u) /\ input'.pubkey = Bytes(n)
  BY <1>1
<1>5. KeyShape(input')
  BY <1>2, <1>3, <1>4 DEF KeyShape
<1> QED BY <1>4, <1>5 DEF InputShape

LEMMA RequestInputShape == ASSUME Request PROVE InputShape(input')
<1>1. PICK d \in {1, 255, 256, 65536}, f \in {1, 300}, flags \in {0, 12}, page \in {0, 4096} :
        input' = [kind |-> "request", db |-> d, file |-> f, flags |-> flags, page |-> page]
  BY DEF Request
<1>2. d \in Nat /\ f \in Nat /\ f < Limit(2) /\ flags \in Nat /\ page \in Nat
  BY SmallNumbers
<1>3. input'.kind = "request" /\ input'.db = d /\ input'.file = f /\ input'.flags = flags /\ input'.page = page
  BY <1>1
<1>4. RequestInput(input')
  BY <1>2, <1>3 DEF RequestInput
<1> QED BY <1>3, <1>4 DEF InputShape

LEMMA BeginShape == ASSUME Begin PROVE InputShape(input')
<1>1. PICK n \in 0 .. 3 : \E calls \in [1 .. n -> BuilderCalls] : input' = [kind |-> "begin", calls |-> calls]
  BY DEF Begin
<1>2. PICK calls \in [1 .. n -> BuilderCalls] : input' = [kind |-> "begin", calls |-> calls]
  BY <1>1
<1>3. BuilderCalls \subseteq AllCalls
  <2>1. 5 \in Nat
    OBVIOUS
  <2>2. [set |-> "no_wait"] \in AllCalls /\ [set |-> "wait_infinitely"] \in AllCalls
    BY DEF AllCalls, LockCalls
  <2>3. [set |-> "wait", to |-> 5] \in AllCalls
    BY <2>1 DEF AllCalls, LockCalls
  <2>4. [set |-> "access", to |-> tpb_read] \in AllCalls /\ [set |-> "access", to |-> tpb_write] \in AllCalls
    BY DEF AllCalls, AccessCalls
  <2>5. /\ [set |-> "isolation", to |-> tpb_consistency] \in AllCalls
        /\ [set |-> "isolation", to |-> tpb_concurrency] \in AllCalls
        /\ [set |-> "read_commited", to |-> tpb_rec_version] \in AllCalls
        /\ [set |-> "read_commited", to |-> tpb_no_rec_version] \in AllCalls
    BY DEF AllCalls, IsolationCalls
  <2> QED BY <2>2, <2>3, <2>4, <2>5 DEF BuilderCalls
<1>4. calls \in Seq(AllCalls)
  <2>1. calls \in [1 .. n -> AllCalls] /\ n \in Nat
    BY <1>2, <1>3
  <2> QED BY <2>1, TableIs
<1>5. input'.kind = "begin" /\ input'.calls = calls
  BY <1>2
<1> QED BY <1>4, <1>5 DEF InputShape

LEMMA ListenInputShape == ASSUME Listen PROVE InputShape(input')
<1>1. PICK n \in Lengths, blanks \in {0, 2}, count \in {0, 700} :
        input' = [kind |-> "listen", name |-> Bytes(n), blanks |-> blanks, count |-> count]
  BY DEF Listen
<1>2. n \in Nat /\ blanks \in Nat /\ count \in Nat /\ count < Limit(4)
  BY SmallNumbers
<1>3. PICK b : b = Bytes(n)
  OBVIOUS
<1>4. b \in Seq(Byte) /\ Len(b) = n /\ \A i \in 1 .. n : b[i] # Blank
  <2>1. n \in Nat
    BY <1>2
  <2>2. Bytes(n) \in Seq(Byte) /\ Len(Bytes(n)) = n /\ \A i \in 1 .. n : Bytes(n)[i] # Blank
    BY <2>1, BytesAre
  <2> QED BY <1>3, <2>2
<1>5. Len(b) > 0 => b[Len(b)] # Blank
  BY <1>2, <1>4
<1>6. input'.kind = "listen" /\ input'.name = b /\ input'.blanks = blanks /\ input'.count = count
  BY <1>1, <1>3
<1>7. ListenShape(input')
  BY <1>2, <1>4, <1>5, <1>6 DEF ListenShape
<1> QED BY <1>6, <1>7, SMTT(20) DEF InputShape

LEMMA TextsAre ==
  /\ IsText(Nothing)
  /\ \A s, e : e \in Nat => IsText(Text(s, e))
BY DEF Nothing, Text, IsText

LEMMA DbIsText == \A e : Text("db", e) # Nothing
BY DEF Nothing, Text

LEMMA DriveIs == Text("c", 0).w \in Drives
BY DEF Text, Drives

LEMMA WordIs ==
  ASSUME NEW ws, NEW t \in Words(ws)
  PROVE  IsText(t)
<1>1. 0 \in Nat /\ 1 \in Nat
  OBVIOUS
<1>2. t = Nothing \/ \E s \in ws, e \in {0, 1} : t = Text(s, e)
  BY DEF Words
<1> QED BY <1>1, <1>2, TextsAre

LEMMA ConnectShape == ASSUME Connect PROVE InputShape(input')
<1>1. PICK user \in Words({"joe"}), pass \in Words({"secret"}), port \in {0, 3051},
           host \in {Nothing, Text("server", 0), Text("c", 0)}, db \in Databases,
           lib \in Words({"fbclient"}), role \in Words({"boss"}),
           dialect \in {Nothing, Text("2", 0), Text("3", 0), Text("9", 0)} :
        /\ host = Nothing => user = Nothing /\ pass = Nothing /\ port = 0
        /\ host # Nothing => db.drive = Nothing
        /\ input' = [kind |-> "connect",
                     want |-> [user |-> user, pass |-> pass, port |-> port, host |-> host,
                               db |-> db, lib |-> lib, role |-> role, dialect |-> dialect]]
  BY DEF Connect
<1>2. \A s, e : e \in Nat => IsText(Text(s, e))
  BY TextsAre
<1>3. IsText(Nothing)
  BY TextsAre
<1>5. IsText(user) /\ IsText(pass) /\ IsText(lib) /\ IsText(role) /\ IsText(host)
  <2>1. IsText(user) /\ IsText(pass) /\ IsText(lib) /\ IsText(role)
    BY WordIs
  <2>2. 0 \in Nat
    OBVIOUS
  <2>3. IsText(host)
    BY <1>2, <1>3, <2>2
  <2> QED BY <2>1, <2>3
<1>6. /\ db = [drive |-> db.drive, slashes |-> db.slashes, rest |-> db.rest]
      /\ IsText(db.drive) /\ IsText(db.rest) /\ db.slashes \in Nat /\ db.rest # Nothing
      /\ db.drive # Nothing => db.drive.w \in Drives /\ db.slashes = 0
  <2>1. \A e : Text("db", e) # Nothing
    BY DbIsText
  <2>2. CASE db \in {Path(Nothing, s, Text("db", e)) : s \in {0, 1}, e \in {0, 1}}
    <3>1. PICK s \in {0, 1}, e \in {0, 1} : db = Path(Nothing, s, Text("db", e))
      BY <2>2
    <3> QED BY <1>2, <1>3, <2>1, <3>1 DEF Path
  <2>3. CASE db = Path(Text("c", 0), 0, Text("db", 0))
    <3>1. Text("c", 0).w \in Drives
      BY DriveIs
    <3> QED BY <1>2, <2>1, <2>3, <3>1 DEF Path
  <2> QED BY <2>2, <2>3 DEF Databases
<1>7. PICK w : w = input'.want
  OBVIOUS
<1>8. w = [user |-> user, pass |-> pass, port |-> port, host |-> host, db |-> db, lib |-> lib, role |-> role,
           dialect |-> dialect]
  BY <1>1, <1>7
<1>9. /\ w.user = user /\ w.pass = pass /\ w.port = port /\ w.host = host /\ w.db = db /\ w.lib = lib
      /\ w.role = role /\ w.dialect = dialect
  BY <1>8
<1>10. port \in Nat
  BY SMT
<1>11. WantOK(w)
  BY <1>1, <1>5, <1>6, <1>8, <1>9, <1>10 DEF WantOK
<1>12. input'.kind = "connect"
  BY <1>1
<1> QED BY <1>7, <1>11, <1>12 DEF InputShape

LEMMA ColumnShape == ASSUME AColumn PROVE InputShape(input')
<1>1. PICK t \in SqlTypes, sub \in -1 .. 2, scale \in {0, -2} :
        input' = [kind |-> "column", var |-> [t |-> t, sub |-> sub, scale |-> scale]]
  BY DEF AColumn
<1>2. sub \in Int /\ scale \in Int
  BY SMT
<1>3. input'.kind = "column" /\ input'.var = [t |-> t, sub |-> sub, scale |-> scale]
  BY <1>1
<1>4. input'.var \in Columns
  BY <1>2, <1>3 DEF Columns
<1> QED BY <1>3, <1>4 DEF InputShape

\* The numbers counted.
SmallCounts == {0, 3, 70000}

LEMMA SmallCount ==
  ASSUME NEW t \in CountTags, NEW n \in SmallCounts
  PROVE  <<t, n>> \in Counts
<1>1. n \in Nat /\ n < 65536 * 65536
  BY SMT DEF SmallCounts
<1>2. Limit(4) = 65536 * 65536
  BY DEF Limit
<1>3. n < Limit(4)
  BY <1>1, <1>2
<1> QED BY <1>1, <1>3 DEF Counts

\* A count of each kind, in the order the server has them.
EachCount(f) ==
  <<<<update_count, f[update_count]>>, <<delete_count, f[delete_count]>>,
    <<select_count, f[select_count]>>, <<insert_count, f[insert_count]>>>>

LEMMA EachIs ==
  ASSUME NEW f, \A t \in CountTags : f[t] \in SmallCounts
  PROVE  EachCount(f) \in Seq(Counts)
<1>1. \A t \in CountTags : <<t, f[t]>> \in Counts
  BY SmallCount
<1>2. update_count \in CountTags /\ delete_count \in CountTags /\ select_count \in CountTags
      /\ insert_count \in CountTags
  BY DEF CountTags
<1>3. PICK a, b : a = <<update_count, f[update_count]>> /\ b = <<delete_count, f[delete_count]>>
  OBVIOUS
<1>4. PICK c, d : c = <<select_count, f[select_count]>> /\ d = <<insert_count, f[insert_count]>>
  OBVIOUS
<1>5. a \in Counts /\ b \in Counts /\ c \in Counts /\ d \in Counts
  BY <1>1, <1>2, <1>3, <1>4
<1>6. <<a, b, c, d>> \in Seq(Counts)
  BY <1>5
<1> QED BY <1>3, <1>4, <1>6 DEF EachCount

\* An answer, with a count from N for each tag of T.
AnswerOf(T, N) ==
  \/ input' = [kind |-> "executed", counts |-> <<>>]
  \/ \E f \in [T -> N] :
       input' = [kind |-> "executed",
                 counts |-> <<<<update_count, f[update_count]>>, <<delete_count, f[delete_count]>>,
                              <<select_count, f[select_count]>>, <<insert_count, f[insert_count]>>>>]

LEMMA ExecutedIs ==
  Executed => \/ input' = [kind |-> "executed", counts |-> <<>>]
              \/ \E f \in [CountTags -> SmallCounts] : input' = [kind |-> "executed", counts |-> EachCount(f)]
<1>1. Executed = AnswerOf({select_count, insert_count, update_count, delete_count}, {0, 3, 70000})
  BY DEF Executed, AnswerOf
<1>2. PICK T, N : T = CountTags /\ N = SmallCounts
  OBVIOUS
<1>3. {select_count, insert_count, update_count, delete_count} = T
  BY <1>2 DEF CountTags
<1>4. {0, 3, 70000} = N
  BY <1>2 DEF SmallCounts
<1>5. Executed = AnswerOf(T, N)
  BY <1>1, <1>3, <1>4
<1>6. AnswerOf(T, N) => \/ input' = [kind |-> "executed", counts |-> <<>>]
                        \/ \E f \in [T -> N] : input' = [kind |-> "executed", counts |-> EachCount(f)]
  BY DEF AnswerOf, EachCount
<1> QED BY <1>2, <1>5, <1>6

LEMMA ExecutedShape == ASSUME Executed PROVE InputShape(input')
<1>1. CASE input' = [kind |-> "executed", counts |-> <<>>]
  <2>1. input'.kind = "executed" /\ input'.counts = <<>>
    BY <1>1
  <2>2. <<>> \in Seq(Counts)
    BY EmptySeq
  <2> QED BY <2>1, <2>2 DEF InputShape
<1>2. CASE \E f \in [CountTags -> SmallCounts] : input' = [kind |-> "executed", counts |-> EachCount(f)]
  <2>1. PICK f \in [CountTags -> SmallCounts] : input' = [kind |-> "executed", counts |-> EachCount(f)]
    BY <1>2
  <2>2. input'.kind = "executed" /\ input'.counts = EachCount(f)
    BY <2>1
  <2>3. EachCount(f) \in Seq(Counts)
    <3>1. \A t \in CountTags : f[t] \in SmallCounts
      BY <2>1
    <3> QED BY <3>1, EachIs
  <2> QED BY <2>2, <2>3 DEF InputShape
<1> QED BY <1>1, <1>2, ExecutedIs

LEMMA NamedShape == ASSUME Named PROVE InputShape(input')
<1>1. PICK n \in 0 .. 6 : \E raw \in [1 .. n -> Characters] : input' = [kind |-> "named", raw |-> raw]
  BY DEF Named
<1>2. PICK raw \in [1 .. n -> Characters] : input' = [kind |-> "named", raw |-> raw]
  BY <1>1
<1>3. n \in Nat
  OBVIOUS
<1>4. raw \in Seq(Characters)
  BY <1>2, <1>3, TableIs
<1>5. input'.kind = "named" /\ input'.raw = raw
  BY <1>2
<1> QED BY <1>4, <1>5 DEF InputShape

LEMMA SmallMessages ==
  /\ Pieces1 \subseteq Messages
  /\ Arguments \subseteq Argued
  /\ {1, isc_sqlerr} \subseteq Nat \ {0}
<1>1. PICK a, b, c, d, e, f : /\ a = <<0, 1>> /\ b = <<1>> /\ c = <<2>> /\ d = <<0, 2>> /\ e = <<0, 3>>
                              /\ f = <<0, 4>>
  OBVIOUS
<1>2. 0 \in Nat /\ 1 \in Nat /\ 2 \in Nat /\ 3 \in Nat /\ 4 \in Nat
  OBVIOUS
<1>3. a \in Seq(Nat) /\ b \in Seq(Nat) /\ c \in Seq(Nat)
  BY <1>1, <1>2
<1>4. d \in Seq(Nat) /\ e \in Seq(Nat) /\ f \in Seq(Nat)
  BY <1>1, <1>2
<1>5. <<a>> \in Messages /\ <<a, b>> \in Messages /\ <<c, d, b>> \in Messages
  BY <1>3, <1>4 DEF Messages
<1>6. Pieces1 = {<<a>>, <<a, b>>, <<c, d, b>>}
  BY <1>1 DEF Pieces1
<1>7. <<e>> \in Messages /\ <<c>> \in Messages /\ <<f>> \in Messages
  BY <1>3, <1>4 DEF Messages
<1>8. Arguments = {[t |-> "string", arg |-> <<e>>], [t |-> "string", arg |-> <<c>>],
                   [t |-> "number", arg |-> <<f>>, n |-> -104]}
  BY <1>1 DEF Arguments
<1>9. PICK x, y, z : x = <<e>> /\ y = <<c>> /\ z = <<f>>
  OBVIOUS
<1>10. /\ [t |-> "string", arg |-> x] \in Argued /\ [t |-> "string", arg |-> y] \in Argued
       /\ [t |-> "number", arg |-> z, n |-> -104] \in Argued
  BY <1>7, <1>9 DEF Argued
<1>11. {1, isc_sqlerr} \subseteq Nat \ {0}
  BY SMT DEF isc_sqlerr
<1> QED BY <1>5, <1>6, <1>8, <1>9, <1>10, <1>11

LEMMA FailedShape == ASSUME Failed PROVE InputShape(input')
<1>1. PICK A, C : A = UNION {[1 .. k -> Arguments] : k \in 0 .. 2} /\ C = {1, isc_sqlerr}
  OBVIOUS
<1>2. PICK n \in 1 .. 2 : \E errors \in [1 .. n -> [code : C, text : Pieces1, args : A]], warning \in BOOLEAN :
         input' = [kind |-> "failed", errors |-> errors, warning |-> warning]
  BY <1>1 DEF Failed
<1>3. PICK errors \in [1 .. n -> [code : C, text : Pieces1, args : A]], warning \in BOOLEAN :
         input' = [kind |-> "failed", errors |-> errors, warning |-> warning]
  BY <1>2
<1>4. ASSUME NEW a \in A PROVE a \in Seq(Argued)
  <2>1. PICK k \in 0 .. 2 : a \in [1 .. k -> Arguments]
    BY <1>1
  <2>2. k \in Nat /\ a \in [1 .. k -> Argued]
    BY <2>1, SmallMessages
  <2> QED BY <2>2, TableIs
<1>5. ASSUME NEW e \in [code : C, text : Pieces1, args : A] PROVE e \in Errors
  <2>1. e.code \in Nat \ {0} /\ e.text \in Messages /\ e.args \in Seq(Argued)
    BY <1>1, <1>4, SmallMessages
  <2>2. e = [code |-> e.code, text |-> e.text, args |-> e.args]
    OBVIOUS
  <2> QED BY <2>1, <2>2 DEF Errors
<1>6. errors \in Seq(Errors)
  <2>1. n \in Nat /\ errors \in [1 .. n -> Errors]
    BY <1>3, <1>5
  <2> QED BY <2>1, TableIs
<1>7. input'.kind = "failed" /\ input'.errors = errors /\ input'.warning = warning
  BY <1>3
<1> QED BY <1>6, <1>7, SMTT(20) DEF InputShape

\* Every input has its shape.
LEMMA InputInvariant == Spec => []InputInv
<1>1. Init => InputInv
  BY OtherShape DEF Init, InputInv, NoInput, OtherKinds
<1>2. InputInv /\ [Next]_input => InputInv'
  <2> SUFFICES ASSUME InputInv, [Next]_input PROVE InputShape(input')
    BY DEF InputInv
  <2>1. ASSUME Row PROVE InputShape(input')
    <3>1. input'.kind = "row"
      BY <2>1 DEF Row
    <3> QED BY <3>1, OtherShape DEF OtherKinds
  <2>2. ASSUME WideRow PROVE InputShape(input')
    <3>1. input'.kind = "row"
      BY <2>2 DEF WideRow
    <3> QED BY <3>1, OtherShape DEF OtherKinds
  <2>3. ASSUME Number PROVE InputShape(input')
    <3>1. input'.kind = "number"
      BY <2>3 DEF Number
    <3> QED BY <3>1, OtherShape DEF OtherKinds
  <2>6. ASSUME Described PROVE InputShape(input')
    <3>1. input'.kind = "described"
      BY <2>6 DEF Described
    <3> QED BY <3>1, OtherShape DEF OtherKinds
  <2>9. ASSUME ADate PROVE InputShape(input')
    <3>1. input'.kind = "date"
      BY <2>9 DEF ADate
    <3> QED BY <3>1, OtherShape DEF OtherKinds
  <2>10. ASSUME ATime PROVE InputShape(input')
    <3>1. input'.kind = "time"
      BY <2>10 DEF ATime
    <3> QED BY <3>1, OtherShape DEF OtherKinds
  <2>11. ASSUME input' = input PROVE InputShape(input')
    BY <2>11 DEF InputInv
  <2> QED
    BY <2>1, <2>2, <2>3, <2>6, <2>9, <2>10, <2>11, AttachShape, IdentifyShape,
       RequestInputShape, BeginShape, ListenInputShape, ConnectShape, ColumnShape, ExecutedShape, NamedShape, FailedShape DEF Next
<1> QED BY <1>1, <1>2, PTL DEF Spec

\* The parts of BlocksParseBack, each from what is known of its inputs.
LEMMA AttachPart ==
  ASSUME InputInv, input.kind = "attach"
  PROVE  LET c == input.conf
         IN /\ ReadDpb(dpb(build_dpb(c))) = build_dpb(c)
            /\ ReadDpb(native_dpb(c)) = native_fields(c)
               <=> Short({c.user, c.role} \cup (IF c.remote THEN {c.pass} ELSE {}))
            /\ ReadClumplets(After(build_attach_spb(c.user, c.pass), 2), 1)
               = <<Field(user_name, c.user), Field(password, c.pass)>>
               <=> Short({c.user, c.pass})
<1>1. input.conf \in Confs
  BY DEF InputInv, InputShape
<1> QED BY <1>1, AttachmentSurvives

LEMMA IdentifyPart ==
  ASSUME InputInv, input.kind = "identify"
  PROVE  LET fields == ReadClumplets(uid(input.user, input.pubkey, <<1>>), 1)
         IN (fields = uid_fields(input.user, input.pubkey, <<1>>) /\ ReadKey(fields) = input.pubkey)
            <=> Short({input.user})
<1>1. PICK u, k, name : u = input.user /\ k = input.pubkey /\ name = <<1>>
  OBVIOUS
<1>2. u \in Seq(Byte) /\ k \in Seq(Byte) /\ Len(k) =< LongestKey
  BY <1>1 DEF InputInv, InputShape, KeyShape
<1>3. name \in Seq(Byte) /\ Len(name) < 256
  BY <1>1, 0 \in Nat, SmallData, SMT
<1>4. LET fields == ReadClumplets(uid(u, k, name), 1)
      IN (fields = uid_fields(u, k, name) /\ ReadKey(fields) = k) <=> Short({u})
  BY <1>2, <1>3, IdentificationSurvives
<1> QED BY <1>1, <1>4

\* What the results on requests and events say, each under a name.
TwoBytesHold(n) == n < 65536
BackupSaid(db, file, flags) ==
  ReadRequest(backup_request(db, file, flags))
    = [action |-> 1, strings |-> <<Field(dbname, db), Field(bkp_file, file)>>,
       numbers |-> <<Number32(options, flags), <<verbose>>>>]
RestoreSaid(file, db, flags, page) ==
  ReadRequest(restore_request(file, db, flags, page))
    = [action |-> 2, strings |-> <<Field(bkp_file, file), Field(dbname, db)>>,
       numbers |-> <<Number32(options, flags)>>
                   \o (IF page = 0 THEN <<>> ELSE <<Number32(res_page_size, page)>>)
                   \o <<<<verbose>>>>]
EventSaid(name, blanks, count) ==
  LET epb == event_block(<<[name |-> name \o Padding(blanks), count |-> count]>>)
  IN IF Len(name) \in 1 .. 255
     THEN parse_event_block(epb) = <<[name |-> name, count |-> count]>>
     ELSE epb = NoBlock

LEMMA BackupIsSaid ==
  ASSUME NEW db \in Seq(Byte), NEW file \in Seq(Byte), NEW flags \in Nat
  PROVE  BackupSaid(db, file, flags) <=> TwoBytesHold(Len(db)) /\ TwoBytesHold(Len(file))
BY BackupSurvives DEF BackupSaid, TwoBytesHold

LEMMA RestoreIsSaid ==
  ASSUME NEW file \in Seq(Byte), NEW db \in Seq(Byte), NEW flags \in Nat, NEW page \in Nat
  PROVE  RestoreSaid(file, db, flags, page) <=> TwoBytesHold(Len(db)) /\ TwoBytesHold(Len(file))
BY RestoreSurvives, SMTT(20) DEF RestoreSaid, TwoBytesHold

LEMMA EventIsSaid ==
  ASSUME NEW name \in Seq(Byte), Len(name) > 0 => name[Len(name)] # Blank,
         NEW blanks \in Nat, NEW count \in Nat, count < Limit(4)
  PROVE  EventSaid(name, blanks, count)
BY EventSurvives DEF EventSaid

LEMMA RequestPart ==
  ASSUME InputInv, input.kind = "request"
  PROVE  LET db == Field(dbname, Bytes(input.db))
             file == Field(bkp_file, Bytes(input.file))
             flags == <<options>> \o le(input.flags, 4)
             page == IF input.page = 0 THEN <<>> ELSE <<<<res_page_size>> \o le(input.page, 4)>>
         IN /\ ReadRequest(backup_request(db.data, file.data, input.flags))
               = [action |-> 1, strings |-> <<db, file>>, numbers |-> <<flags, <<verbose>>>>]
               <=> input.db < 65536
            /\ ReadRequest(restore_request(file.data, db.data, input.flags, input.page))
               = [action |-> 2, strings |-> <<file, db>>,
                  numbers |-> <<flags>> \o page \o <<<<verbose>>>>]
               <=> input.db < 65536
<1>1. PICK d, f : d = Bytes(input.db) /\ f = Bytes(input.file)
  OBVIOUS
<1>2. input.db \in Nat /\ input.file \in Nat /\ input.file < Limit(2) /\ input.flags \in Nat /\ input.page \in Nat
  BY DEF InputInv, InputShape, RequestInput
<1>3. d \in Seq(Byte) /\ Len(d) = input.db /\ f \in Seq(Byte) /\ Len(f) = input.file
  BY <1>1, <1>2, BytesAre
<1>4. TwoBytesHold(Len(f))
  BY <1>2, <1>3, Limits DEF TwoBytesHold
<1>5. BackupSaid(d, f, input.flags) <=> TwoBytesHold(input.db)
  BY <1>2, <1>3, <1>4, BackupIsSaid
<1>6. RestoreSaid(f, d, input.flags, input.page) <=> TwoBytesHold(input.db)
  BY <1>2, <1>3, <1>4, RestoreIsSaid
<1>7. Field(dbname, d).data = d /\ Field(bkp_file, f).data = f
  BY DEF Field
<1> QED BY <1>1, <1>5, <1>6, <1>7 DEF BackupSaid, RestoreSaid, TwoBytesHold, Number32

LEMMA BeginPart ==
  ASSUME InputInv, input.kind = "begin"
  PROVE  ReadTpb(tpb(Built(input.calls))) = Asked(input.calls)
<1>1. input.calls \in Seq(AllCalls)
  BY DEF InputInv, InputShape
<1> QED BY <1>1, TransactionSurvives

LEMMA ListenPart ==
  ASSUME InputInv, input.kind = "listen"
  PROVE  LET padded == input.name \o [i \in 1..input.blanks |-> Blank]
             epb == event_block(<<[name |-> padded, count |-> input.count]>>)
         IN IF Len(input.name) \in 1..255
            THEN parse_event_block(epb) = <<[name |-> input.name, count |-> input.count]>>
            ELSE epb = NoBlock
<1>1. PICK name, blanks, count : name = input.name /\ blanks = input.blanks /\ count = input.count
  OBVIOUS
<1>2. /\ name \in Seq(Byte)
      /\ Len(name) > 0 => name[Len(name)] # Blank
      /\ blanks \in Nat /\ count \in Nat /\ count < Limit(4)
  BY <1>1 DEF InputInv, InputShape, ListenShape
<1>3. EventSaid(name, blanks, count)
  BY <1>2, EventIsSaid
<1> QED BY <1>1, <1>3 DEF EventSaid, Padding

\* A block says to the server what it was built from, whatever the input.
THEOREM BlocksAreRead == Spec => []BlocksParseBack
<1>1. InputInv => BlocksParseBack
  BY AttachPart, IdentifyPart, RequestPart, BeginPart, ListenPart DEF BlocksParseBack
<1> QED BY <1>1, InputInvariant, PTL

\* A connection string means what it was written for, whatever the input.
THEOREM StringsMean == Spec => []ConnStringsMean
<1>1. InputInv => ConnStringsMean
  <2> SUFFICES ASSUME InputInv, input.kind = "connect" PROVE ConnStringsMean
    BY DEF ConnStringsMean
  <2>1. PICK w : w = input.want
    OBVIOUS
  <2>2. WantOK(w)
    BY <2>1 DEF InputInv, InputShape
  <2> QED BY <2>1, <2>2, WrittenIsMeant DEF ConnStringsMean
<1> QED BY <1>1, InputInvariant, PTL

\* Both clients make the same of a column and of the counts of an execution, whatever
\* the input.
THEOREM BothAgree == Spec => []ClientsAgree
<1>1. InputInv => ClientsAgree
  <2> SUFFICES ASSUME InputInv PROVE ClientsAgree
    OBVIOUS
  <2>1. ASSUME input.kind = "column"
        PROVE  wire_kind(input.var) = native_kind(input.var) \/ (input.var.t = "BLOB" /\ input.var.sub < 0)
    <3>1. input.var \in Columns
      BY <2>1 DEF InputInv, InputShape
    <3> QED BY <3>1, ColumnsAgree
  <2>2. ASSUME input.kind = "executed"
        PROVE  /\ parse_info_sql_affected_rows(Records(input.counts)) = native_affected_rows(Records(input.counts))
               /\ native_affected_rows(Records(input.counts)) = Changed(input.counts)
    <3>1. input.counts \in Seq(Counts)
      BY <2>2 DEF InputInv, InputShape
    <3>2. PICK c : c = input.counts
      OBVIOUS
    <3>3. c \in Seq(Counts)
      BY <3>1, <3>2
    <3> QED BY <3>2, <3>3, RowsAreCounted
  <2> QED BY <2>1, <2>2 DEF ClientsAgree, Changed
<1> QED BY <1>1, InputInvariant, PTL

\* In a statement whose apostrophes are in pairs the names outside the literals, and
\* nothing else, become question marks, and the values go where the names were.
THEOREM NamesAreInOrder == Spec => []NamedInOrder
<1>1. InputInv => NamedInOrder
  <2> SUFFICES ASSUME InputInv, input.kind = "named", Apostrophes(input.raw, Len(input.raw)) % 2 = 0
               PROVE  NamedInOrder
    BY DEF NamedInOrder
  <2>1. PICK raw : raw = input.raw
    OBVIOUS
  <2>2. raw \in Seq(Characters) /\ Apostrophes(raw, Len(raw)) % 2 = 0
    BY <2>1 DEF InputInv, InputShape
  <2>3. PICK p : p = parse_named(raw)
    OBVIOUS
  <2>4. raw = FlattenSeq([i \in DOMAIN p.sql |->
                IF p.sql[i] = "?" THEN <<":">> \o p.names[Cardinality({j \in 1 .. i : p.sql[j] = "?"})]
                ELSE <<p.sql[i]>>])
    BY <2>2, <2>3, NamesGoBack
  <2>5. \A i \in DOMAIN p.sql :
           /\ p.sql[i] = "?" => ~InLiteral(p.sql, i)
           /\ p.sql[i] = ":" /\ i < Len(p.sql) /\ p.sql[i + 1] \in Letters => InLiteral(p.sql, i)
    BY <2>2, <2>3, NamesAreFound
  <2>6. convert(p.names, [name \in Range(p.names) |-> Len(name)]) = [i \in DOMAIN p.names |-> Len(p.names[i])]
    BY ValuesFollow
  <2> QED BY <2>1, <2>3, <2>4, <2>5, <2>6, Zenon DEF NamedInOrder
<1> QED BY <1>1, InputInvariant, PTL

\* The errors of a failed request are told whole, each with its own arguments in their
\* places, if the server sent them whole, and with a warning not at all.
THEOREM FailuresAreTold == Spec => []ErrorsAreTold
<1>1. InputInv => ErrorsAreTold
  <2> SUFFICES ASSUME InputInv, input.kind = "failed", \A i \in DOMAIN input.errors : Complete(input.errors[i])
               PROVE  ErrorsAreTold
    BY DEF ErrorsAreTold
  <2>1. PICK errors, v : errors = input.errors /\ v = Vector(input.errors)
    OBVIOUS
  <2>2. errors \in Seq(Errors) /\ input.warning \in BOOLEAN
    BY <2>1 DEF InputInv, InputShape
  <2>3. /\ parse_status_vector(v) = [code |-> CodeAfter(errors, Len(errors)), msg |-> FlattenSeq(Tolds(errors))]
        /\ parse_status_vector(v \o <<[t |-> "warning"]>>) = UnknownItem
    BY <2>1, <2>2, ErrorsAreHeard
  <2>4. DOMAIN errors = 1 .. Len(errors)
    BY <2>2, LenProperties
  <2>5. PICK sqlerrs : sqlerrs = {i \in DOMAIN errors :
                                    /\ errors[i].code = isc_sqlerr
                                    /\ \E j \in DOMAIN errors[i].args : errors[i].args[j].t = "number"}
    OBVIOUS
  <2>6. CodeAfter(errors, Len(errors)) = IF sqlerrs = {} THEN -1 ELSE -104
    <3>1. ASSUME NEW i \in DOMAIN errors PROVE DOMAIN errors[i].args = 1 .. Len(errors[i].args)
      <4>1. errors[i] \in Errors
        BY <2>2, <2>4, ElementOfSeq
      <4> QED BY <4>1, BeginIs, LenProperties
    <3>2. sqlerrs = {i \in DOMAIN errors : Sqlerr(errors[i])}
      BY <2>5, <3>1 DEF Sqlerr
    <3>3. sqlerrs = {} <=> ~ \E i \in 1 .. Len(errors) : Sqlerr(errors[i])
      BY <2>4, <3>2
    <3> QED BY <3>3 DEF CodeAfter
  <2>7. v \o <<>> = v
    <3>1. v \in Seq(Item)
      BY <2>1, <2>2, FareAll
    <3> QED BY <3>1, ConcatEmptySeq
  <2>8. CASE input.warning
    BY <2>1, <2>3, <2>8 DEF ErrorsAreTold
  <2>9. CASE ~input.warning
    <3>1. FlattenSeq(Tolds(errors)) = FlattenSeq([i \in DOMAIN errors |-> Told(errors[i])])
      BY DEF Tolds
    <3>2. PICK told : told = parse_status_vector(v \o <<>>)
      OBVIOUS
    <3>3. told.msg = FlattenSeq([i \in DOMAIN errors |-> Told(errors[i])])
          /\ told.code = IF sqlerrs = {} THEN -1 ELSE -104
      BY <2>3, <2>6, <2>7, <3>1, <3>2
    <3> QED BY <2>1, <2>5, <2>9, <3>2, <3>3 DEF ErrorsAreTold
  <2> QED BY <2>8, <2>9
<1> QED BY <1>1, InputInvariant, PTL

===============================================================================

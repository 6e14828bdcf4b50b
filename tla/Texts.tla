------------------------------- MODULE Texts --------------------------------
(***************************************************************************)
(* Text the library reads itself: named parameters in a statement, and     *)
(* connection strings, with what the two connection builders take from     *)
(* them; and the arithmetic of dates and times (chrono's on one side, the  *)
(* server's numbers on the other).                                         *)
(***************************************************************************)
EXTENDS Integers, Sequences, SequencesExt

---------------------------------------------------------------------------
(* Named parameters.  A statement is characters: an apostrophe, a colon,   *)
(* letters, and a blank for all others.                                    *)

Letters == {"a", "b"}

\* How many letters there are from place i on.
WordAt(raw, i) ==
  CHOOSE n \in 0..Len(raw) :
    /\ \A j \in i..(i + n - 1) : j =< Len(raw) /\ raw[j] \in Letters
    /\ i + n > Len(raw) \/ raw[i + n] \notin Letters

\* Mutant of literal: a literal ends at the last apostrophe.
literalGreedy(raw, i) ==
  LET ends == {j \in i + 1..Len(raw) : raw[j] = "'"}
  IN IF raw[i] # "'" \/ ends = {} THEN 0
     ELSE (CHOOSE j \in ends : \A k \in ends : k =< j) - i + 1

\* '[^']*' at place i: how long it is, 0 when there is none.
literal(raw, i) ==
  LET ends == {j \in i + 1..Len(raw) : raw[j] = "'"}
  IN IF raw[i] # "'" \/ ends = {} THEN 0
     ELSE (CHOOSE j \in ends : \A k \in ends : j =< k) - i + 1

\* NamedParams::parse: from place i on, a literal stays as it is, a name becomes a
\* question mark, anything else is copied.
parse_named(raw) ==
  LET from[i \in 1..Len(raw) + 1] ==
        LET lit == literal(raw, i)
            word == IF raw[i] = ":" THEN WordAt(raw, i + 1) ELSE 0
            n == IF lit > 0 THEN lit ELSE IF word > 0 THEN 1 + word ELSE 1
            rest == from[i + n]
        IN IF i > Len(raw) THEN [sql |-> <<>>, names |-> <<>>]
           ELSE IF word > 0
             THEN [sql |-> <<"?">> \o rest.sql,
                   names |-> <<SubSeq(raw, i + 1, i + word)>> \o rest.names]
             ELSE [rest EXCEPT !.sql = SubSeq(raw, i, i + n - 1) \o @]
  IN from[1]

\* NamedParams::convert of the values of a struct, a function on names: each name
\* of the statement, as often as it is there, or an error.
NotFound == <<"not found">>
convert(names, values) ==
  IF \E i \in DOMAIN names : names[i] \notin DOMAIN values THEN NotFound
  ELSE [i \in DOMAIN names |-> values[names[i]]]

---------------------------------------------------------------------------
(* Connection strings.  A text is a word and how often it is percent-      *)
(* encoded; a part that is not there is Nothing.                           *)

Nothing == [w |-> "", enc |-> 0]
Text(w, enc) == [w |-> w, enc |-> enc]
decode(t) == IF t.enc > 0 THEN [t EXCEPT !.enc = @ - 1] ELSE t

\* The url crate: the parts of the string, still encoded but for the values of the
\* query.  A path is its slashes at the front and the rest; "c:/" is read as a
\* host with an empty port, and a lone file name as a host.
Url(user, pass, host, port, path, query) ==
  [user |-> user, pass |-> pass, host |-> host, port |-> port, path |-> path,
   query |-> [k \in DOMAIN query |-> decode(query[k])]]
Path(drive, slashes, rest) == [drive |-> drive, slashes |-> slashes, rest |-> rest]
NoPath == Path(Nothing, 0, Nothing)

\* Mutant of HostIsPath: whether or not there is a user.
HostIsPathAlways(url, host, path) ==
  /\ host # Nothing
  /\ path = NoPath \/ host.w \in {"c"}

\* A host that is a drive or the file itself: nothing else is said of a server.
Drives == {"c"}
HostIsPath(url, host, path) ==
  /\ host # Nothing /\ url.user = Nothing /\ url.pass = Nothing /\ url.port = 0
  /\ path = NoPath \/ host.w \in Drives

\* conn_string::parse.  A dialect that is none is left out, like a character set
\* and a cache size.
DbRequired == "The database name/path is required"
db_of(url) ==
  IF url.path = NoPath THEN NoPath
  ELSE [url.path EXCEPT !.rest = decode(@),
                        !.slashes = IF @ > 0 /\ url.host # Nothing THEN @ - 1 ELSE @]
parse_string(url) ==
  LET host == decode(url.host)
      db == db_of(url)
      local == HostIsPath(url, host, db)
  IN [user |-> decode(url.user), pass |-> decode(url.pass), port |-> url.port,
      host |-> IF local THEN Nothing ELSE host,
      db |-> IF ~local THEN db
             ELSE IF db = NoPath THEN Path(Nothing, 0, host) ELSE [db EXCEPT !.drive = host],
      lib |-> decode(url.query["lib"]), role |-> url.query["role"],
      dialect |-> IF url.query["dialect"].w \in {"1", "2", "3"} THEN url.query["dialect"] ELSE Nothing]

Given(t, default) == IF t = Nothing THEN default ELSE t

\* from_string of the wire client's builder: what the string says, over what the
\* builder has.
from_string(b, url) ==
  LET s == parse_string(url)
  IN IF s.db = NoPath THEN [b EXCEPT !.db = s.db, !.error = DbRequired]
     ELSE [b EXCEPT !.host = Given(s.host, @), !.port = IF s.port = 0 THEN @ ELSE s.port,
                    !.user = Given(s.user, @), !.pass = Given(s.pass, @),
                    !.db = s.db, !.role = Given(s.role, @), !.dialect = Given(s.dialect, @)]

\* from_string of the native client's builder: remote only with a host, and then from
\* the default server and password; without one the user stays as it was too.
Remote == [host |-> Text("localhost", 0), port |-> 3050, pass |-> Text("masterkey", 0)]
native_from_string(b, url) ==
  LET s == parse_string(url)
      local == [b EXCEPT !.db = s.db, !.role = Given(s.role, @), !.lib = Given(s.lib, @),
                         !.dialect = Given(s.dialect, @)]
  IN IF s.db = NoPath THEN [b EXCEPT !.db = s.db, !.error = DbRequired]
     ELSE IF s.host = Nothing THEN local
     ELSE [local EXCEPT !.host = s.host, !.port = IF s.port = 0 THEN Remote.port ELSE s.port,
                        !.user = Given(s.user, @), !.pass = Given(s.pass, Remote.pass)]

---------------------------------------------------------------------------
(* Dates and times.  A date is year, month and day; ISC_DATE is its number *)
(* of days, ISC_TIME a number of ten-thousandths of a second.              *)

ISC_TIME_SECONDS_PRECISION == 10000
FRACTION_TO_NANOS == 1000000000 \div ISC_TIME_SECONDS_PRECISION

\* Mutant of encode_date: the year begins in January.
encode_dateJanuary(d) ==
  LET c == d.y \div 100
      ya == d.y - 100 * c
  IN (146097 * c) \div 4 + (1461 * ya) \div 4 + (153 * (d.m - 1) + 2) \div 5 + d.d + 1721119 - 2400001

\* encode_date: the year begins in March.
encode_date(d) ==
  LET month == IF d.m > 2 THEN d.m - 3 ELSE d.m + 9
      year == IF d.m > 2 THEN d.y ELSE d.y - 1
      c == year \div 100
      ya == year - 100 * c
  IN (146097 * c) \div 4 + (1461 * ya) \div 4 + (153 * month + 2) \div 5 + d.d + 1721119 - 2400001

\* decode_date.
decode_date(date) ==
  LET n == 4 * (date + 2400001 - 1721119) - 1
      century == n \div 146097
      day == (n - 146097 * century) \div 4
      nday == (4 * day + 3) \div 1461
      inYear == (4 * day + 3 - 1461 * nday + 4) \div 4
      month == (5 * inYear - 3) \div 153
      year == 100 * century + nday
  IN [y |-> IF month < 10 THEN year ELSE year + 1,
      m |-> IF month < 10 THEN month + 3 ELSE month - 9,
      d |-> (5 * inYear - 3 - 153 * month + 5) \div 5]

\* encode_time, of hours, minutes, seconds and nanoseconds; decode_time.
encode_time(t) ==
  ((t.h * 60 + t.mi) * 60 + t.s) * ISC_TIME_SECONDS_PRECISION + t.nano \div FRACTION_TO_NANOS
decode_time(time) ==
  LET P == ISC_TIME_SECONDS_PRECISION
  IN [h |-> time \div (3600 * P), mi |-> (time % (3600 * P)) \div (60 * P),
      s |-> (time % (60 * P)) \div P, nano |-> (time % P) * FRACTION_TO_NANOS]

===========================================================================

------------------------------ MODULE Encodings ------------------------------
(***************************************************************************)
(* The computations of the library that keep no state, each on inputs at   *)
(* its boundaries: what is written is read back, in any order of options,  *)
(* at every length, and from any part of a reply.  A step takes one input; *)
(* the properties say what comes of it.                                    *)
(***************************************************************************)
EXTENDS Rows, Describe, Texts, FiniteSets

VARIABLE input

NoInput == [kind |-> "none"]

\* n bytes, none of them a blank.
Bytes(n) == [i \in 1..n |-> (7 * i) % 31]

---------------------------------------------------------------------------
(* Inputs                                                                  *)

\* A length at the limit of one byte, and around it.
Lengths == {0, 1, 255, 256}

Attach ==
  \E u, p, r \in Lengths, remote, triggers \in BOOLEAN, page \in {0, 8192} :
    input' = [kind |-> "attach",
              conf |-> [user |-> Bytes(u), pass |-> Bytes(p), role |-> Bytes(r),
                        remote |-> remote, triggers |-> triggers, page |-> page]]

Identify ==
  \E u \in {1, 255, 256}, n \in {1, 253, 254, 255, 256, 508, 509} :
    input' = [kind |-> "identify", user |-> Bytes(u), pubkey |-> Bytes(n)]

Request ==
  \E d \in {1, 255, 256, 65536}, f \in {1, 300}, flags \in {0, 12}, page \in {0, 4096} :
    input' = [kind |-> "request", db |-> d, file |-> f, flags |-> flags, page |-> page]

BuilderCalls ==
  {[set |-> "no_wait"], [set |-> "wait", to |-> 5], [set |-> "wait_infinitely"],
   [set |-> "access", to |-> tpb_read], [set |-> "access", to |-> tpb_write],
   [set |-> "isolation", to |-> tpb_consistency], [set |-> "isolation", to |-> tpb_concurrency],
   [set |-> "read_commited", to |-> tpb_rec_version],
   [set |-> "read_commited", to |-> tpb_no_rec_version]}
Begin == \E n \in 0..3 : \E calls \in [1..n -> BuilderCalls] :
           input' = [kind |-> "begin", calls |-> calls]

Listen ==
  \E n \in Lengths, blanks \in {0, 2}, count \in {0, 700} :
    input' = [kind |-> "listen", name |-> Bytes(n), blanks |-> blanks, count |-> count]

Values ==
  {Val("Text", <<>>), Val("Text", <<1, 2, 3>>), Val("Text", Bytes(MAX_DATA_LENGTH)),
   Val("Text", Bytes(MAX_DATA_LENGTH + 1)), Val("Binary", <<9, 8>>), NullVal,
   Val("Integer", <<255, 255, 255, 255, 255, 255, 255, 254>>),
   Val("Timestamp", <<0, 0, 229, 1, 0, 2, 3, 0>>), Val("Boolean", <<0>>), Val("Boolean", <<1>>)}
NullColumns == {"VARYING", "INT64", "TIMESTAMP", "BLOB", "BOOLEAN"}
Row ==
  \E version \in {12, 13}, n \in 0..2, t \in NullColumns : \E values \in [1..n -> Values] :
    /\ version < 13 => t # "BOOLEAN" /\ \A i \in 1..n : values[i].k # "Boolean"
    /\ input' = [kind |-> "row", version |-> version, values |-> values, nulls |-> t]

\* As many columns as the bytes and words of the null bitmap hold, and one more.
WideRow ==
  \E version \in {12, 13}, n \in {8, 9, 32, 33} : \E null \in {1, 8, 9, 32, 33} \cap 1..n :
    input' = [kind |-> "row", version |-> version, nulls |-> "INT64",
              values |-> [i \in 1..n |-> IF i = null THEN NullVal ELSE Val("Integer", Id(i))]]

Number ==
  \E w \in {2, 4, 8}, high \in {0, 127, 128, 255} :
    input' = [kind |-> "number", v |-> <<high>> \o Bytes(w - 1)]

SqlTypes == {"TEXT", "VARYING", "SHORT", "LONG", "INT64", "FLOAT", "DOUBLE", "TIMESTAMP",
             "TYPE_DATE", "TYPE_TIME", "BLOB", "BOOLEAN", "ARRAY", "INT128"}
AColumn ==
  \E t \in SqlTypes, sub \in -1..2, scale \in {0, -2} :
    input' = [kind |-> "column", var |-> [t |-> t, sub |-> sub, scale |-> scale]]

Executed ==
  \/ input' = [kind |-> "executed", counts |-> <<>>]
  \/ \E f \in [{select_count, insert_count, update_count, delete_count} -> {0, 3, 70000}] :
       input' = [kind |-> "executed",
                 counts |-> <<<<update_count, f[update_count]>>, <<delete_count, f[delete_count]>>,
                              <<select_count, f[select_count]>>, <<insert_count, f[insert_count]>>>>]

Described ==
  \E n \in 0..3, params \in {0, 1, 500, 940, 1000} : \E widths \in [1..n -> {10, 60, 225, 230, 252}] :
    input' = [kind |-> "described", widths |-> widths, params |-> params]

Pieces1 == {<<<<0, 1>>>>, <<<<0, 1>>, <<1>>>>, <<<<2>>, <<0, 2>>, <<1>>>>}
Arguments == {[t |-> "string", arg |-> <<<<0, 3>>>>], [t |-> "string", arg |-> <<<<2>>>>],
              [t |-> "number", arg |-> <<<<0, 4>>>>, n |-> -104]}
Failed ==
  \E n \in 1..2 : \E errors \in [1..n -> [code : {1, isc_sqlerr}, text : Pieces1,
                                          args : UNION {[1..k -> Arguments] : k \in 0..2}]],
                     warning \in BOOLEAN :
    input' = [kind |-> "failed", errors |-> errors, warning |-> warning]

Characters == Letters \cup {"'", ":", " "}
Named ==
  \E n \in 0..6 : \E raw \in [1..n -> Characters] :
    input' = [kind |-> "named", raw |-> raw]

Words(ws) == {Nothing} \cup {Text(w, enc) : w \in ws, enc \in {0, 1}}
Databases == {Path(Nothing, s, Text("db", e)) : s \in {0, 1}, e \in {0, 1}}
             \cup {Path(Text("c", 0), 0, Text("db", 0))}
Connect ==
  \E user \in Words({"joe"}), pass \in Words({"secret"}), port \in {0, 3051},
     host \in {Nothing, Text("server", 0), Text("c", 0)}, db \in Databases,
     lib \in Words({"fbclient"}), role \in Words({"boss"}),
     dialect \in {Nothing, Text("2", 0), Text("3", 0), Text("9", 0)} :
    /\ host = Nothing => user = Nothing /\ pass = Nothing /\ port = 0
    /\ host # Nothing => db.drive = Nothing
    /\ input' = [kind |-> "connect",
                 want |-> [user |-> user, pass |-> pass, port |-> port, host |-> host,
                           db |-> db, lib |-> lib, role |-> role, dialect |-> dialect]]

ADate ==
  \E y \in {1, 4, 1600, 1700, 1858, 1899, 1900, 1999, 2000, 2023, 2024, 9999}, m \in 1..12 :
    input' = [kind |-> "date", y |-> y, m |-> m]
ATime ==
  \E h \in {0, 1, 23}, mi \in {0, 59}, s \in {0, 59}, nano \in {0, 99999, 100000, 999999999} :
    input' = [kind |-> "time", t |-> [h |-> h, mi |-> mi, s |-> s, nano |-> nano]]

Init == input = NoInput
Next ==
  /\ input = NoInput
  /\ \/ Attach \/ Identify \/ Request \/ Begin \/ Listen \/ Row \/ WideRow \/ Number
     \/ AColumn \/ Executed \/ Described \/ Failed \/ Named \/ Connect \/ ADate \/ ATime

Spec == Init /\ [][Next]_input

---------------------------------------------------------------------------
(* Properties                                                              *)

\* The calls of a transaction builder that set the same thing.
Group(call) == CASE call.set \in {"no_wait", "wait", "wait_infinitely"} -> "lock"
                 [] call.set = "access" -> "access"
                 [] OTHER -> "isolation"
LastOf(calls, group, default) ==
  LET at == {i \in DOMAIN calls : Group(calls[i]) = group}
  IN IF at = {} THEN default ELSE calls[CHOOSE i \in at : \A j \in at : j =< i]

\* The options the server should see: of each kind the last call, or the default.
Asked(calls) ==
  LET lock == LastOf(calls, "lock", [set |-> "wait_infinitely"])
      access == LastOf(calls, "access", [set |-> "access", to |-> tpb_write])
      isolation == LastOf(calls, "isolation", [set |-> "read_commited", to |-> tpb_no_rec_version])
  IN {<<tpb_version3>>, <<access.to>>}
     \cup {<<IF lock.set = "no_wait" THEN tpb_nowait ELSE tpb_wait>>}
     \cup (IF lock.set = "wait" THEN {<<tpb_lock_timeout, 4>> \o le(lock.to, 4)} ELSE {})
     \cup (IF isolation.set = "isolation" THEN {<<isolation.to>>}
           ELSE {<<tpb_read_committed>>, <<isolation.to>>})

Short(texts) == \A t \in texts : Len(t) < 256

\* A block says to the server what it was built from, at every length and after any
\* calls of a builder: always in the wire client's attachment and transaction
\* blocks, and in the others exactly as long as each text fits its length; and an
\* event block that would not is refused.
BlocksParseBack ==
  /\ input.kind = "attach" =>
       LET c == input.conf
       IN /\ ReadDpb(dpb(build_dpb(c))) = build_dpb(c)
          /\ ReadDpb(native_dpb(c)) = native_fields(c)
             <=> Short({c.user, c.role} \cup (IF c.remote THEN {c.pass} ELSE {}))
          /\ ReadClumplets(After(build_attach_spb(c.user, c.pass), 2), 1)
             = <<Field(user_name, c.user), Field(password, c.pass)>>
             <=> Short({c.user, c.pass})
  /\ input.kind = "identify" =>
       LET fields == ReadClumplets(uid(input.user, input.pubkey, <<1>>), 1)
       IN (fields = uid_fields(input.user, input.pubkey, <<1>>) /\ ReadKey(fields) = input.pubkey)
          <=> Short({input.user})
  /\ input.kind = "request" =>
       LET db == Field(dbname, Bytes(input.db))
           file == Field(bkp_file, Bytes(input.file))
           flags == <<options>> \o le(input.flags, 4)
           page == IF input.page = 0 THEN <<>> ELSE <<<<res_page_size>> \o le(input.page, 4)>>
       IN /\ ReadRequest(backup_request(db.data, file.data, input.flags))
             = [action |-> 1, strings |-> <<db, file>>, numbers |-> <<flags, <<verbose>>>>]
             <=> input.db < 65536
          /\ ReadRequest(restore_request(file.data, db.data, input.flags, input.page))
             = [action |-> 2, strings |-> <<file, db>>,
                numbers |-> <<flags>> \o page \o <<<<verbose>>>>]
             <=> input.db < 65536
  /\ input.kind = "begin" =>
       ReadTpb(tpb(Built(input.calls))) = Asked(input.calls)
  /\ input.kind = "listen" =>
       LET padded == input.name \o [i \in 1..input.blanks |-> Blank]
           epb == event_block(<<[name |-> padded, count |-> input.count]>>)
       IN IF Len(input.name) \in 1..255
          THEN parse_event_block(epb) = <<[name |-> input.name, count |-> input.count]>>
          ELSE epb = NoBlock

\* Columns for the values of a row, described without their coercion.
RowColumns == [i \in DOMAIN input.values |-> ColumnOf(input.values[i], input.nulls)]
Message == params_to_blr(input.values, input.version)
Answer == RowOf(RowColumns, ReadMessage(Message.blr, Message.values, input.version), input.version)
RowFrom(bytes) == parse_sql_response(bytes, RowColumns, input.version, Message.blobs)

\* The calendar, and the dates and times the library counts in its own way: a date is
\* its own number and nobody else's, decoded to what it was encoded from, and the day
\* after has the next number, over every end of a month, leap day and century.  A time
\* of day comes back to the tenth of a millisecond.
Leap(y) == y % 4 = 0 /\ (y % 100 # 0 \/ y % 400 = 0)
DaysIn(y, m) == IF m = 2 THEN (IF Leap(y) THEN 29 ELSE 28) ELSE IF m \in {4, 6, 9, 11} THEN 30 ELSE 31
NextDay(d) ==
  IF d.d < DaysIn(d.y, d.m) THEN [d EXCEPT !.d = @ + 1]
  ELSE IF d.m < 12 THEN [d EXCEPT !.m = @ + 1, !.d = 1] ELSE [y |-> d.y + 1, m |-> 1, d |-> 1]
DateSurvives(d) ==
  /\ decode_date(encode_date(d)) = d
  /\ encode_date(NextDay(d)) = encode_date(d) + 1
TimeSurvives(t) ==
  decode_time(encode_time(t))
    = [t EXCEPT !.nano = (@ \div FRACTION_TO_NANOS) * FRACTION_TO_NANOS]

\* What a statement is given as parameters and returns unchanged is what it was
\* given: of every kind, at every alignment, wherever the nulls are, as a blob or
\* not, in either version of the protocol; a number read as the type it was; a date
\* and a time.  Wherever the reply was cut, the client reads on instead of making a
\* row of the part.
ValuesSurvive ==
  /\ input.kind = "row" =>
       /\ RowFrom(Answer) = [got |-> TRUE, row |-> input.values]
       /\ \A n \in 0..Len(Answer) - 1 : ~RowFrom(SubSeq(Answer, 1, n)).got
  /\ input.kind = "number" =>
       /\ to_val(into_param(input.v), Len(input.v)) = input.v
       /\ to_option(into_param(input.v), Len(input.v)) # None
  /\ input.kind = "date" =>
       \A day \in 1..DaysIn(input.y, input.m) :
         DateSurvives([y |-> input.y, m |-> input.m, d |-> day])
  /\ input.kind = "time" => TimeSurvives(input.t)

\* The two clients make the same of a column and of the counts of an execution: but
\* for a blob of a subtype of the application's own, text in one and bytes in the
\* other.
ClientsAgree ==
  /\ input.kind = "column" =>
       \/ wire_kind(input.var) = native_kind(input.var)
       \/ input.var.t = "BLOB" /\ input.var.sub < 0
  /\ input.kind = "executed" =>
       LET reply == Records(input.counts)
           changed[i \in 0..Len(input.counts)] ==
             IF i = 0 THEN 0
             ELSE changed[i - 1] + IF input.counts[i][1] = select_count THEN 0 ELSE input.counts[i][2]
       IN /\ parse_info_sql_affected_rows(reply) = native_affected_rows(reply)
          /\ native_affected_rows(reply) = changed[Len(input.counts)]

\* Each column, and the number of the next, has room in a reply of its own.
HasRoom(widths, params) ==
  /\ Header(params, 0) + 1 =< BUFFER_LENGTH
  /\ \A i \in DOMAIN widths :
       Header(params, i) + SizeOf(Items(i, widths[i])) + (IF i < Len(widths) THEN 7 ELSE 0) + 1
         =< BUFFER_LENGTH

\* However the description of a statement is cut into replies, the client has every
\* item of every column, in its place and once: if each has room in a reply, and
\* otherwise it does not pass a part for the whole.
DescriptionIsWhole ==
  input.kind = "described" =>
    LET whole == [i \in DOMAIN input.widths |-> [f \in DOMAIN Default |-> i]]
        result == prepare_statement(input.widths, input.params)
    IN IF HasRoom(input.widths, input.params) THEN result = [end |-> "done", vars |-> whole]
       ELSE result.end # "done"

\* The server's status vector for some errors, and each of them told by itself.
Vector(errors) ==
  FlattenSeq([i \in DOMAIN errors |->
    <<[t |-> "gds", code |-> errors[i].code, text |-> errors[i].text]>> \o errors[i].args])
Told(error) ==
  FlattenSeq([i \in DOMAIN error.text |->
    IF Len(error.text[i]) = 1 /\ error.text[i][1] \in DOMAIN error.args
    THEN error.args[error.text[i][1]].arg ELSE <<error.text[i]>>])
Complete(error) ==
  /\ \A i \in DOMAIN error.text : Len(error.text[i]) = 1 => error.text[i][1] \in DOMAIN error.args
  /\ \A i \in DOMAIN error.args : \A j \in DOMAIN error.args[i].arg : Len(error.args[i].arg[j]) = 2

\* The message of a failed request is its errors one behind the other, each with its
\* own arguments in their places: if the server sent them all and none reads like a
\* place itself.  A warning is not taken for part of it.
ErrorsAreTold ==
  input.kind = "failed" /\ (\A i \in DOMAIN input.errors : Complete(input.errors[i])) =>
    LET warning == IF input.warning THEN <<[t |-> "warning"]>> ELSE <<>>
        sqlerrs == {i \in DOMAIN input.errors :
                      /\ input.errors[i].code = isc_sqlerr
                      /\ \E j \in DOMAIN input.errors[i].args : input.errors[i].args[j].t = "number"}
        told == parse_status_vector(Vector(input.errors) \o warning)
    IN IF input.warning THEN told = UnknownItem
       ELSE /\ told.msg = FlattenSeq([i \in DOMAIN input.errors |-> Told(input.errors[i])])
            /\ told.code = IF sqlerrs = {} THEN -1 ELSE -104

Apostrophes(text, i) == Cardinality({j \in 1..i : text[j] = "'"})
InLiteral(text, i) == Apostrophes(text, i) % 2 = 1

\* In a statement whose apostrophes are in pairs every name outside a literal, and
\* nothing else, has become a question mark, and the names are in the order of
\* those: put back they give the statement, and the values go where the names were.
NamedInOrder ==
  input.kind = "named" /\ Apostrophes(input.raw, Len(input.raw)) % 2 = 0 =>
    LET p == parse_named(input.raw)
        At(i) == Cardinality({j \in 1..i : p.sql[j] = "?"})
        values == [name \in Range(p.names) |-> Len(name)]
    IN /\ input.raw = FlattenSeq([i \in DOMAIN p.sql |->
                        IF p.sql[i] = "?" THEN <<":">> \o p.names[At(i)] ELSE <<p.sql[i]>>])
       /\ \A i \in DOMAIN p.sql :
            /\ p.sql[i] = "?" => ~InLiteral(p.sql, i)
            /\ p.sql[i] = ":" /\ i < Len(p.sql) /\ p.sql[i + 1] \in Letters => InLiteral(p.sql, i)
       /\ convert(p.names, values) = [i \in DOMAIN p.names |-> Len(p.names[i])]

\* How the documentation writes a connection string: text percent-encoded once, one
\* slash between a server and its database, a local file alone or by its path.
Encode(t) == IF t = Nothing THEN t ELSE [t EXCEPT !.enc = @ + 1]
Write(w) ==
  LET remote == w.host # Nothing
      file == ~remote /\ w.db.drive = Nothing /\ w.db.slashes = 0
  IN Url(Encode(w.user), Encode(w.pass),
         IF remote THEN Encode(w.host) ELSE IF file THEN Encode(w.db.rest) ELSE Encode(w.db.drive),
         w.port,
         IF file THEN NoPath
         ELSE Path(Nothing, w.db.slashes + (IF remote \/ w.db.drive # Nothing THEN 1 ELSE 0),
                   Encode(w.db.rest)),
         [lib |-> Encode(w.lib), role |-> Encode(w.role), dialect |-> Encode(w.dialect)])

\* Builders that were given other values before.
Configured ==
  [host |-> Text("other", 0), port |-> 3055, user |-> Text("me", 0), pass |-> Text("mine", 0),
   db |-> NoPath, role |-> Nothing, lib |-> Nothing, dialect |-> Text("1", 0), error |-> ""]
Default0 == [Configured EXCEPT !.host = Remote.host, !.port = Remote.port, !.pass = Remote.pass]

\* A connection string means what it was written for: of a server whose name is not
\* that of a drive and of a library whose path has no percent sign.  The wire
\* client's builder keeps what it was given where the string is silent, and from the
\* defaults both builders go to the same server as the same user.
ConnStringsMean ==
  LET w == input.want
      url == Write(w)
      wire == from_string(Configured, url)
      Differ == {"lib"}
  IN input.kind = "connect"
     /\ (w.host.w \in Drives => w.user # Nothing \/ w.pass # Nothing \/ w.port # 0)
     /\ w.lib.enc = 0
     => /\ parse_string(url) = [w EXCEPT !.dialect = IF @.w = "9" THEN Nothing ELSE @]
        /\ wire.db = w.db /\ wire.user = Given(w.user, Configured.user)
        /\ wire.pass = Given(w.pass, Configured.pass) /\ wire.host = Given(w.host, Configured.host)
        /\ wire.port = IF w.port = 0 THEN Configured.port ELSE w.port
        /\ w.host # Nothing =>
             \A f \in DOMAIN Default0 \ Differ :
               from_string(Default0, url)[f] = native_from_string(Default0, url)[f]

===============================================================================

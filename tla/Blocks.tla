------------------------------- MODULE Blocks -------------------------------
(***************************************************************************)
(* The parameter blocks both clients build for the server: attachment      *)
(* (dpb, and the user identification of the connect packet), services      *)
(* (spb), transaction (tpb) and event (epb) blocks; with the server's      *)
(* reading of them.  Text is bytes; a length is cut to the bytes it has.   *)
(***************************************************************************)
EXTENDS Integers, Sequences, FiniteSets, SequencesExt

\* BufMut::put_u8, put_u32_le, to_le_bytes, to_be_bytes: n in w bytes, at most four,
\* cut to them.
Weight == <<1, 256, 65536, 16777216>>
le(n, w) == [k \in 1..w |-> (n \div Weight[k]) % 256]
be(n, w) == Reverse(le(n, w))
put_u8(n) == le(n, 1)

\* The server's reading of a number of one, two or four bytes.
FromLe(bytes) == bytes[1] + (IF Len(bytes) > 1 THEN 256 * bytes[2] ELSE 0)
                 + (IF Len(bytes) > 2 THEN 65536 * bytes[3] + 16777216 * bytes[4] ELSE 0)

\* What is behind the first n bytes.
After(bytes, n) == SubSeq(bytes, n + 1, Len(bytes))

Field(tag, data) == [tag |-> tag, data |-> data]
Malformed == Field(-1, <<>>)
Optional(cond, field) == IF cond THEN <<field>> ELSE <<>>

\* Fields one behind the other: tag, length in w bytes, data.
Clumplets(fields, w) ==
  FlattenSeq([i \in DOMAIN fields |->
    put_u8(fields[i].tag) \o le(Len(fields[i].data), w) \o fields[i].data])

\* The server's reading of them, from place i on.
ReadClumplets(bytes, w) ==
  LET from[i \in 1..Len(bytes) + 1] ==
        LET len == FromLe(SubSeq(bytes, i + 1, i + w))
        IN IF i > Len(bytes) THEN <<>>
           ELSE IF Len(bytes) < i + w \/ Len(bytes) < i + w + len THEN <<Malformed>>
           ELSE <<Field(bytes[i], SubSeq(bytes, i + w + 1, i + w + len))>> \o from[i + w + len + 1]
  IN from[1]

---------------------------------------------------------------------------
(* Attachment                                                              *)

page_size == 4
user_name == 28
password == 29
lc_ctype == 48
sql_role_name == 60
sql_dialect == 63
no_db_triggers == 72

\* build_dpb of the wire client, for a password sent in the clear (the other
\* protocols add fields of the same form, see Session).  The page size goes with its
\* most significant byte first, unlike the native client's.
build_dpb(c) ==
  Optional(c.page # 0, Field(page_size, be(c.page, 4)))
  \o <<Field(lc_ctype, <<1>>), Field(user_name, c.user)>>
  \o Optional(c.role # <<>>, Field(sql_role_name, c.role))
  \o <<Field(sql_dialect, <<2>>)>>
  \o Optional(c.triggers, Field(no_db_triggers, <<1>>))
  \o <<Field(password, c.pass)>>

\* Mutant of dpb: version 2 one byte too late.
dpbLate(fields) ==
  LET v2 == \E i \in DOMAIN fields : Len(fields[i].data) > 256
  IN put_u8(IF v2 THEN 2 ELSE 1) \o Clumplets(fields, IF v2 THEN 4 ELSE 1)

\* dpb: version 1 has lengths of one byte, version 2 of four.
dpb(fields) ==
  LET v2 == \E i \in DOMAIN fields : Len(fields[i].data) > 255
  IN put_u8(IF v2 THEN 2 ELSE 1) \o Clumplets(fields, IF v2 THEN 4 ELSE 1)

\* build_dpb of the native client, with what attach and create add to it.
native_fields(c) ==
  <<Field(user_name, c.user)>> \o Optional(c.remote, Field(password, c.pass))
  \o <<Field(lc_ctype, <<1>>)>>
  \o Optional(c.role # <<>>, Field(sql_role_name, c.role))
  \o <<Field(sql_dialect, <<2>>)>>
  \o Optional(c.triggers, Field(no_db_triggers, <<1>>))
  \o Optional(c.page # 0, Field(page_size, le(c.page, 4)))
native_dpb(c) == put_u8(1) \o Clumplets(native_fields(c), 1)

\* The server's reading of either.
ReadDpb(bytes) == ReadClumplets(Tail(bytes), IF Head(bytes) = 2 THEN 4 ELSE 1)

\* The user identification of the connect packet: the public key goes in pieces
\* that leave room for their number.
Login == 9
SpecificData == 7
User == 1
Pieces(pubkey) == (Len(pubkey) + 253) \div 254
Piece(pubkey, i) ==
  SubSeq(pubkey, (i - 1) * 254 + 1, IF i = Pieces(pubkey) THEN Len(pubkey) ELSE i * 254)
uid_fields(user, pubkey, username) ==
  <<Field(Login, user)>>
  \o [i \in 1..Pieces(pubkey) |-> Field(SpecificData, put_u8(i - 1) \o Piece(pubkey, i))]
  \o <<Field(User, username)>>
uid(user, pubkey, username) == Clumplets(uid_fields(user, pubkey, username), 1)

\* The server puts the pieces together by their numbers.
ReadKey(fields) ==
  LET pieces == {j \in DOMAIN fields : fields[j].tag = SpecificData}
  IN FlattenSeq([i \in 1..Cardinality(pieces) |->
       Tail(fields[CHOOSE j \in pieces : fields[j].data[1] = i - 1].data)])

---------------------------------------------------------------------------
(* Services                                                                *)

\* build_attach_spb: lengths of one byte; push_string_arg: of two;
\* push_u32_arg: four bytes and no length.
build_attach_spb(user, pass) ==
  <<1, 1>> \o Clumplets(<<Field(user_name, user), Field(password, pass)>>, 1)
push_string_arg(tag, value) == put_u8(tag) \o le(Len(value), 2) \o value
push_u32_arg(tag, value) == put_u8(tag) \o le(value, 4)

\* backup_with_output, restore_with_output: the action, two strings, the options,
\* for a restore the page size, and the verbose tag.
dbname == 106
bkp_file == 5
options == 108
res_page_size == 10
verbose == 107
backup_request(db, file, flags) ==
  <<1>> \o push_string_arg(dbname, db) \o push_string_arg(bkp_file, file)
  \o push_u32_arg(options, flags) \o <<verbose>>
restore_request(file, db, flags, page) ==
  <<2>> \o push_string_arg(bkp_file, file) \o push_string_arg(dbname, db)
  \o push_u32_arg(options, flags)
  \o (IF page # 0 THEN push_u32_arg(res_page_size, page) ELSE <<>>) \o <<verbose>>

\* The server's reading: strings first, then numbers, then the tag.
ReadNumbers(bytes) ==
  LET n == Len(bytes) \div 5
  IN [k \in 1..n |-> SubSeq(bytes, 5 * k - 4, 5 * k)] \o <<After(bytes, 5 * n)>>
ReadRequest(bytes) ==
  LET one == 4 + FromLe(SubSeq(bytes, 3, 4))
      two == one + 3 + FromLe(SubSeq(bytes, one + 2, one + 3))
  IN IF Len(bytes) < one + 3 \/ Len(bytes) < two
     THEN [action |-> bytes[1], strings |-> <<Malformed>>, numbers |-> <<>>]
     ELSE [action |-> bytes[1],
           strings |-> ReadClumplets(SubSeq(bytes, 2, two), 2),
           numbers |-> ReadNumbers(After(bytes, two))]

---------------------------------------------------------------------------
(* Transactions                                                            *)

tpb_consistency == 1
tpb_concurrency == 2
tpb_version3 == 3
tpb_wait == 6
tpb_nowait == 7
tpb_read == 8
tpb_write == 9
tpb_read_committed == 15
tpb_rec_version == 17
tpb_no_rec_version == 18
tpb_lock_timeout == 21

\* TransactionConfigurationBuilder: each call sets one of the three fields.
DefaultConf == [isolation |-> tpb_read_committed, rec |-> tpb_no_rec_version,
                access |-> tpb_write, lock |-> tpb_wait, timeout |-> -1]
Build(conf, call) ==
  CASE call.set = "no_wait" -> [conf EXCEPT !.lock = tpb_nowait, !.timeout = -1]
    [] call.set = "wait" -> [conf EXCEPT !.lock = tpb_wait, !.timeout = call.to]
    [] call.set = "wait_infinitely" -> [conf EXCEPT !.lock = tpb_wait, !.timeout = -1]
    [] call.set = "access" -> [conf EXCEPT !.access = call.to]
    [] call.set = "isolation" -> [conf EXCEPT !.isolation = call.to, !.rec = 0]
    [] call.set = "read_commited" ->
         [conf EXCEPT !.isolation = tpb_read_committed, !.rec = call.to]

\* What the builder has after some calls.
Built(calls) ==
  LET conf[i \in 0..Len(calls)] == IF i = 0 THEN DefaultConf ELSE Build(conf[i - 1], calls[i])
  IN conf[Len(calls)]

\* begin_transaction of both clients.
tpb(conf) ==
  <<tpb_version3, conf.isolation, conf.access, conf.lock>>
  \o (IF conf.timeout # -1 THEN <<tpb_lock_timeout, 4>> \o le(conf.timeout, 4) ELSE <<>>)
  \o (IF conf.isolation = tpb_read_committed THEN <<conf.rec>> ELSE <<>>)

\* The server's reading: every tag of the block, the timeout with its value.
ReadTpb(bytes) ==
  LET from[i \in 1..Len(bytes) + 1] ==
        IF i > Len(bytes) THEN {}
        ELSE IF bytes[i] # tpb_lock_timeout THEN {<<bytes[i]>>} \cup from[i + 1]
        ELSE IF Len(bytes) < i + 1 \/ Len(bytes) < i + 1 + bytes[i + 1] THEN {Malformed}
        ELSE {SubSeq(bytes, i, i + 1 + bytes[i + 1])} \cup from[i + 2 + bytes[i + 1]]
  IN from[1]

---------------------------------------------------------------------------
(* Events                                                                  *)

Blank == 32
MAX_EVENT_NAME_LEN == 255
MAX_EVENT_BLOCK_LEN == 65535
NoBlock == <<-1>>

\* normalize_event_name: without its trailing blanks.
normalize_event_name(name) ==
  LET last == {i \in DOMAIN name : name[i] # Blank}
  IN IF last = {} THEN <<>> ELSE SubSeq(name, 1, CHOOSE i \in last : \A j \in last : j =< i)

\* event_block: an error, or version, names with their length, and counters.
event_block(events) ==
  LET names == [i \in DOMAIN events |-> normalize_event_name(events[i].name)]
      epb == <<1>> \o FlattenSeq([i \in DOMAIN events |->
               put_u8(Len(names[i])) \o names[i] \o le(events[i].count, 4)])
  IN IF \/ \E i \in DOMAIN names : Len(names[i]) \notin 1..MAX_EVENT_NAME_LEN
        \/ Len(epb) > MAX_EVENT_BLOCK_LEN
     THEN NoBlock ELSE epb

\* parse_event_block, of what is behind the version, from place i on.
parse_events(rest) ==
  LET from[i \in 1..Len(rest) + 1] ==
        IF i > Len(rest) THEN <<>>
        ELSE IF Len(rest) - i < rest[i] + 4 THEN NoBlock
        ELSE <<[name |-> SubSeq(rest, i + 1, i + rest[i]),
                count |-> FromLe(SubSeq(rest, i + rest[i] + 1, i + rest[i] + 4))]>>
             \o from[i + rest[i] + 5]
  IN from[1]
parse_event_block(epb) == parse_events(Tail(epb))

===========================================================================

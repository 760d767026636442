--------------------------- MODULE Reading_proofs ---------------------------
(***************************************************************************)
(* Proofs about Auth and Reading, for every number of sessions, names and  *)
(* quotas, and for articles and reads of any size.                         *)
(***************************************************************************)
EXTENDS Reading, Finite_proofs, SequenceTheorems

-----------------------------------------------------------------------------
(* The authentication modules.                                             *)

Results == [authenticated : BOOLEAN,
            profile : {"none", "known", "unknown"}, bytes : Nat]

LEMMA BasicResults ==
    \A accepted \in BOOLEAN, profile \in {"none", "known", "unknown"},
       n \in Nat :
        /\ Verdict(accepted, profile, n) \in Results
        /\ Verdict(accepted, profile, n).authenticated = accepted
  BY DEF Verdict, Results

\* A module fills a result of the right form in, whatever its calls return.
LEMMA ModuleResults ==
    ASSUME NEW a \in Answers PROVE Result(a) \in Results
<1> USE BasicResults DEF If, new_authresult
<1>1. CASE a \in [mod : {"ignore"}, true : BOOLEAN]
  BY <1>1 DEF Result, auth_ignore
<1>2. CASE a \in [mod : {"passwd"}, open : BOOLEAN, file : PasswdFiles]
  <2>1. a.mod = "passwd" /\ auth_passwd(a) \in Results
    BY <1>2 DEF auth_passwd
  <2> QED
    BY <2>1 DEF Result
<1>3. CASE a \in [mod : {"pop3"}, args : BOOLEAN, connect : BOOLEAN,
                  greeting : {"none", "+OK", "-ERR"},
                  user : {"none", "+OK", "-ERR"},
                  pass : {"none", "+OK", "-ERR"}]
  BY <1>3 DEF Result, auth_pop3
<1>4. CASE a \in [mod : {"remote"}, args : BOOLEAN, connect : BOOLEAN,
                  user : {0, 381, 482}, pass : {0, 281, 482}]
  BY <1>4, ZenonT(40) DEF Result, auth_remote
<1>5. CASE a \in [mod : {"ldap"}, init : BOOLEAN, search : BOOLEAN,
                  entry : BOOLEAN, bind : BOOLEAN]
  BY <1>5 DEF Result, auth_ldap
<1>6. CASE a \in [mod : {"mysql", "postgres"}, args : BOOLEAN,
                  connect : BOOLEAN, query : BOOLEAN, rows : {0, 1}]
  BY <1>6 DEF Result, auth_mysql, auth_postgres
<1>7. CASE a \in [mod : {"radius", "raddaylim"}, args : BOOLEAN,
                  request : BOOLEAN, send : {"none", "accept", "reject"},
                  profile : {"none", "known", "unknown"}]
  BY <1>7 DEF Result, auth_radius, auth_raddaylim
<1>8. CASE a \in [mod : {"http"}, url : BOOLEAN, get : BOOLEAN,
                  fields : 0 .. 4, auth : {0, 1}, bytes : Quotas,
                  profile : {"known", "unknown"}]
  BY <1>8, QuotaAssumption DEF Result, auth_http
<1>9. CASE a \in [mod : {"json"}, url : BOOLEAN, get : BOOLEAN, r : BOOLEAN,
                  d : BOOLEAN, oq : BOOLEAN, msg : BOOLEAN,
                  prf : {"none", "known", "unknown"}, b : Quotas \cup {0}]
  BY <1>9, QuotaAssumption DEF Result, auth_json
<1> QED
  BY <1>1, <1>2, <1>3, <1>4, <1>5, <1>6, <1>7, <1>8, <1>9 DEF Answers

LEMMA OutcomeFacts == \A r \in Outcomes : r \in Results
  BY ModuleResults DEF Outcomes

-----------------------------------------------------------------------------
(* Types.                                                                  *)

Chars == {"CR", "LF", ".", "x"}

LEMMA ConstantFacts ==
    /\ \A s \in Sessions : Host[s] \in Keys /\ Host[s] # NoName
    /\ Names \subseteq Keys /\ NoName \notin Names
    /\ Chars \subseteq Byte /\ Status \subseteq Byte
    /\ \A s \in Sessions : ArticlesOf[s] \subseteq Seq(Chars)
    /\ \A s \in Sessions : Pieces[s] \subseteq Nat \ {0}
    /\ TermPoints \subseteq Points
  BY ReadingAssumption, FaultAssumption DEF Keys, Chars, Byte, Status

LEMMA RepliesType ==
    ASSUME NEW s \in Sessions PROVE Replies(s) \subseteq Seq(Byte)
<1>1. <<"430">> \in Seq(Byte) /\ <<"220">> \in Seq(Byte)
  BY DEF Byte, Status
<1>2. ASSUME NEW a \in ArticlesOf[s] PROVE <<"220">> \o a \in Seq(Byte)
  <2>1. a \in Seq(Byte)
    BY ConstantFacts, SeqMonotonic
  <2> QED
    BY <1>1, <2>1, ConcatProperties
<1> QED
  BY <1>1, <1>2 DEF Replies

LEMMA LastFiveType ==
    ASSUME NEW buf \in [1 .. 5 -> Byte \cup {"NUL"}], NEW rcv \in Seq(Byte)
    PROVE  /\ LastFive(buf, rcv) \in [1 .. 5 -> Byte \cup {"NUL"}]
           /\ Updated(buf, rcv) \in [1 .. 5 -> Byte \cup {"NUL"}]
<1>1. Len(rcv) \in Nat /\ \A j \in 1 .. Len(rcv) : rcv[j] \in Byte
  BY LenProperties, ElementOfSeq
<1>2. ASSUME NEW j \in 1 .. 5, j <= 5 - Len(rcv) PROVE j + Len(rcv) \in 1 .. 5
  BY <1>1, <1>2
<1>3. ASSUME NEW j \in 1 .. 5, ~ (j <= 5 - Len(rcv))
      PROVE  j - 5 + Len(rcv) \in 1 .. Len(rcv)
  BY <1>1, <1>3
<1>4. LastFive(buf, rcv) \in [1 .. 5 -> Byte \cup {"NUL"}]
  BY <1>1, <1>2, <1>3 DEF LastFive
<1> QED
  BY <1>4 DEF Updated

LEMMA InitChkbuf == checkbuf_init \in [1 .. 5 -> Byte \cup {"NUL"}]
  BY DEF checkbuf_init, Byte

LEMMA FirstEndType ==
    ASSUME NEW w \in Seq(Byte), LineEnds(w) # {}
    PROVE  /\ FirstEnd(w) \in 1 .. Len(w)
           /\ AfterLine(w) \in Seq(Byte)
<1>1. LineEnds(w) \in SUBSET Nat /\ LineEnds(w) # {}
  BY DEF LineEnds
<1>2. PICK k \in LineEnds(w) : \A j \in LineEnds(w) : k <= j
  BY <1>1, LeastNumber
<1>3. FirstEnd(w) \in LineEnds(w)
  BY <1>2 DEF FirstEnd
<1>4. FirstEnd(w) \in 1 .. Len(w)
  BY <1>3 DEF LineEnds
<1> QED
  BY <1>4, SubSeqProperties, LenProperties DEF AfterLine

-----------------------------------------------------------------------------
(* TypeOK in parts, one per group of variables that steps leave alone.     *)

ClientTypes ==
    /\ username \in [Sessions -> Names \cup {NoName}]
    /\ authenticated \in [Sessions -> BOOLEAN]
    /\ key \in [Sessions -> Keys]

EntryTypes ==
    /\ refs \in [Keys -> Int] /\ bytesleft \in [Keys -> Int]
    /\ granted \in [Keys -> Int] /\ boundless \in [Keys -> BOOLEAN]

ChargeTypes == bytes \in [Sessions -> Nat] /\ charged \in [Keys -> Int]

WireTypes ==
    /\ wire \in [Sessions -> Seq(Byte)]
    /\ split \in [Sessions -> BOOLEAN]

CountTypes == ncmds \in [Sessions -> Nat]

BufferTypes ==
    /\ chkbuf \in [Sessions -> [1 .. 5 -> Byte \cup {"NUL"}]]
    /\ more \in [Sessions -> BOOLEAN]
    /\ stale \in [Sessions -> BOOLEAN]

LocalTypes ==
    /\ pc \in [Sessions -> Points]
    /\ cmd \in [Sessions -> {"article", "xover", "none"}]
    /\ tries \in [Sessions -> Nat]
    /\ bread \in [Sessions -> Nat] /\ tmp \in [Sessions -> Nat]

BookTypes ==
    /\ dllock \in Nat
    /\ rows \in [Keys -> Seq(Nat)]
    /\ account \in [Sessions -> {"open", "booked", "twice", "lost"}]
    /\ leaked \in BOOLEAN

Types ==
    /\ ClientTypes /\ EntryTypes /\ ChargeTypes /\ WireTypes /\ CountTypes
    /\ BufferTypes /\ LocalTypes /\ BookTypes

LEMMA TypesParts == Types <=> TypeOK
  BY Zenon DEF Types, ClientTypes, EntryTypes, ChargeTypes, WireTypes,
    CountTypes, BufferTypes, LocalTypes, BookTypes, TypeOK

\* What a step leaves alone keeps its type.
LEMMA Frames ==
    ASSUME Types
    PROVE  /\ UNCHANGED client => ClientTypes' /\ EntryTypes'
           /\ UNCHANGED <<bytes, charged>> => ChargeTypes'
           /\ UNCHANGED <<wire, split>> => WireTypes'
           /\ UNCHANGED ncmds => CountTypes'
           /\ UNCHANGED <<chkbuf, more, stale>> => BufferTypes'
           /\ UNCHANGED <<pc, cmd, tries, bread, tmp>> => LocalTypes'
           /\ UNCHANGED books => BookTypes'
<1> USE DEF Types
<1>1. UNCHANGED client => ClientTypes' /\ EntryTypes'
  BY DEF client, ClientTypes, EntryTypes
<1>2. UNCHANGED <<bytes, charged>> => ChargeTypes'
  BY DEF ChargeTypes
<1>3. UNCHANGED <<wire, split>> => WireTypes'
  BY DEF WireTypes
<1>4. UNCHANGED ncmds => CountTypes'
  BY DEF CountTypes
<1>5. UNCHANGED <<chkbuf, more, stale>> => BufferTypes'
  BY DEF BufferTypes
<1>6. UNCHANGED <<pc, cmd, tries, bread, tmp>> => LocalTypes'
  BY DEF LocalTypes
<1>7. UNCHANGED books => BookTypes'
  BY DEF books, BookTypes
<1> QED
  BY <1>1, <1>2, <1>3, <1>4, <1>5, <1>6, <1>7

LEMMA ReturnTypes ==
    ASSUME Types, NEW s \in Sessions, NEW p \in Points, Return(s, p)
    PROVE  BufferTypes' /\ LocalTypes'
<1>1. BufferTypes'
  BY InitChkbuf DEF Types, BufferTypes, Return
<1>2. LocalTypes'
  BY DEF Types, LocalTypes, Return
<1> QED
  BY <1>1, <1>2

LEMMA DisconnectTypes ==
    ASSUME Types, NEW s \in Sessions, Disconnect(s) PROVE WireTypes'
  BY DEF Types, WireTypes, Disconnect

LEMMA OpenBooksTypes ==
    ASSUME Types, NEW s \in Sessions, OpenBooks(s)
    PROVE  BufferTypes' /\ LocalTypes' /\ BookTypes'
<1>1. BufferTypes' /\ LocalTypes'
  BY ReturnTypes DEF OpenBooks, Points, Closing
<1>2. BookTypes'
  BY DEF Types, BookTypes, OpenBooks
<1> QED
  BY <1>1, <1>2

LEMMA InitTypes == Init => Types
<1> SUFFICES ASSUME Init PROVE Types
  OBVIOUS
<1>1. \A k \in Keys : Cardinality(OfHost(k)) \in Nat
  <2> SUFFICES ASSUME NEW k \in Keys PROVE Cardinality(OfHost(k)) \in Nat
    OBVIOUS
  <2>1. IsFiniteSet(OfHost(k))
    BY ReadingAssumption, FS_Subset DEF OfHost
  <2> QED
    BY <2>1, FS_CardinalityType
<1>2. ClientTypes
  BY ConstantFacts DEF Init, ClientTypes
<1>3. EntryTypes
  <2>1. bytesleft \in [Keys -> Int]
    BY ReadingAssumption DEF Init
  <2> QED
    BY <1>1, <2>1 DEF Init, EntryTypes
<1>4. ChargeTypes /\ CountTypes
  BY DEF Init, ChargeTypes, CountTypes
<1>5. WireTypes
  BY DEF Init, WireTypes
<1>6. BufferTypes
  BY InitChkbuf DEF Init, BufferTypes
<1>7. LocalTypes
  BY DEF Init, LocalTypes, Points, Serving
<1>8. BookTypes
  <2>1. rows \in [Keys -> Seq(Nat)]
    BY DEF Init
  <2>2. account \in [Sessions -> {"open", "booked", "twice", "lost"}]
    BY DEF Init
  <2>3. dllock = 0 /\ leaked = FALSE
    BY DEF Init
  <2> QED
    BY <2>1, <2>2, <2>3 DEF BookTypes
<1> QED
  BY <1>2, <1>3, <1>4, <1>5, <1>6, <1>7, <1>8 DEF Types

-----------------------------------------------------------------------------
LEMMA AuthinfoTypes ==
    ASSUME Types, NEW s \in Sessions, NEW name \in Names, NEW o \in Outcomes,
           NEW admitted \in BOOLEAN, cmdauthinfo(s, name, o, admitted)
    PROVE  Types'
<1>1. name \in Keys /\ key[s] \in Keys
  BY ConstantFacts DEF Types, ClientTypes
<1>2. o.bytes \in Nat
  BY OutcomeFacts DEF Results
<1>3. ClientTypes'
  <2>1. /\ username' \in [Sessions -> Names \cup {NoName}]
        /\ authenticated' \in [Sessions -> BOOLEAN]
        /\ key' \in [Sessions -> Keys]
    BY <1>1 DEF Types, ClientTypes, cmdauthinfo
  <2> QED
    BY <2>1 DEF ClientTypes
<1>4. EntryTypes' /\ ChargeTypes'
  <2>1. CASE UNCHANGED <<refs, quota, granted>>
    BY <2>1 DEF Types, EntryTypes, ChargeTypes, cmdauthinfo, quota
  <2> DEFINE Renewed(f, new, zero) ==
               [k \in Keys |-> IF k = name THEN new
                               ELSE IF k = key[s] /\ refs[k] = 1 THEN zero
                               ELSE f[k]]
  <2>2. CASE /\ refs' = Moved(key[s], name)
             /\ bytesleft' = Renewed(bytesleft, o.bytes, 0)
             /\ granted' = Renewed(granted, o.bytes, 0)
             /\ charged' = Renewed(charged, 0, 0)
             /\ boundless' = Renewed(boundless, o.bytes = 0, FALSE)
    <3>1. refs' \in [Keys -> Int]
      BY <2>2 DEF Types, EntryTypes, Moved
    <3>2. bytesleft' \in [Keys -> Int] /\ granted' \in [Keys -> Int]
      BY <1>2, <2>2 DEF Types, EntryTypes
    <3>3. charged' \in [Keys -> Int]
      BY <2>2 DEF Types, ChargeTypes
    <3>4. boundless' \in [Keys -> BOOLEAN]
      BY <1>2, <2>2 DEF Types, EntryTypes
    <3>5. bytes' = bytes
      BY DEF cmdauthinfo
    <3> QED
      BY <3>1, <3>2, <3>3, <3>4, <3>5 DEF Types, EntryTypes, ChargeTypes
  <2> QED
    BY <2>1, <2>2, Zenon DEF cmdauthinfo
<1>5. CountTypes'
  BY DEF Types, CountTypes, cmdauthinfo
<1>6. WireTypes' /\ BufferTypes' /\ LocalTypes' /\ BookTypes'
  <2>1. UNCHANGED <<pc, wire, split, locals, books>>
    BY DEF cmdauthinfo
  <2> QED
    BY <2>1, Frames DEF locals
<1> QED
  BY <1>3, <1>4, <1>5, <1>6 DEF Types

LEMMA CommandTypes ==
    ASSUME Types, NEW s \in Sessions, NEW c \in {"article", "xover"},
           NEW reply \in Replies(s), Command(s, c, reply)
    PROVE  Types'
<1>1. WireTypes'
  <2>1. wire[s] \o reply \in Seq(Byte)
    BY RepliesType, ConcatProperties DEF Types, WireTypes
  <2> QED
    BY <2>1 DEF Types, WireTypes, Command
<1>2. LocalTypes' /\ CountTypes'
  BY DEF Types, LocalTypes, CountTypes, Command, Points, Serving
<1>3. ClientTypes' /\ EntryTypes' /\ ChargeTypes' /\ BufferTypes' /\ BookTypes'
  BY Frames DEF Command
<1> QED
  BY <1>1, <1>2, <1>3 DEF Types

LEMMA ReadStatusTypes ==
    ASSUME Types, NEW s \in Sessions, NEW reply \in Replies(s),
           ReadStatus(s, reply)
    PROVE  Types'
<1>1. WireTypes'
  <2>1. wire[s] \in Seq(Byte) /\ reply \in Seq(Byte)
    BY RepliesType DEF Types, WireTypes
  <2>2. AfterLine(wire[s]) \in Seq(Byte)
    BY <2>1, FirstEndType DEF ReadStatus
  <2>3. AfterLine(wire[s]) \o reply \in Seq(Byte)
    BY <2>1, <2>2, ConcatProperties
  <2> QED
    BY <2>2, <2>3 DEF Types, WireTypes, ReadStatus
<1>2. BufferTypes' /\ LocalTypes'
  <2>1. CASE Return(s, "command")
    BY <2>1, ReturnTypes DEF Points, Serving
  <2>2. CASE ~ Return(s, "command")
    <3>1. LocalTypes'
      <4>1. UNCHANGED <<cmd, bread, tmp>>
        BY <2>2 DEF ReadStatus, locals
      <4>2. pc' \in [Sessions -> Points]
        BY <2>2 DEF Types, LocalTypes, ReadStatus, Points, Serving
      <4>3. tries' \in [Sessions -> Nat]
        <5>1. tries' = tries \/ tries' = [tries EXCEPT ![s] = @ + 1]
          BY <2>2 DEF ReadStatus, locals
        <5> QED
          BY <5>1 DEF Types, LocalTypes
      <4> QED
        BY <4>1, <4>2, <4>3 DEF Types, LocalTypes
    <3>2. UNCHANGED <<chkbuf, more, stale>>
      BY <2>2 DEF ReadStatus, locals
    <3> QED
      BY <3>1, <3>2, Frames
  <2> QED
    BY <2>1, <2>2
<1>3. ClientTypes' /\ EntryTypes' /\ ChargeTypes' /\ CountTypes' /\ BookTypes'
  BY Frames DEF ReadStatus
<1> QED
  BY <1>1, <1>2, <1>3 DEF Types

LEMMA ReadPieceTypes ==
    ASSUME Types, NEW s \in Sessions, NEW n \in Pieces[s], ReadPiece(s, n)
    PROVE  Types'
<1>1. n \in Nat /\ n > 0 /\ wire[s] \in Seq(Byte) /\ n <= Len(wire[s])
  BY ConstantFacts DEF Types, WireTypes, ReadPiece
<1>2. /\ SubSeq(wire[s], 1, n) \in Seq(Byte)
      /\ SubSeq(wire[s], n + 1, Len(wire[s])) \in Seq(Byte)
  BY <1>1, SubSeqProperties, LenProperties
<1>3. WireTypes'
  <2>1. wire' \in [Sessions -> Seq(Byte)]
    BY <1>2 DEF Types, WireTypes, ReadPiece
  <2>2. split' \in [Sessions -> BOOLEAN]
    BY DEF Types, WireTypes, ReadPiece
  <2> QED
    BY <2>1, <2>2 DEF WireTypes
<1>4. BufferTypes'
  <2>1. Updated(chkbuf[s], SubSeq(wire[s], 1, n))
            \in [1 .. 5 -> Byte \cup {"NUL"}]
    BY <1>2, LastFiveType DEF Types, BufferTypes
  <2>2. chkbuf' \in [Sessions -> [1 .. 5 -> Byte \cup {"NUL"}]]
    BY <2>1 DEF Types, BufferTypes, ReadPiece
  <2>3. more' \in [Sessions -> BOOLEAN] /\ stale' \in [Sessions -> BOOLEAN]
    BY DEF Types, BufferTypes, ReadPiece, checkbuf_isend
  <2> QED
    BY <2>2, <2>3 DEF BufferTypes
<1>5. LocalTypes'
  BY <1>1 DEF Types, LocalTypes, ReadPiece, Points, Serving
<1>6. ClientTypes' /\ EntryTypes' /\ ChargeTypes' /\ CountTypes' /\ BookTypes'
  BY Frames DEF ReadPiece
<1> QED
  BY <1>3, <1>4, <1>5, <1>6 DEF Types

LEMMA ResumeTypes ==
    ASSUME Types, NEW s \in Sessions, Resume(s)
    PROVE  BufferTypes' /\ LocalTypes'
<1>1. CASE Return(s, "command")
  BY <1>1, ReturnTypes DEF Points, Serving
<1>2. CASE ~ Return(s, "command")
  <2>1. LocalTypes'
    BY <1>2 DEF Types, LocalTypes, Resume, Points, Serving
  <2>2. UNCHANGED <<chkbuf, more, stale>>
    BY <1>2 DEF Resume
  <2> QED
    BY <2>1, <2>2, Frames
<1> QED
  BY <1>1, <1>2

LEMMA ChargeTypesKept ==
    ASSUME Types, NEW s \in Sessions, Charge(s) PROVE Types'
<1>1. ChargeTypes'
  BY DEF Types, ChargeTypes, LocalTypes, Charge
<1>2. BufferTypes' /\ LocalTypes'
  <2>1. CASE Resume(s)
    BY <2>1, ResumeTypes
  <2>2. CASE ~ Resume(s)
    <3>1. cmd[s] = "article" /\ bytesleft[key[s]] > 0
      BY <2>2 DEF Charge
    <3>2. bytesleft[key[s]] \in Nat
      BY <3>1 DEF Types, ClientTypes, EntryTypes
    <3>3. LocalTypes'
      BY <2>2, <3>2 DEF Types, LocalTypes, Charge, Points, Serving
    <3>4. UNCHANGED <<chkbuf, more, stale>>
      BY <2>2 DEF Charge
    <3> QED
      BY <3>3, <3>4, Frames
  <2> QED
    BY <2>1, <2>2
<1>3. ClientTypes' /\ EntryTypes' /\ WireTypes' /\ CountTypes' /\ BookTypes'
  BY Frames DEF Charge
<1> QED
  BY <1>1, <1>2, <1>3 DEF Types

LEMMA StoreLeftTypes ==
    ASSUME Types, NEW s \in Sessions, StoreLeft(s) PROVE Types'
<1>1. BufferTypes' /\ LocalTypes'
  BY ResumeTypes DEF StoreLeft
<1>2. ClientTypes'
  BY DEF Types, ClientTypes, StoreLeft
<1>6. key[s] \in Keys /\ bread[s] \in Nat /\ tmp[s] \in Nat
  BY DEF Types, ClientTypes, LocalTypes
<1>3. ChargeTypes'
  <2>1. /\ bytes' = bytes
        /\ charged' = [charged EXCEPT ![key[s]] = @ + bread[s]]
    BY DEF StoreLeft
  <2> QED
    BY <1>6, <2>1 DEF Types, ChargeTypes
<1>4. EntryTypes'
  <2>1. bytesleft' \in [Keys -> Int]
    <3>1. bytesleft' = [bytesleft EXCEPT ![key[s]] = tmp[s] - bread[s]]
      BY DEF StoreLeft
    <3> QED
      BY <1>6, <3>1 DEF Types, EntryTypes
  <2>2. boundless' \in [Keys -> BOOLEAN]
    BY DEF Types, EntryTypes, StoreLeft
  <2> QED
    BY <2>1, <2>2 DEF Types, EntryTypes, StoreLeft
<1>5. WireTypes' /\ CountTypes' /\ BookTypes'
  BY Frames DEF StoreLeft
<1> QED
  BY <1>1, <1>2, <1>3, <1>4, <1>5 DEF Types

\* The steps that end a dialogue or the session.
LEMMA EndTypes ==
    ASSUME Types, NEW s \in Sessions,
           \/ \E failed \in BOOLEAN : ServerDown(s, failed)
           \/ WriteFails(s) \/ Leave(s) \/ Term(s) \/ Die(s)
    PROVE  Types'
<1>1. Disconnect(s) /\ UNCHANGED <<client, bytes, charged, ncmds>>
  BY DEF ServerDown, WriteFails, Leave, Term, Die
<1>2. BufferTypes' /\ LocalTypes' /\ BookTypes'
  <2>1. CASE OpenBooks(s)
    BY <2>1, OpenBooksTypes
  <2>2. CASE ~ OpenBooks(s)
    <3>1. \E p \in Points : Return(s, p)
      BY <2>2 DEF ServerDown, WriteFails, Leave, Term, Die, Points, Serving,
                  Closing
    <3>2. BookTypes'
      BY <2>2, Frames
      DEF Types, BookTypes, ServerDown, WriteFails, Leave, Term, Die
    <3> QED
      BY <3>1, <3>2, ReturnTypes
  <2> QED
    BY <2>1, <2>2
<1>3. ClientTypes' /\ EntryTypes' /\ ChargeTypes' /\ CountTypes'
  BY <1>1, Frames
<1>4. WireTypes'
  BY <1>1, DisconnectTypes
<1> QED
  BY <1>2, <1>3, <1>4 DEF Types

LEMMA BookSteps ==
    ASSUME Types, NEW s \in Sessions,
           \/ SpinEnds(s) \/ SelectRow(s) \/ SelectFails(s)
           \/ WriteRow(s) \/ WriteFailed(s) \/ Unlock(s)
    PROVE  Types'
<1>1. BooksOnly
  BY DEF SpinEnds, SelectRow, SelectFails, WriteRow, WriteFailed, Unlock
<1>2. /\ ClientTypes' /\ EntryTypes' /\ ChargeTypes' /\ WireTypes'
      /\ CountTypes' /\ BufferTypes'
  BY <1>1, Frames DEF BooksOnly, locals
<1>3. LocalTypes'
  <2>1. UNCHANGED <<cmd, tries, bread, tmp>>
    BY <1>1 DEF BooksOnly, locals
  <2>2. pc' \in [Sessions -> Points]
    BY DEF Types, LocalTypes, Goto, Points, Closing, SpinEnds, SelectRow,
           SelectFails, WriteRow, WriteFailed, Unlock
  <2> QED
    BY <2>1, <2>2 DEF Types, LocalTypes
<1>4. BookTypes'
  <2>1. Login(s) \in Keys /\ bytes[s] \in Nat
    BY ConstantFacts DEF Types, ClientTypes, ChargeTypes, Login
  <2>2. rows[Login(s)] \in Seq(Nat)
    BY <2>1 DEF Types, BookTypes
  <2>3. Insert(Login(s), bytes[s]) \in [Keys -> Seq(Nat)]
    <3>1. Append(rows[Login(s)], bytes[s]) \in Seq(Nat)
      BY <2>1, <2>2, AppendProperties
    <3> QED
      BY <2>1, <3>1 DEF Types, BookTypes, Insert
  <2>4. Update(Login(s), bytes[s]) \in [Keys -> Seq(Nat)]
    <3> DEFINE f == [i \in DOMAIN rows[Login(s)] |->
                       rows[Login(s)][i] + bytes[s]]
    <3>1. /\ DOMAIN rows[Login(s)] = 1 .. Len(rows[Login(s)])
          /\ Len(rows[Login(s)]) \in Nat
          /\ \A i \in 1 .. Len(rows[Login(s)]) : rows[Login(s)][i] \in Nat
      BY <2>2, LenProperties, ElementOfSeq
    <3>2. f \in Seq(Nat)
      BY <2>1, <3>1, IsASeq
    <3> QED
      BY <2>1, <3>2 DEF Types, BookTypes, Update
  <2>5. CASE WriteRow(s)
    <3>1. rows' \in [Keys -> Seq(Nat)]
      BY <2>3, <2>4, <2>5 DEF WriteRow
    <3>2. account' \in [Sessions -> {"open", "booked", "twice", "lost"}]
      BY <2>5 DEF Types, BookTypes, WriteRow
    <3> QED
      BY <2>5, <3>1, <3>2 DEF Types, BookTypes, WriteRow
  <2>6. CASE SelectFails(s)
    BY <2>6 DEF Types, BookTypes, SelectFails
  <2>7. CASE WriteFailed(s)
    BY <2>7 DEF Types, BookTypes, WriteFailed
  <2>8. CASE SpinEnds(s)
    BY <2>8, Frames DEF SpinEnds
  <2>9. CASE SelectRow(s)
    <3>1. UNCHANGED <<rows, account, leaked>> /\ dllock' = dllock + 1
      BY <2>9 DEF SelectRow
    <3> QED
      BY <3>1 DEF Types, BookTypes
  <2>10. CASE Unlock(s)
    BY <2>10 DEF Types, BookTypes, Unlock, dl_unlock
  <2> QED
    BY <2>5, <2>6, <2>7, <2>8, <2>9, <2>10
<1> QED
  BY <1>2, <1>3, <1>4 DEF Types

LEMMA FreeClientTypes ==
    ASSUME Types, NEW s \in Sessions, FreeClient(s) PROVE Types'
<1>1. LocalTypes'
  BY DEF Types, LocalTypes, FreeClient, Goto, Points, locals
<1>2. EntryTypes'
  <2>1. refs' \in [Keys -> Int]
    BY DEF Types, EntryTypes, FreeClient
  <2>2. bytesleft' \in [Keys -> Int] /\ granted' \in [Keys -> Int]
    BY DEF Types, EntryTypes, FreeClient
  <2>3. boundless' \in [Keys -> BOOLEAN]
    BY DEF Types, EntryTypes, FreeClient
  <2> QED
    BY <2>1, <2>2, <2>3 DEF EntryTypes
<1>3. ChargeTypes' /\ ClientTypes'
  BY DEF Types, ChargeTypes, ClientTypes, FreeClient
<1>4. WireTypes' /\ CountTypes' /\ BufferTypes' /\ BookTypes'
  BY Frames DEF FreeClient, locals
<1> QED
  BY <1>1, <1>2, <1>3, <1>4 DEF Types

LEMMA NextTypes == Types /\ [Next]_vars => Types'
<1> SUFFICES ASSUME Types, [Next]_vars PROVE Types'
  OBVIOUS
<1>1. CASE UNCHANGED vars
  BY <1>1, Frames DEF vars, locals, Types
<1>2. ASSUME NEW s \in Sessions, Advance(s) PROVE Types'
  <2>1. CASE Read(s)
    BY <2>1, ReadStatusTypes, ReadPieceTypes, EndTypes, ChargeTypesKept,
       StoreLeftTypes DEF Read
  <2>2. CASE Leave(s)
    BY <2>2, EndTypes
  <2>3. CASE Close(s)
    BY <2>3, BookSteps, FreeClientTypes DEF Close
  <2> QED
    BY <1>2, <2>1, <2>2, <2>3 DEF Advance
<1> QED
  BY <1>1, <1>2, AuthinfoTypes, CommandTypes, EndTypes DEF Next

\* The variables keep their types (CLIENT, USER and MASTER in nntpd.h), for
\* every number of sessions and names, and articles and reads of any size.
THEOREM ReadingTypes == Spec => []TypeOK
<1>1. Spec => []Types
  BY InitTypes, NextTypes, PTL DEF Spec
<1> QED
  BY <1>1, TypesParts, PTL

-----------------------------------------------------------------------------
(* A step is a step of one session.                                        *)

Step(s) ==
    \/ \E name \in Names, o \in Outcomes, admitted \in BOOLEAN :
          cmdauthinfo(s, name, o, admitted)
    \/ \E c \in {"article", "xover"}, reply \in Replies(s) :
          Command(s, c, reply)
    \/ Advance(s) \/ Term(s) \/ Die(s)

LEMMA NextIsStep == Next <=> \E s \in Sessions : Step(s)
  BY Zenon DEF Next, Step

LEMMA ReturnElsewhere ==
    ASSUME Types, NEW s \in Sessions, NEW p \in Points, Return(s, p),
           NEW t \in Sessions, t # s
    PROVE  UNCHANGED <<pc[t], chkbuf[t], more[t], stale[t]>>
  BY DEF Types, LocalTypes, BufferTypes, Return

LEMMA ClientElsewhere ==
    ASSUME Types, NEW s \in Sessions, Step(s), NEW t \in Sessions, t # s
    PROVE  UNCHANGED <<username[t], authenticated[t], key[t],
                       bytes[t]>>
<1>1. CASE UNCHANGED <<username, authenticated, key, bytes>>
  BY <1>1
<1>2. ASSUME NEW name \in Names, NEW o \in Outcomes, NEW admitted \in BOOLEAN,
             cmdauthinfo(s, name, o, admitted)
      PROVE  UNCHANGED <<username[t], authenticated[t], key[t],
                         bytes[t]>>
  BY <1>2 DEF Types, ClientTypes, cmdauthinfo
<1>3. CASE Charge(s)
  BY <1>3 DEF Types, ChargeTypes, Charge, client
<1>4. CASE Read(s) /\ ~ Charge(s)
  BY <1>1, <1>4 DEF Read, ReadStatus, ReadPiece, ServerDown, WriteFails,
                    StoreLeft, client
<1>5. CASE Close(s)
  BY <1>1, <1>5 DEF Close, SpinEnds, SelectRow, SelectFails, WriteRow,
                    WriteFailed, Unlock, FreeClient, BooksOnly, client
<1>6. CASE Leave(s) \/ Term(s) \/ Die(s)
  BY <1>1, <1>6 DEF Leave, Term, Die, client
<1>7. ASSUME NEW c \in {"article", "xover"}, NEW reply \in Replies(s),
             Command(s, c, reply)
      PROVE  UNCHANGED <<username, authenticated, key, bytes>>
  BY <1>7 DEF Command, client
<1> QED
  BY <1>1, <1>2, <1>3, <1>4, <1>5, <1>6, <1>7 DEF Step, Advance

LEMMA DialogueElsewhere ==
    ASSUME Types, NEW s \in Sessions, Step(s), NEW t \in Sessions, t # s
    PROVE  UNCHANGED <<pc[t], wire[t], split[t], chkbuf[t], more[t], stale[t]>>
<1> DEFINE Same == UNCHANGED <<pc[t], wire[t], split[t], chkbuf[t], more[t],
                               stale[t]>>
<1>1. ASSUME UNCHANGED <<wire, split>> \/ Disconnect(s)
      PROVE  UNCHANGED <<wire[t], split[t]>>
  BY <1>1 DEF Types, WireTypes, Disconnect
<1>2. ASSUME UNCHANGED <<chkbuf, more, stale>>, NEW p \in Points,
             pc' = [pc EXCEPT ![s] = p]
      PROVE  UNCHANGED <<pc[t], chkbuf[t], more[t], stale[t]>>
  BY <1>2 DEF Types, LocalTypes
<1>3. ASSUME NEW name \in Names, NEW o \in Outcomes, NEW admitted \in BOOLEAN,
             cmdauthinfo(s, name, o, admitted)
      PROVE  Same
  BY <1>3 DEF cmdauthinfo, locals
<1>4. ASSUME NEW c \in {"article", "xover"}, NEW reply \in Replies(s),
             Command(s, c, reply)
      PROVE  Same
  <2>1. "status" \in Points
    BY DEF Points, Serving
  <2>2. UNCHANGED <<wire[t], split[t]>>
    BY <1>4 DEF Types, WireTypes, Command
  <2> QED
    BY <1>2, <1>4, <2>1, <2>2 DEF Command
<1>5. ASSUME NEW reply \in Replies(s), ReadStatus(s, reply) PROVE Same
  <2>1. UNCHANGED <<wire[t], split[t]>>
    BY <1>5 DEF Types, WireTypes, ReadStatus
  <2>2. UNCHANGED <<pc[t], chkbuf[t], more[t], stale[t]>>
    <3>1. CASE Return(s, "command")
      BY <3>1, ReturnElsewhere DEF Points, Serving
    <3>2. CASE pc' = [pc EXCEPT ![s] = "body"] /\ UNCHANGED locals
      BY <3>2, <1>2 DEF Points, Serving, locals
    <3>3. CASE UNCHANGED <<pc, chkbuf, more, stale>>
      BY <3>3
    <3> QED
      BY <1>5, <3>1, <3>2, <3>3 DEF ReadStatus
  <2> QED
    BY <2>1, <2>2
<1>6. ASSUME NEW n \in Pieces[s], ReadPiece(s, n) PROVE Same
  BY <1>6 DEF Types, WireTypes, LocalTypes, BufferTypes, ReadPiece
<1>7. ASSUME Resume(s) PROVE UNCHANGED <<pc[t], chkbuf[t], more[t], stale[t]>>
  <2>1. CASE Return(s, "command")
    BY <2>1, ReturnElsewhere DEF Points, Serving
  <2>2. CASE ~ Return(s, "command")
    BY <1>2, <1>7, <2>2 DEF Resume, Points, Serving
  <2> QED
    BY <2>1, <2>2
<1>8. CASE Charge(s) \/ StoreLeft(s)
  <2>1. UNCHANGED <<wire, split>>
    BY <1>8 DEF Charge, StoreLeft
  <2>2. CASE Resume(s)
    BY <1>7, <2>1, <2>2
  <2>3. CASE ~ Resume(s)
    BY <1>2, <1>8, <2>1, <2>3 DEF Charge, StoreLeft, Points, Serving
  <2> QED
    BY <2>2, <2>3
<1>9. CASE \/ \E failed \in BOOLEAN : ServerDown(s, failed)
           \/ WriteFails(s) \/ Leave(s) \/ Term(s) \/ Die(s)
  <2>1. Disconnect(s)
    BY <1>9 DEF ServerDown, WriteFails, Leave, Term, Die
  <2>2. \E p \in Points : Return(s, p)
    BY <1>9 DEF ServerDown, WriteFails, Leave, Term, Die, OpenBooks,
                Points, Serving, Closing
  <2> QED
    BY <1>1, <2>1, <2>2, ReturnElsewhere
<1>10. CASE Close(s)
  <2>1. UNCHANGED <<wire, split, locals>>
    BY <1>10 DEF Close, SpinEnds, SelectRow, SelectFails, WriteRow,
                 WriteFailed, Unlock, FreeClient, BooksOnly
  <2>2. \E p \in Points : Goto(s, p)
    BY <1>10 DEF Close, SpinEnds, SelectRow, SelectFails, WriteRow,
                 WriteFailed, Unlock, FreeClient, Points, Closing
  <2> QED
    BY <1>2, <2>1, <2>2 DEF locals, Goto
<1> QED
  BY <1>3, <1>4, <1>5, <1>6, <1>8, <1>9, <1>10 DEF Step, Advance, Read

-----------------------------------------------------------------------------
(* Whom a module let in.                                                   *)

Dialogue == {"status", "body", "charge", "store"}

\* A session that is let in carries the name of its entry, and no other
\* reads where the ACL asks for AUTHINFO.
Owned(s) ==
    /\ authenticated[s] => key[s] = username[s] /\ username[s] \in Names
    /\ s \in AuthHosts =>
          (bytes[s] > 0 \/ pc[s] \in Dialogue => authenticated[s])

Owns == \A s \in Sessions : Owned(s)

\* No step but a command makes a reader of a session, and none but AUTHINFO
\* changes who it is.
LEMMA AdvanceOwned ==
    ASSUME Types, NEW s \in Sessions, Owned(s),
           Advance(s) \/ Term(s) \/ Die(s)
    PROVE  Owned(s)'
<1>1. UNCHANGED <<username, authenticated, key>>
  <2>1. CASE Read(s)
    BY <2>1 DEF Read, ReadStatus, ReadPiece, ServerDown, WriteFails, Charge,
                StoreLeft, client
  <2>2. CASE Close(s)
    BY <2>2 DEF Close, SpinEnds, SelectRow, SelectFails, WriteRow,
                WriteFailed, Unlock, FreeClient, BooksOnly, client
  <2>3. CASE Leave(s) \/ Term(s) \/ Die(s)
    BY <2>3 DEF Leave, Term, Die, client
  <2> QED
    BY <2>1, <2>2, <2>3 DEF Advance
<1>2. CASE Read(s)
  <2>1. pc[s] \in Dialogue
    BY <1>2 DEF Read, ReadStatus, ReadPiece, ServerDown, WriteFails, Charge,
                StoreLeft, Dialogue
  <2> QED
    BY <1>1, <2>1 DEF Owned
<1>3. CASE ~ Read(s)
  <2>1. bytes' = bytes
    <3>1. CASE Close(s)
      BY <3>1 DEF Close, SpinEnds, SelectRow, SelectFails, WriteRow,
                  WriteFailed, Unlock, FreeClient, BooksOnly
    <3>2. CASE Leave(s) \/ Term(s) \/ Die(s)
      BY <3>2 DEF Leave, Term, Die
    <3> QED
      BY <1>3, <3>1, <3>2 DEF Advance
  <2>2. pc'[s] \notin Dialogue
    <3>1. CASE Close(s)
      BY <3>1 DEF Close, SpinEnds, SelectRow, SelectFails, WriteRow,
                  WriteFailed, Unlock, FreeClient, Goto, Types, LocalTypes,
                  Dialogue
    <3>2. CASE Leave(s) \/ Term(s) \/ Die(s)
      BY <3>2 DEF Leave, Term, Die, OpenBooks, Return, Types, LocalTypes,
                  Dialogue
    <3> QED
      BY <1>3, <3>1, <3>2 DEF Advance
  <2> QED
    BY <1>1, <2>1, <2>2 DEF Owned
<1> QED
  BY <1>2, <1>3

LEMMA CommandOwned ==
    ASSUME Types, NEW s \in Sessions, Owned(s),
           NEW c \in {"article", "xover"}, NEW reply \in Replies(s),
           Command(s, c, reply)
    PROVE  Owned(s)'
<1>1. s \in AuthHosts => authenticated[s]
  BY DEF Command, Allowed
<1>2. UNCHANGED <<username, authenticated, key>>
  BY DEF Command, client
<1> QED
  BY <1>1, <1>2 DEF Owned

LEMMA AuthinfoOwned ==
    ASSUME Types, NEW s \in Sessions, Owned(s), NEW name \in Names,
           NEW o \in Outcomes, NEW admitted \in BOOLEAN,
           cmdauthinfo(s, name, o, admitted)
    PROVE  Owned(s)'
<1>1. ~ authenticated[s] /\ pc[s] = "command" /\ UNCHANGED <<pc, bytes>>
  BY DEF cmdauthinfo, MayGoOn
<1>2. username'[s] = name
  BY DEF cmdauthinfo, Types, ClientTypes
<1>3. CASE UNCHANGED <<authenticated, key>>
  BY <1>1, <1>3 DEF Owned, Dialogue
<1>4. CASE ~ UNCHANGED <<authenticated, key>>
  <2>1. o.authenticated /\ admitted
    BY <1>4 DEF cmdauthinfo
  <2>2. authenticated'[s] /\ key'[s] = name
    BY <1>4 DEF cmdauthinfo, Types, ClientTypes
  <2> QED
    BY <1>1, <1>2, <2>2 DEF Owned, Dialogue
<1> QED
  BY <1>3, <1>4

LEMMA InitOwns == Init => Owns
  BY DEF Init, Owns, Owned, Dialogue

LEMMA NextOwns == Types /\ Owns /\ [Next]_vars => Owns'
<1> SUFFICES ASSUME Types, Owns, [Next]_vars PROVE Owns'
  OBVIOUS
<1>1. CASE UNCHANGED vars
  BY <1>1 DEF vars, client, Owns, Owned
<1>2. ASSUME NEW s \in Sessions, Step(s) PROVE Owns'
  <2>1. Owned(s)'
    BY <1>2, AdvanceOwned, CommandOwned, AuthinfoOwned DEF Step, Owns
  <2>2. ASSUME NEW t \in Sessions, t # s PROVE Owned(t)'
    <3>1. UNCHANGED <<username[t], authenticated[t], key[t],
                      bytes[t], pc[t]>>
      BY <1>2, <2>2, ClientElsewhere, DialogueElsewhere
    <3> QED
      BY <3>1 DEF Owns, Owned
  <2> QED
    BY <2>1, <2>2 DEF Owns
<1> QED
  BY <1>1, <1>2, NextIsStep

LEMMA OwnsAlways == Spec => [](Types /\ Owns)
  BY InitTypes, NextTypes, InitOwns, NextOwns, PTL DEF Spec

\* What close_child books under a name was read by sessions a module let
\* in under that name, where the ACL asks for AUTHINFO.
THEOREM ReadingBookedToOwner == Spec => []BookedToOwner
<1>1. Owns => BookedToOwner
  <2> SUFFICES ASSUME Owns, NEW s \in AuthHosts, bytes[s] > 0
               PROVE  authenticated[s] /\ Login(s) = key[s]
    BY DEF BookedToOwner
  <2>1. Owned(s)
    BY ReadingAssumption DEF Owns
  <2>2. authenticated[s] /\ key[s] = username[s] /\ username[s] # NoName
    BY <2>1, ConstantFacts DEF Owned
  <2> QED
    BY <2>2 DEF Login
<1> QED
  BY <1>1, OwnsAlways, PTL

-----------------------------------------------------------------------------
(* The table of day limits.                                                *)

Booking(s) == pc[s] \in {"take", "insert", "update", "unlock"}

\* The lock keeps all but one session out, from before it is taken until it is
\* given back, and what that session has found in the table stays true.
Locked ==
    /\ \A s, t \in Sessions : Booking(s) /\ Booking(t) => s = t
    /\ \A s \in Sessions :
          pc[s] \in {"insert", "update", "unlock"} => dllock > 0
    /\ \A s \in Sessions : pc[s] = "insert" => rows[Login(s)] = <<>>
    /\ OneRow

LEMMA NotBooking ==
    ASSUME Types, NEW s \in Sessions, Step(s), ~ Close(s)
    PROVE  UNCHANGED <<dllock, rows>> /\ ~ Booking(s)'
<1>1. ASSUME NEW p \in Points \ {"take", "insert", "update", "unlock"},
             Return(s, p)
      PROVE  ~ Booking(s)'
  BY <1>1 DEF Types, LocalTypes, Return, Booking
<1>2. ASSUME Resume(s) PROVE ~ Booking(s)'
  <2>1. CASE Return(s, "command")
    BY <1>1, <2>1 DEF Points, Serving
  <2>2. CASE ~ Return(s, "command")
    BY <1>2, <2>2 DEF Types, LocalTypes, Resume, Booking
  <2> QED
    BY <2>1, <2>2
<1>3. ASSUME NEW name \in Names, NEW o \in Outcomes, NEW admitted \in BOOLEAN,
             cmdauthinfo(s, name, o, admitted)
      PROVE  UNCHANGED <<dllock, rows>> /\ ~ Booking(s)'
  BY <1>3 DEF cmdauthinfo, MayGoOn, Booking, books
<1>4. ASSUME NEW c \in {"article", "xover"}, NEW reply \in Replies(s),
             Command(s, c, reply)
      PROVE  UNCHANGED <<dllock, rows>> /\ ~ Booking(s)'
  BY <1>4 DEF Command, Types, LocalTypes, Booking, books
<1>5. ASSUME NEW reply \in Replies(s), ReadStatus(s, reply)
      PROVE  UNCHANGED <<dllock, rows>> /\ ~ Booking(s)'
  <2>1. UNCHANGED <<dllock, rows>> /\ ~ Booking(s)
    BY <1>5 DEF ReadStatus, books, Booking
  <2>2. CASE Return(s, "command")
    BY <1>1, <2>1, <2>2 DEF Points, Serving
  <2>3. CASE ~ Return(s, "command")
    <3>1. pc' = pc \/ pc' = [pc EXCEPT ![s] = "body"]
      BY <1>5, <2>3 DEF ReadStatus
    <3> QED
      BY <2>1, <3>1 DEF Types, LocalTypes, Booking
  <2> QED
    BY <2>2, <2>3
<1>6. ASSUME NEW n \in Pieces[s], ReadPiece(s, n)
      PROVE  UNCHANGED <<dllock, rows>> /\ ~ Booking(s)'
  BY <1>6 DEF ReadPiece, Types, LocalTypes, Booking, books
<1>7. CASE Charge(s) \/ StoreLeft(s)
  <2>1. UNCHANGED <<dllock, rows>>
    BY <1>7 DEF Charge, StoreLeft, books
  <2>2. CASE ~ Resume(s)
    <3>1. pc' = [pc EXCEPT ![s] = "store"]
      BY <1>7, <2>2 DEF Charge, StoreLeft
    <3> QED
      BY <2>1, <3>1 DEF Types, LocalTypes, Booking
  <2> QED
    BY <1>2, <2>1, <2>2
<1>8. CASE \/ \E failed \in BOOLEAN : ServerDown(s, failed)
           \/ WriteFails(s) \/ Leave(s) \/ Term(s) \/ Die(s)
  <2>1. UNCHANGED <<dllock, rows>>
    BY <1>8 DEF ServerDown, WriteFails, Leave, Term, Die, OpenBooks, books
  <2>2. \E p \in Points \ {"take", "insert", "update", "unlock"} : Return(s, p)
    BY <1>8 DEF ServerDown, WriteFails, Leave, Term, Die, OpenBooks, Points,
                Serving, Closing
  <2> QED
    BY <1>1, <2>1, <2>2
<1> QED
  BY <1>3, <1>4, <1>5, <1>6, <1>7, <1>8 DEF Step, Advance, Read

LEMMA CloseLocked ==
    ASSUME Types, Locked, "race" \notin Faults, NEW s \in Sessions, Close(s)
    PROVE  Locked'
<1>1. ASSUME NEW t \in Sessions, t # s PROVE pc'[t] = pc[t]
  BY <1>1, DialogueElsewhere DEF Step, Advance
<1>2. \A t \in Sessions : Login(t)' = Login(t)
  BY DEF Close, SpinEnds, SelectRow, SelectFails, WriteRow, WriteFailed,
         Unlock, FreeClient, BooksOnly, client, Login
<1>3. \A t \in Sessions : Login(t) \in Keys
  BY ConstantFacts DEF Types, ClientTypes, Login
<1>4. CASE SpinEnds(s)
  <2>1. /\ dllock = 0 /\ UNCHANGED <<dllock, rows>> /\ pc'[s] = "take"
        /\ \A t \in Sessions : pc[t] # "take"
    BY <1>4 DEF SpinEnds, dl_free, books, Goto, Types, LocalTypes
  <2>2. \A t \in Sessions : ~ Booking(t)
    BY <2>1 DEF Locked, Booking
  <2> QED
    BY <1>1, <1>2, <2>1, <2>2 DEF Locked, Booking, OneRow
<1>5. CASE SelectRow(s)
  <2>1. /\ pc[s] = "take" /\ dllock' > 0 /\ rows' = rows
        /\ pc'[s] \in {"insert", "update"}
        /\ pc'[s] = "insert" => rows[Login(s)] = <<>>
    BY <1>5 DEF SelectRow, Goto, Types, LocalTypes, BookTypes
  <2> QED
    BY <1>1, <1>2, <2>1 DEF Locked, Booking, OneRow
<1>6. CASE SelectFails(s)
  <2>1. /\ pc[s] = "take" /\ dllock' > 0 /\ rows' = rows /\ pc'[s] = "leave"
    BY <1>6 DEF SelectFails, Goto, Types, LocalTypes, BookTypes
  <2> QED
    BY <1>1, <1>2, <2>1 DEF Locked, Booking, OneRow
<1>7. CASE WriteRow(s)
  <2>1. /\ pc[s] \in {"insert", "update"} /\ pc'[s] = "unlock"
        /\ dllock' = dllock
    BY <1>7 DEF WriteRow, Goto, Types, LocalTypes
  <2>2. \A t \in Sessions : pc'[t] # "insert"
    BY <1>1, <2>1 DEF Locked, Booking
  <2>3. OneRow'
    <3> SUFFICES ASSUME NEW k \in Keys PROVE Len(rows'[k]) <= 1
      BY DEF OneRow
    <3>1. bytes[s] \in Nat /\ rows[k] \in Seq(Nat) /\ Len(rows[k]) <= 1
      BY DEF Types, ChargeTypes, BookTypes, Locked, OneRow
    <3>2. CASE pc[s] = "insert"
      <4>1. rows' = Insert(Login(s), bytes[s]) /\ rows[Login(s)] = <<>>
        BY <1>7, <3>2 DEF WriteRow, Locked
      <4>2. Len(Append(<<>>, bytes[s])) = 1
        BY <3>1, EmptySeq, AppendProperties
      <4> QED
        BY <3>1, <4>1, <4>2 DEF Insert, Types, BookTypes
    <3>3. CASE pc[s] = "update"
      <4> DEFINE f == [i \in DOMAIN rows[k] |-> rows[k][i] + bytes[s]]
      <4>1. rows' = Update(Login(s), bytes[s])
        BY <1>7, <3>3 DEF WriteRow
      <4>2. rows'[k] = rows[k] \/ rows'[k] = f
        BY <4>1 DEF Update, Types, BookTypes
      <4>3. Len(f) = Len(rows[k])
        <5>1. /\ DOMAIN rows[k] = 1 .. Len(rows[k]) /\ Len(rows[k]) \in Nat
              /\ \A i \in 1 .. Len(rows[k]) : rows[k][i] \in Nat
          BY <3>1, LenProperties, ElementOfSeq
        <5>2. f \in Seq(Nat) /\ DOMAIN f = 1 .. Len(rows[k])
          BY <3>1, <5>1, IsASeq
        <5> QED
          BY <5>1, <5>2, LenProperties
      <4> QED
        BY <3>1, <4>2, <4>3
    <3> QED
      BY <2>1, <3>2, <3>3
  <2> QED
    BY <1>1, <2>1, <2>2, <2>3 DEF Locked, Booking
<1>8. CASE WriteFailed(s)
  <2>1. /\ pc[s] \in {"insert", "update"} /\ pc'[s] = "unlock"
        /\ UNCHANGED <<dllock, rows>>
    BY <1>8 DEF WriteFailed, Goto, Types, LocalTypes
  <2> QED
    BY <1>1, <1>2, <2>1 DEF Locked, Booking, OneRow
<1>9. CASE Unlock(s)
  <2>1. /\ pc[s] = "unlock" /\ pc'[s] = "leave" /\ rows' = rows
    BY <1>9 DEF Unlock, Goto, Types, LocalTypes
  <2>2. \A t \in Sessions : ~ Booking(t)'
    BY <1>1, <2>1 DEF Locked, Booking
  <2> QED
    BY <2>1, <2>2 DEF Locked, Booking, OneRow
<1>10. CASE FreeClient(s)
  <2>1. UNCHANGED <<dllock, rows>> /\ pc'[s] = "gone"
    BY <1>10 DEF FreeClient, books, Goto, Types, LocalTypes
  <2> QED
    BY <1>1, <1>2, <2>1 DEF Locked, Booking, OneRow
<1> QED
  BY <1>4, <1>5, <1>6, <1>7, <1>8, <1>9, <1>10 DEF Close

LEMMA InitLocked == Init => Locked
<1> SUFFICES ASSUME Init PROVE Locked
  OBVIOUS
<1>1. OneRow
  BY EmptySeq DEF Init, OneRow
<1> QED
  BY <1>1 DEF Init, Locked, Booking

LEMMA NextLocked ==
    ASSUME "race" \notin Faults
    PROVE  Types /\ Locked /\ [Next]_vars => Locked'
<1> SUFFICES ASSUME Types, Locked, [Next]_vars PROVE Locked'
  OBVIOUS
<1>1. CASE UNCHANGED vars
  BY <1>1 DEF vars, client, books, Locked, Booking, OneRow, Login
<1>2. ASSUME NEW s \in Sessions, Close(s) PROVE Locked'
  BY <1>2, CloseLocked
<1>3. ASSUME NEW s \in Sessions, Step(s), ~ Close(s) PROVE Locked'
  <2>1. UNCHANGED <<dllock, rows>> /\ ~ Booking(s)'
    BY <1>3, NotBooking
  <2>2. ASSUME NEW t \in Sessions, t # s
        PROVE  pc'[t] = pc[t] /\ Login(t)' = Login(t)
    BY <1>3, <2>2, ClientElsewhere, DialogueElsewhere DEF Login
  <2> QED
    BY <2>1, <2>2 DEF Locked, Booking, OneRow
<1> QED
  BY <1>1, <1>2, <1>3, NextIsStep

\* The table has one row for a login at most, whatever fails and whenever a
\* child dies, if no two children are between the test and the store of dllock
\* (dl_waitlock in auth/daylimits.c).
THEOREM ReadingOneRow ==
    ASSUME "race" \notin Faults
    PROVE  Spec => []OneRow
<1>1. Types /\ Locked /\ [Next]_vars => Types' /\ Locked'
  BY NextTypes, NextLocked
<1>2. Locked => OneRow
  BY DEF Locked
<1> QED
  BY <1>1, <1>2, InitTypes, InitLocked, PTL DEF Spec

-----------------------------------------------------------------------------
(* The bytes a session is booked for.                                      *)

\* Where a session that has not come to its booking, or is past it, is, and
\* what an UPDATE is for.
Paid(s) ==
    /\ pc[s] \in Serving \cup {"lock", "take", "insert", "update"}
          => account[s] = "open"
    /\ pc[s] \in {"unlock", "leave", "gone"}
          => account[s] \in {"booked", "lost"}
    /\ pc[s] = "update" => rows[Login(s)] # <<>>

Balanced ==
    \A k \in Keys : SumFunction(rows[k]) = SumFunctionOnSet(bytes, Booked(k))

Accounts == (\A s \in Sessions : Paid(s)) /\ Balanced

\* A row is not taken away, and a single row holds its sum.
LEMMA OneRowSum ==
    ASSUME NEW r \in Seq(Nat), Len(r) <= 1
    PROVE  /\ r = <<>> => SumFunction(r) = 0
           /\ r # <<>> => Len(r) = 1 /\ r[1] \in Nat /\ SumFunction(r) = r[1]
<1>1. /\ Len(r) \in Nat /\ DOMAIN r = 1 .. Len(r)
      /\ \A i \in 1 .. Len(r) : r[i] \in Nat
  BY LenProperties, ElementOfSeq
<1>2. SumFunction(r) = SumFunctionOnSet(r, DOMAIN r)
  BY DEF SumFunction
<1>3. CASE Len(r) = 0
  <2>1. SumFunctionOnSet(r, {}) = 0
    BY SumEmpty
  <2>2. SumFunction(r) = 0
    <3>1. DOMAIN r = {}
      BY <1>1, <1>3
    <3> QED
      BY <1>2, <2>1, <3>1
  <2> QED
    BY <1>3, <2>2, EmptySeq
<1>4. CASE Len(r) = 1
  <2>1. DOMAIN r = {1}
    BY <1>1, <1>4
  <2>2. IsFiniteSet({1}) /\ {1} \ {1} = {} /\ r[1] \in Nat
    <3>1. IsFiniteSet({1})
      BY FS_Singleton
    <3>2. {1} \ {1} = {}
      OBVIOUS
    <3>3. r[1] \in Nat
      BY <1>1, <1>4
    <3> QED
      BY <3>1, <3>2, <3>3
  <2>3. SumFunctionOnSet(r, {1}) = r[1] + SumFunctionOnSet(r, {1} \ {1})
    <3> DEFINE S == {1}
    <3>1. IsFiniteSet(S) /\ 1 \in S /\ \A y \in S : r[y] \in Int
      BY <2>2
    <3> HIDE DEF S
    <3>2. SumFunctionOnSet(r, S) = r[1] + SumFunctionOnSet(r, S \ {1})
      BY <3>1, SumRemove
    <3> QED
      BY <3>2 DEF S
  <2>4. SumFunctionOnSet(r, {}) = 0
    BY SumEmpty
  <2>5. SumFunction(r) = r[1]
    <3>1. SumFunction(r) = SumFunctionOnSet(r, {1})
      BY <1>2, <2>1
    <3>2. SumFunctionOnSet(r, {1}) = r[1] + SumFunctionOnSet(r, {})
      BY <2>2, <2>3
    <3> QED
      BY <2>2, <2>4, <3>1, <3>2
  <2> QED
    BY <1>4, <2>2, <2>5, EmptySeq
<1> QED
  BY <1>1, <1>3, <1>4

LEMMA BookedFacts ==
    ASSUME Types, NEW k \in Keys
    PROVE  /\ IsFiniteSet(Booked(k)) /\ Booked(k) \subseteq Sessions
           /\ \A s \in Sessions : bytes[s] \in Nat
           /\ SumFunctionOnSet(bytes, Booked(k)) \in Int
<1>1. IsFiniteSet(Booked(k)) /\ Booked(k) \subseteq Sessions
  BY ReadingAssumption, FS_Subset DEF Booked
<1>2. \A s \in Sessions : bytes[s] \in Nat
  BY DEF Types, ChargeTypes
<1>3. \A s \in Booked(k) : bytes[s] \in Int
  BY <1>1, <1>2
<1> QED
  BY <1>1, <1>2, <1>3, SumType

\* A step of the serving part, and the way out of it.
LEMMA ServingStep ==
    ASSUME Types, TermPoints \subseteq Serving,
           NEW s \in Sessions, Step(s), ~ Close(s)
    PROVE  /\ pc[s] \in Serving /\ rows' = rows
           /\ \/ pc'[s] \in Serving \cup {"lock"} /\ account' = account
              \/ /\ pc'[s] = "leave"
                 /\ account' = [account EXCEPT ![s] = "lost"]
<1> DEFINE On == pc'[s] \in Serving \cup {"lock"} /\ account' = account
           Out == /\ pc'[s] = "leave"
                  /\ account' = [account EXCEPT ![s] = "lost"]
<1>1. ASSUME NEW p \in Points, Return(s, p) PROVE pc'[s] = p
  BY <1>1 DEF Types, LocalTypes, Return
<1>2. ASSUME Resume(s) PROVE pc'[s] \in Serving
  <2>1. CASE Return(s, "command")
    BY <1>1, <2>1 DEF Points, Serving
  <2>2. CASE ~ Return(s, "command")
    BY <1>2, <2>2 DEF Types, LocalTypes, Resume, Serving
  <2> QED
    BY <2>1, <2>2
<1>3. ASSUME NEW name \in Names, NEW o \in Outcomes, NEW admitted \in BOOLEAN,
             cmdauthinfo(s, name, o, admitted)
      PROVE  pc[s] \in Serving /\ rows' = rows /\ On
  BY <1>3 DEF cmdauthinfo, MayGoOn, Serving, books
<1>4. ASSUME NEW c \in {"article", "xover"}, NEW reply \in Replies(s),
             Command(s, c, reply)
      PROVE  pc[s] \in Serving /\ rows' = rows /\ On
  BY <1>4 DEF Command, MayGoOn, Types, LocalTypes, Serving, books
<1>5. ASSUME NEW reply \in Replies(s), ReadStatus(s, reply)
      PROVE  pc[s] \in Serving /\ rows' = rows /\ On
  <2>1. pc[s] \in Serving /\ UNCHANGED <<rows, account>>
    BY <1>5 DEF ReadStatus, books, Serving
  <2>2. CASE Return(s, "command")
    BY <1>1, <2>1, <2>2 DEF Points, Serving
  <2>3. CASE ~ Return(s, "command")
    <3>1. pc' = pc \/ pc' = [pc EXCEPT ![s] = "body"]
      BY <1>5, <2>3 DEF ReadStatus
    <3> QED
      BY <2>1, <3>1 DEF Types, LocalTypes, Serving
  <2> QED
    BY <2>2, <2>3
<1>6. ASSUME NEW n \in Pieces[s], ReadPiece(s, n)
      PROVE  pc[s] \in Serving /\ rows' = rows /\ On
  BY <1>6 DEF ReadPiece, Types, LocalTypes, Serving, books
<1>7. CASE Charge(s) \/ StoreLeft(s)
  <2>1. pc[s] \in Serving /\ UNCHANGED <<rows, account>>
    BY <1>7 DEF Charge, StoreLeft, books, Serving
  <2>2. CASE ~ Resume(s)
    <3>1. pc' = [pc EXCEPT ![s] = "store"]
      BY <1>7, <2>2 DEF Charge, StoreLeft
    <3> QED
      BY <2>1, <3>1 DEF Types, LocalTypes, Serving
  <2> QED
    BY <1>2, <2>1, <2>2
<1>8. CASE (\E failed \in BOOLEAN : ServerDown(s, failed)) \/ WriteFails(s)
  <2>1. pc[s] \in Serving /\ UNCHANGED <<rows, account>>
    BY <1>8 DEF ServerDown, WriteFails, books, Serving
  <2>2. Return(s, "ended") \/ Return(s, "command")
    BY <1>8 DEF ServerDown, WriteFails
  <2> QED
    BY <1>1, <2>1, <2>2 DEF Points, Serving
<1>9. CASE Leave(s) \/ Term(s) \/ Die(s)
  <2>1. pc[s] \in Serving /\ rows' = rows
    BY <1>9 DEF Leave, Term, Die, OpenBooks, Serving
  <2>2. \/ Return(s, "lock") /\ account' = account
        \/ /\ Return(s, "leave")
           /\ account' = [account EXCEPT ![s] = "lost"]
    BY <1>9 DEF Leave, Term, Die, OpenBooks
  <2>3. "lock" \in Points /\ "leave" \in Points
    BY DEF Points, Closing
  <2> QED
    BY <1>1, <2>1, <2>2, <2>3
<1> QED
  BY <1>3, <1>4, <1>5, <1>6, <1>7, <1>8, <1>9 DEF Step, Advance, Read

LEMMA ServingAccounts ==
    ASSUME Types, TermPoints \subseteq Serving, Accounts,
           NEW s \in Sessions, Step(s), ~ Close(s)
    PROVE  Accounts'
<1>1. /\ pc[s] \in Serving /\ rows' = rows
      /\ \/ pc'[s] \in Serving \cup {"lock"} /\ account' = account
         \/ pc'[s] = "leave" /\ account' = [account EXCEPT ![s] = "lost"]
  BY ServingStep
<1>2. ASSUME NEW t \in Sessions, t # s
      PROVE  /\ pc'[t] = pc[t] /\ Login(t)' = Login(t)
             /\ bytes'[t] = bytes[t] /\ account'[t] = account[t]
  <2>1. pc'[t] = pc[t] /\ Login(t)' = Login(t) /\ bytes'[t] = bytes[t]
    BY <1>2, ClientElsewhere, DialogueElsewhere DEF Login
  <2>2. account'[t] = account[t]
    BY <1>1, <1>2 DEF Types, BookTypes
  <2> QED
    BY <2>1, <2>2
<1>3. account[s] = "open"
  BY <1>1 DEF Accounts, Paid
<1>4. account'[s] = account[s] \/ account'[s] = "lost"
  BY <1>1 DEF Types, BookTypes
<1>5. Paid(s)'
  BY <1>1, <1>3 DEF Paid, Types, BookTypes, Serving
<1>6. ASSUME NEW t \in Sessions, t # s PROVE Paid(t)'
  BY <1>1, <1>2, <1>6 DEF Accounts, Paid
<1>7. ASSUME NEW k \in Keys
      PROVE  SumFunction(rows'[k]) = SumFunctionOnSet(bytes', Booked(k)')
  <2>1. Booked(k)' = Booked(k)
    BY <1>2, <1>3, <1>4 DEF Booked
  <2>2. \A t \in Booked(k) : bytes'[t] = bytes[t]
    BY <1>2, <1>3 DEF Booked
  <2>3. SumFunctionOnSet(bytes', Booked(k)) = SumFunctionOnSet(bytes, Booked(k))
    BY <2>2, BookedFacts, SumSame
  <2> QED
    BY <1>1, <2>1, <2>3 DEF Accounts, Balanced
<1> QED
  BY <1>5, <1>6, <1>7 DEF Accounts, Balanced

\* The row written is what it was and the bytes of the session.
LEMMA RowWritten ==
    ASSUME Types, Locked, Accounts, NEW s \in Sessions, WriteRow(s)
    PROVE  /\ \A k \in Keys : k # Login(s) => rows'[k] = rows[k]
           /\ SumFunction(rows'[Login(s)]) =
                 SumFunction(rows[Login(s)]) + bytes[s]
<1> DEFINE k == Login(s)
           n == bytes[s]
<1>1. k \in Keys /\ n \in Nat /\ rows[k] \in Seq(Nat) /\ Len(rows[k]) <= 1
  BY ConstantFacts DEF Types, ClientTypes, ChargeTypes, BookTypes, Locked,
                       OneRow, Login
<1>2. rows \in [Keys -> Seq(Nat)]
  BY DEF Types, BookTypes
<1>a. ASSUME NEW r \in Seq(Nat), Len(r) = 1, r # <<>>
      PROVE  SumFunction(r) = r[1]
  <2>1. Len(r) <= 1
    BY <1>a
  <2> QED
    BY <1>a, <2>1, OneRowSum
<1>3. CASE pc[s] = "insert"
  <2>1. rows' = Insert(k, n) /\ rows[k] = <<>>
    BY <1>3 DEF WriteRow, Locked
  <2>2. rows'[k] = Append(<<>>, n)
    BY <1>1, <1>2, <2>1 DEF Insert
  <2>3. /\ Append(<<>>, n) \in Seq(Nat) /\ Len(Append(<<>>, n)) = 1
        /\ Append(<<>>, n)[1] = n /\ Append(<<>>, n) # <<>>
    BY <1>1, EmptySeq, AppendProperties
  <2>4. SumFunction(rows'[k]) = n
    BY <1>a, <2>2, <2>3
  <2>5. SumFunction(rows[k]) = 0
    BY <1>1, <2>1, OneRowSum
  <2>6. \A j \in Keys : j # k => rows'[j] = rows[j]
    BY <1>2, <2>1 DEF Insert
  <2> QED
    BY <1>1, <2>4, <2>5, <2>6
<1>4. CASE pc[s] = "update"
  <2> DEFINE f == [i \in DOMAIN rows[k] |-> rows[k][i] + n]
  <2>1. rows' = Update(k, n)
    BY <1>4 DEF WriteRow
  <2>2. rows'[k] = f /\ \A j \in Keys : j # k => rows'[j] = rows[j]
    BY <1>1, <1>2, <2>1 DEF Update
  <2>3. Len(rows[k]) = 1 /\ rows[k][1] \in Nat
                 /\ SumFunction(rows[k]) = rows[k][1]
    BY <1>1, <1>4, OneRowSum DEF Accounts, Paid
  <2>4. DOMAIN rows[k] = 1 .. 1
    BY <1>1, <2>3, LenProperties
  <2>5. f \in Seq(Nat) /\ Len(f) = 1 /\ f[1] = rows[k][1] + n /\ f # <<>>
    <3>1. f = [i \in 1 .. 1 |-> rows[k][1] + n]
      BY <2>4
    <3>2. rows[k][1] + n \in Nat
      BY <1>1, <2>3
    <3>3. f \in Seq(Nat)
      BY <3>1, <3>2, IsASeq
    <3>4. DOMAIN f = 1 .. 1 /\ f[1] = rows[k][1] + n
      BY <3>1
    <3>5. Len(f) = 1
      BY <3>3, <3>4, LenProperties
    <3> QED
      BY <3>3, <3>4, <3>5, EmptySeq
  <2> HIDE DEF f
  <2>6. SumFunction(f) = f[1]
    BY <1>a, <2>5
  <2> QED
    BY <2>2, <2>3, <2>5, <2>6
<1> QED
  BY <1>3, <1>4 DEF WriteRow

LEMMA CloseAccounts ==
    ASSUME Types, Locked, Accounts, NEW s \in Sessions, Close(s)
    PROVE  Accounts'
<1>1. /\ bytes' = bytes
      /\ \A t \in Sessions : Login(t)' = Login(t) /\ Login(t) \in Keys
  <2>1. UNCHANGED <<bytes, username>>
    BY DEF Close, SpinEnds, SelectRow, SelectFails, WriteRow, WriteFailed,
           Unlock, FreeClient, BooksOnly, client
  <2> QED
    BY <2>1, ConstantFacts DEF Types, ClientTypes, Login
<1>2. ASSUME NEW t \in Sessions, t # s PROVE pc'[t] = pc[t]
  BY <1>2, DialogueElsewhere DEF Step, Advance
<1>3. Paid(s) /\ pc[s] \in Points /\ Balanced
  BY DEF Accounts, Types, LocalTypes
<1>4. account \in [Sessions -> {"open", "booked", "twice", "lost"}]
  BY DEF Types, BookTypes
<1>5. ASSUME UNCHANGED <<rows, account>>, Paid(s)' PROVE Accounts'
  <2>1. ASSUME NEW t \in Sessions, t # s PROVE Paid(t)'
    BY <1>1, <1>2, <1>5, <2>1 DEF Accounts, Paid
  <2>2. \A k \in Keys : Booked(k)' = Booked(k)
    BY <1>1, <1>5 DEF Booked
  <2> QED
    BY <1>1, <1>3, <1>5, <2>1, <2>2 DEF Accounts, Balanced
<1>6. ASSUME rows' = rows, account' = [account EXCEPT ![s] = "lost"],
             account[s] = "open", pc'[s] \in {"unlock", "leave"}
      PROVE  Accounts'
  <2>1. ASSUME NEW t \in Sessions, t # s PROVE Paid(t)'
    BY <1>1, <1>2, <1>4, <1>6, <2>1 DEF Accounts, Paid
  <2>2. Paid(s)'
    BY <1>4, <1>6 DEF Paid, Serving
  <2>3. \A k \in Keys : Booked(k)' = Booked(k)
    BY <1>1, <1>4, <1>6 DEF Booked
  <2> QED
    BY <1>1, <1>3, <1>6, <2>1, <2>2, <2>3 DEF Accounts, Balanced
<1>7. CASE SpinEnds(s)
  <2>1. UNCHANGED <<rows, account>> /\ pc[s] = "lock" /\ pc'[s] = "take"
    BY <1>7 DEF SpinEnds, books, Goto, Types, LocalTypes
  <2>2. Paid(s)'
    BY <1>3, <2>1 DEF Paid
  <2> QED
    BY <1>5, <2>1, <2>2
<1>8. CASE SelectRow(s)
  <2>1. /\ UNCHANGED <<rows, account>> /\ pc[s] = "take"
        /\ pc'[s] \in {"insert", "update"}
        /\ pc'[s] = "update" => rows[Login(s)] # <<>>
    BY <1>8 DEF SelectRow, Goto, Types, LocalTypes
  <2>2. Paid(s)'
    BY <1>1, <1>3, <2>1 DEF Paid
  <2> QED
    BY <1>5, <2>1, <2>2
<1>9. CASE SelectFails(s)
  <2>1. /\ rows' = rows /\ account' = [account EXCEPT ![s] = "lost"]
        /\ pc[s] = "take" /\ pc'[s] = "leave"
    BY <1>9 DEF SelectFails, BooksOnly, Goto, Types, LocalTypes
  <2> QED
    BY <1>3, <1>6, <2>1 DEF Paid
<1>10. CASE WriteFailed(s)
  <2>1. /\ rows' = rows /\ account' = [account EXCEPT ![s] = "lost"]
        /\ pc[s] \in {"insert", "update"} /\ pc'[s] = "unlock"
    BY <1>10 DEF WriteFailed, Goto, Types, LocalTypes
  <2> QED
    BY <1>3, <1>6, <2>1 DEF Paid
<1>11. CASE Unlock(s)
  <2>1. UNCHANGED <<rows, account>> /\ pc[s] = "unlock" /\ pc'[s] = "leave"
    BY <1>11 DEF Unlock, Goto, Types, LocalTypes
  <2>2. Paid(s)'
    BY <1>3, <2>1 DEF Paid, Serving
  <2> QED
    BY <1>5, <2>1, <2>2
<1>12. CASE FreeClient(s)
  <2>1. UNCHANGED <<rows, account>> /\ pc[s] = "leave" /\ pc'[s] = "gone"
    BY <1>12 DEF FreeClient, books, Goto, Types, LocalTypes
  <2>2. Paid(s)'
    BY <1>3, <2>1 DEF Paid, Serving
  <2> QED
    BY <1>5, <2>1, <2>2
<1>13. CASE WriteRow(s)
  <2>1. /\ pc[s] \in {"insert", "update"} /\ pc'[s] = "unlock"
        /\ account[s] = "open"
        /\ account' = [account EXCEPT ![s] = "booked"]
    BY <1>3, <1>4, <1>13 DEF WriteRow, Goto, Types, LocalTypes, Paid
  <2>2. /\ \A k \in Keys : k # Login(s) => rows'[k] = rows[k]
        /\ SumFunction(rows'[Login(s)]) =
              SumFunction(rows[Login(s)]) + bytes[s]
    BY <1>13, RowWritten
  <2>3. Paid(s)'
    BY <1>4, <2>1 DEF Paid, Serving
  <2>4. ASSUME NEW t \in Sessions, t # s PROVE Paid(t)'
    <3>1. pc[t] # "update"
      BY <2>1, <2>4 DEF Locked, Booking
    <3> QED
      BY <1>1, <1>2, <1>4, <2>1, <2>4, <3>1 DEF Accounts, Paid
  <2>5. ASSUME NEW k \in Keys
        PROVE  SumFunction(rows'[k]) = SumFunctionOnSet(bytes, Booked(k)')
    <3>1. CASE k # Login(s)
      <4>1. Booked(k)' = Booked(k)
        BY <1>1, <1>4, <2>1, <3>1 DEF Booked
      <4> QED
        BY <1>3, <2>2, <3>1, <4>1 DEF Balanced
    <3>2. CASE k = Login(s)
      <4>1. Booked(k)' = Booked(k) \cup {s} /\ s \notin Booked(k)
        BY <1>1, <1>4, <2>1, <3>2 DEF Booked
      <4>2. /\ IsFiniteSet(Booked(k))
            /\ \A t \in Booked(k) \cup {s} : bytes[t] \in Int
            /\ SumFunctionOnSet(bytes, Booked(k)) \in Int /\ bytes[s] \in Int
        BY BookedFacts
      <4>3. SumFunctionOnSet(bytes, Booked(k) \cup {s}) =
              bytes[s] + SumFunctionOnSet(bytes, Booked(k))
        BY <4>1, <4>2, SumAdd
      <4>4. SumFunction(rows[k]) = SumFunctionOnSet(bytes, Booked(k))
        BY <1>3 DEF Balanced
      <4> QED
        BY <2>2, <3>2, <4>1, <4>2, <4>3, <4>4
    <3> QED
      BY <3>1, <3>2
  <2> QED
    BY <1>1, <2>3, <2>4, <2>5 DEF Accounts, Balanced
<1> QED
  BY <1>7, <1>8, <1>9, <1>10, <1>11, <1>12, <1>13 DEF Close

LEMMA InitAccounts == Init => Accounts
<1> SUFFICES ASSUME Init PROVE Accounts
  OBVIOUS
<1>1. \A s \in Sessions : Paid(s)
  BY DEF Init, Paid, Serving
<1>2. ASSUME NEW k \in Keys
      PROVE  SumFunction(rows[k]) = SumFunctionOnSet(bytes, Booked(k))
  <2>1. rows[k] = <<>> /\ Booked(k) = {}
    BY DEF Init, Booked
  <2>2. <<>> \in Seq(Nat) /\ Len(<<>>) <= 1
    BY EmptySeq
  <2>3. SumFunction(<<>>) = 0
    BY <2>2, OneRowSum
  <2>4. SumFunctionOnSet(bytes, {}) = 0
    BY SumEmpty
  <2> QED
    BY <2>1, <2>3, <2>4
<1> QED
  BY <1>1, <1>2 DEF Accounts, Balanced

LEMMA NextAccounts ==
    ASSUME TermPoints \subseteq Serving
    PROVE  Types /\ Locked /\ Accounts /\ [Next]_vars => Accounts'
<1> SUFFICES ASSUME Types, Locked, Accounts, [Next]_vars PROVE Accounts'
  OBVIOUS
<1>1. CASE UNCHANGED vars
  BY <1>1 DEF vars, client, books, Accounts, Paid, Balanced, Booked, Login
<1>2. ASSUME NEW s \in Sessions, Step(s) PROVE Accounts'
  BY <1>2, CloseAccounts, ServingAccounts
<1> QED
  BY <1>1, <1>2, NextIsStep

\* Every byte read is booked once: what the table says of a login is the sum of
\* the bytes of the sessions that ended under it, whatever failed, if no two
\* children are between the test and the store of dllock and none is told to
\* end while it is ending (close_child in client.c, auth/daylimits.c).
THEOREM ReadingBooksOnce ==
    ASSUME "race" \notin Faults, TermPoints \subseteq Serving
    PROVE  Spec => []BookedOnce
<1>1. Types /\ Locked /\ Accounts /\ [Next]_vars
        => Types' /\ Locked' /\ Accounts'
  BY NextTypes, NextLocked, NextAccounts
<1>2. Locked /\ Accounts /\ Types => BookedOnce
  <2> SUFFICES ASSUME Locked, Accounts, Types PROVE BookedOnce
    OBVIOUS
  <2>1. \A s \in Sessions : pc[s] \in Points /\ Paid(s)
    BY DEF Types, LocalTypes, Accounts
  <2>2. \A s \in Sessions : account[s] # "twice"
    BY <2>1 DEF Paid, Points, Closing
  <2>3. \A s \in Sessions : pc[s] = "gone" => account[s] # "open"
    BY <2>1 DEF Paid
  <2> QED
    BY <2>2, <2>3 DEF Locked, Accounts, Balanced, BookedOnce
<1> QED
  BY <1>1, <1>2, InitTypes, InitLocked, InitAccounts, PTL DEF Spec

-----------------------------------------------------------------------------
(* The last five bytes.                                                    *)

\* The last five bytes when k bytes of article a have come.
Window(a, k) == LastFive(checkbuf_init, SubSeq(a, 1, k))

LEMMA PieceFacts ==
    ASSUME NEW a \in Seq(Byte), NEW k \in 0 .. Len(a), NEW n \in Nat \ {0},
           n <= Len(SubSeq(a, k + 1, Len(a)))
    PROVE  /\ k + n \in 0 .. Len(a)
           /\ SubSeq(SubSeq(a, k + 1, Len(a)), 1, n) = SubSeq(a, k + 1, k + n)
           /\ SubSeq(SubSeq(a, k + 1, Len(a)), n + 1,
                     Len(SubSeq(a, k + 1, Len(a))))
                = SubSeq(a, k + n + 1, Len(a))
<1>1. Len(a) \in Nat /\ k \in Nat /\ k <= Len(a)
  BY LenProperties
<1>2. /\ Len(SubSeq(a, k + 1, Len(a))) = Len(a) - k
      /\ \A i \in 1 .. Len(a) - k : SubSeq(a, k + 1, Len(a))[i] = a[k + i]
      /\ SubSeq(a, k + 1, Len(a)) \in Seq(Byte)
  BY <1>1, SubSeqProperties
<1>3. k + n \in 0 .. Len(a)
  BY <1>1, <1>2
<1> DEFINE w == SubSeq(a, k + 1, Len(a))
<1> HIDE DEF w
<1>4. SubSeq(w, 1, n) = SubSeq(a, k + 1, k + n)
  <2>1. /\ Len(SubSeq(w, 1, n)) = n /\ SubSeq(w, 1, n) \in Seq(Byte)
        /\ \A i \in 1 .. n : SubSeq(w, 1, n)[i] = w[i]
    BY <1>1, <1>2, SubSeqProperties DEF w
  <2>2. /\ Len(SubSeq(a, k + 1, k + n)) = n
        /\ SubSeq(a, k + 1, k + n) \in Seq(Byte)
        /\ \A i \in 1 .. n : SubSeq(a, k + 1, k + n)[i] = a[k + i]
    BY <1>1, <1>3, SubSeqProperties
  <2> QED
    BY <1>1, <1>2, <1>3, <2>1, <2>2, SeqEqual DEF w
<1>5. SubSeq(w, n + 1, Len(w)) = SubSeq(a, k + n + 1, Len(a))
  <2>1. /\ Len(SubSeq(w, n + 1, Len(w))) = Len(w) - n
        /\ SubSeq(w, n + 1, Len(w)) \in Seq(Byte)
        /\ \A i \in 1 .. Len(w) - n : SubSeq(w, n + 1, Len(w))[i] = w[n + i]
    BY <1>1, <1>2, SubSeqProperties DEF w
  <2>2. /\ Len(SubSeq(a, k + n + 1, Len(a))) = Len(a) - (k + n)
        /\ SubSeq(a, k + n + 1, Len(a)) \in Seq(Byte)
        /\ \A i \in 1 .. Len(a) - (k + n) :
              SubSeq(a, k + n + 1, Len(a))[i] = a[k + n + i]
    BY <1>1, <1>3, SubSeqProperties
  <2>3. Len(w) = Len(a) - k /\ Len(w) - n = Len(a) - (k + n)
    BY <1>1, <1>2 DEF w
  <2>4. ASSUME NEW i \in 1 .. Len(w) - n PROVE w[n + i] = a[k + n + i]
    <3>1. n + i \in 1 .. Len(a) - k
      BY <1>1, <2>3
    <3>2. w[n + i] = a[k + (n + i)]
      BY <1>2, <3>1 DEF w
    <3>3. k + (n + i) = k + n + i
      BY <1>1
    <3> QED
      BY <3>2, <3>3
  <2> QED
    BY <2>1, <2>2, <2>3, <2>4, SeqEqual
<1> QED
  BY <1>3, <1>4, <1>5 DEF w

\* What LastFive makes of the last five of the first k bytes and the next n is
\* the last five of the first k + n; with five or more, of anything.
LEMMA WindowStep ==
    ASSUME NEW a \in Seq(Byte), NEW k \in 0 .. Len(a), NEW n \in Nat,
           k + n <= Len(a)
    PROVE  /\ LastFive(Window(a, k), SubSeq(a, k + 1, k + n))
                = Window(a, k + n)
           /\ n >= 5 => \A buf : LastFive(buf, SubSeq(a, k + 1, k + n))
                                     = Window(a, k + n)
<1>1. Len(a) \in Nat /\ k \in Nat /\ k <= Len(a)
  BY LenProperties
<1> DEFINE p == SubSeq(a, 1, k)
           q == SubSeq(a, k + 1, k + n)
           r == SubSeq(a, 1, k + n)
<1>2. Len(p) = k /\ \A i \in 1 .. k : p[i] = a[i]
  BY <1>1, SubSeqProperties
<1>3. Len(q) = n /\ \A i \in 1 .. n : q[i] = a[k + i]
  BY <1>1, SubSeqProperties
<1>4. Len(r) = k + n /\ \A i \in 1 .. k + n : r[i] = a[i]
  BY <1>1, SubSeqProperties
<1> HIDE DEF p, q, r
<1>5. ASSUME NEW j \in 1 .. 5, j > 5 - n
      PROVE  /\ \A buf : LastFive(buf, q)[j] = a[k + (j - 5 + n)]
             /\ LastFive(checkbuf_init, r)[j] = a[k + (j - 5 + n)]
  <2>1. j - 5 + n \in 1 .. n /\ j - 5 + (k + n) \in 1 .. k + n
    BY <1>1, <1>5
  <2>2. j - 5 + (k + n) = k + (j - 5 + n)
    BY <1>1
  <2>3. q[j - 5 + n] = a[k + (j - 5 + n)]
    BY <1>3, <2>1
  <2>4. r[j - 5 + (k + n)] = a[k + (j - 5 + n)]
    BY <1>4, <2>1, <2>2
  <2>5. \A buf : LastFive(buf, q)[j] = q[j - 5 + n]
    BY <1>3, <1>5 DEF LastFive
  <2>6. LastFive(checkbuf_init, r)[j] = r[j - 5 + (k + n)]
    BY <1>1, <1>4, <1>5 DEF LastFive
  <2> QED
    BY <2>3, <2>4, <2>5, <2>6
<1>6. ASSUME NEW j \in 1 .. 5, j <= 5 - n
      PROVE  LastFive(LastFive(checkbuf_init, p), q)[j]
                 = LastFive(checkbuf_init, r)[j]
  <2>1. j + n \in 1 .. 5
    BY <1>6
  <2>2. LastFive(LastFive(checkbuf_init, p), q)[j]
            = LastFive(checkbuf_init, p)[j + n]
    BY <1>3, <1>6 DEF LastFive
  <2>3. CASE j + n <= 5 - k
    BY <1>1, <1>2, <1>4, <1>6, <2>1, <2>2, <2>3 DEF LastFive
  <2>4. CASE ~ (j + n <= 5 - k)
    <3>1. /\ j + n - 5 + k \in 1 .. k /\ j - 5 + (k + n) \in 1 .. k + n
          /\ j - 5 + (k + n) = j + n - 5 + k
          /\ ~ (j <= 5 - (k + n))
      BY <1>1, <2>1, <2>4
    <3>2. LastFive(checkbuf_init, p)[j + n] = p[j + n - 5 + k]
      BY <1>2, <2>1, <2>4 DEF LastFive
    <3>3. LastFive(checkbuf_init, r)[j] = r[j - 5 + (k + n)]
      BY <1>4, <3>1 DEF LastFive
    <3>4. p[j + n - 5 + k] = a[j + n - 5 + k]
      BY <1>2, <3>1
    <3>5. r[j - 5 + (k + n)] = a[j + n - 5 + k]
      BY <1>4, <3>1
    <3> QED
      BY <2>2, <3>2, <3>3, <3>4, <3>5
  <2> QED
    BY <2>3, <2>4
<1>7. \A buf, u : LastFive(buf, u) = [j \in 1 .. 5 |-> LastFive(buf, u)[j]]
  BY DEF LastFive
<1>8. LastFive(LastFive(checkbuf_init, p), q) = LastFive(checkbuf_init, r)
  <2>1. \A j \in 1 .. 5 : LastFive(LastFive(checkbuf_init, p), q)[j]
                              = LastFive(checkbuf_init, r)[j]
    BY <1>5, <1>6
  <2> QED
    BY <2>1, <1>7
<1>9. ASSUME n >= 5, NEW buf PROVE LastFive(buf, q) = LastFive(checkbuf_init, r)
  <2>1. \A j \in 1 .. 5 : LastFive(buf, q)[j] = LastFive(checkbuf_init, r)[j]
    BY <1>5, <1>9
  <2> QED
    BY <2>1, <1>7
<1> QED
  BY <1>8, <1>9 DEF Window, p, q, r

LEMMA WindowStart == \A a \in Seq(Byte) : Window(a, 0) = checkbuf_init
<1> SUFFICES ASSUME NEW a \in Seq(Byte) PROVE Window(a, 0) = checkbuf_init
  OBVIOUS
<1>1. Len(SubSeq(a, 1, 0)) = 0
  BY LenProperties, SubSeqProperties
<1>2. Window(a, 0) = [j \in 1 .. 5 |-> checkbuf_init[j]]
  BY <1>1 DEF Window, LastFive
<1>3. checkbuf_init = [j \in 1 .. 5 |-> checkbuf_init[j]]
  BY InitChkbuf
<1> QED
  BY <1>2, <1>3

LEMMA ArticleFacts ==
    ASSUME NEW s \in Sessions, NEW a \in ArticlesOf[s]
    PROVE  /\ a \in Seq(Byte) /\ Len(a) \in Nat
           /\ Len(a) > 0
           /\ \A k \in 0 .. Len(a) : Window(a, k) = End <=> k = Len(a)
<1>1. a \in Articles
  BY ReadingAssumption
<1>2. a \in Seq(Byte)
  BY ConstantFacts, SeqMonotonic
<1>3. Len(a) \in Nat
  BY <1>2, LenProperties
<1>4. \A k \in 0 .. Len(a) : Window(a, k) = End <=> k = Len(a)
  <2>1. SUFFICES ASSUME NEW k \in 0 .. Len(a)
                 PROVE  Window(a, k) = End <=> k = Len(a)
    OBVIOUS
  <2> DEFINE p == SubSeq(a, 1, k)
  <2>2. k \in Nat /\ Len(p) = k /\ \A i \in 1 .. k : p[i] = a[i]
    BY <1>2, <1>3, SubSeqProperties
  <2> HIDE DEF p
  <2>3. ASSUME NEW j \in 1 .. 5
        PROVE  Window(a, k)[j] = IF k + j > 5 THEN a[k + j - 5]
                                 ELSE checkbuf_init[k + j]
    <3>1. Window(a, k)[j] = IF j <= 5 - k THEN checkbuf_init[j + k]
                                          ELSE p[j - 5 + k]
      BY <2>2 DEF Window, LastFive, p
    <3>2. CASE k + j > 5
      <4>1. j - 5 + k \in 1 .. k /\ j - 5 + k = k + j - 5 /\ ~ (j <= 5 - k)
        BY <2>2, <3>2
      <4> QED
        BY <2>2, <3>1, <3>2, <4>1
    <3>3. CASE ~ (k + j > 5)
      BY <2>2, <3>1, <3>3
    <3> QED
      BY <3>2, <3>3
  <2>4. (\A j \in 1 .. 5 : End[j] = Window(a, k)[j]) <=> k = Len(a)
    BY <1>1, <2>3, ArticleAssumption DEF checkbuf_init
  <2>5. Window(a, k) = [j \in 1 .. 5 |-> Window(a, k)[j]]
    BY DEF Window, LastFive
  <2>6. End = [j \in 1 .. 5 |-> End[j]]
    BY DEF End
  <2> QED
    BY <2>4, <2>5, <2>6
<1>5. checkbuf_init # End
  BY DEF checkbuf_init, End
<1>6. Len(a) # 0
  BY <1>2, <1>3, <1>4, <1>5, WindowStart
<1> QED
  BY <1>2, <1>3, <1>4, <1>6

-----------------------------------------------------------------------------
(* The loop of passcmd.                                                    *)

Reading3 == {"body", "charge", "store"}

\* k bytes of article a are read.  After a short piece chkbuf is not up to
\* date, and a long one does not look at it.
Reads(s, a, k) ==
    /\ wire[s] = SubSeq(a, k + 1, Len(a))
    /\ ~ stale[s] => chkbuf[s] = Window(a, k)
    /\ more[s] <=> k < Len(a)

Fresh(s) == chkbuf[s] = checkbuf_init /\ more[s] /\ ~ stale[s]

Stream(s) ==
    /\ pc[s] \in {"command", "status"} => Fresh(s)
    /\ pc[s] = "body" => more[s]
    /\ ~ split[s] =>
        /\ pc[s] = "command" => wire[s] = <<>>
        /\ pc[s] = "status" => wire[s] \in Replies(s)
        /\ pc[s] \in Reading3 => \E a \in ArticlesOf[s], k \in Nat :
                                    k <= Len(a) /\ Reads(s, a, k)

Streams == \A s \in Sessions : Stream(s)

LEMMA ReturnStream ==
    ASSUME Types, NEW s \in Sessions, NEW p \in Points, Return(s, p)
    PROVE  Fresh(s)' /\ pc'[s] = p
  BY DEF Types, LocalTypes, BufferTypes, Return, Fresh

LEMMA DisconnectStream ==
    ASSUME Types, NEW s \in Sessions,
           NEW p \in Points \ ({"status"} \cup Reading3),
           Return(s, p), Disconnect(s)
    PROVE  Stream(s)'
<1>1. Fresh(s)' /\ pc'[s] = p
  BY ReturnStream
<1>2. wire'[s] = <<>>
  BY DEF Types, WireTypes, Disconnect
<1>3. pc'[s] # "status" /\ pc'[s] # "body" /\ pc'[s] \notin Reading3
  BY <1>1 DEF Reading3
<1> QED
  BY <1>1, <1>2, <1>3 DEF Stream

LEMMA CommandStream ==
    ASSUME Types, NEW s \in Sessions, Stream(s),
           NEW c \in {"article", "xover"}, NEW reply \in Replies(s),
           Command(s, c, reply)
    PROVE  Stream(s)'
<1>1. pc[s] = "command" /\ pc'[s] = "status"
  BY DEF Command, MayGoOn, Types, LocalTypes
<1>2. Fresh(s)'
  BY <1>1 DEF Command, Stream, Fresh
<1>3. ASSUME ~ split'[s] PROVE wire'[s] \in Replies(s)
  <2>1. wire[s] = <<>>
    BY <1>3 DEF Command, Types, WireTypes
  <2>2. wire'[s] = wire[s] \o reply
    BY DEF Command, Types, WireTypes
  <2>3. reply \in Seq(Byte)
    BY RepliesType
  <2> QED
    BY <2>1, <2>2, <2>3, ConcatEmptySeq
<1>4. pc'[s] \notin Reading3 /\ pc'[s] # "command" /\ pc'[s] # "body"
  BY <1>1 DEF Reading3
<1> QED
  BY <1>2, <1>3, <1>4 DEF Stream

\* The first line of an answer is its first item.
LEMMA FirstLine ==
    ASSUME NEW s \in Sessions, NEW w \in Replies(s)
    PROVE  /\ FirstEnd(w) = 1
           /\ \/ w[1] = "430" /\ AfterLine(w) = <<>>
              \/ w[1] = "220" /\ AfterLine(w) \in ArticlesOf[s]
<1>1. w \in Seq(Byte) /\ Len(w) \in Nat
  BY RepliesType, LenProperties
<1>2. ASSUME Len(w) >= 1, w[1] \in Status PROVE FirstEnd(w) = 1
  <2>1. 1 \in LineEnds(w) /\ \A j \in LineEnds(w) : j \in Nat /\ 1 <= j
    BY <1>1, <1>2 DEF LineEnds
  <2> QED
    BY <2>1 DEF FirstEnd
<1>3. CASE w = <<"430">>
  <2>1. Len(w) = 1 /\ w[1] = "430"
    BY <1>3
  <2>2. FirstEnd(w) = 1
    BY <1>2, <2>1 DEF Status
  <2>3. AfterLine(w) = <<>>
    BY <1>1, <2>1, <2>2, SubSeqProperties, EmptySeq DEF AfterLine
  <2> QED
    BY <2>1, <2>2, <2>3
<1>4. ASSUME NEW a \in ArticlesOf[s], w = <<"220">> \o a
      PROVE  w[1] = "220" /\ FirstEnd(w) = 1 /\ AfterLine(w) = a
  <2>1. a \in Seq(Byte) /\ <<"220">> \in Seq(Byte) /\ Len(a) \in Nat
    BY ArticleFacts DEF Byte, Status
  <2>2. /\ Len(w) = 1 + Len(a) /\ w[1] = "220"
        /\ \A i \in 1 .. Len(a) : w[1 + i] = a[i]
    BY <1>4, <2>1
  <2>3. FirstEnd(w) = 1
    BY <1>2, <2>1, <2>2 DEF Status
  <2>4. /\ AfterLine(w) \in Seq(Byte) /\ Len(AfterLine(w)) = Len(a)
        /\ \A i \in 1 .. Len(a) : AfterLine(w)[i] = w[1 + i]
    BY <1>1, <2>1, <2>2, <2>3, SubSeqProperties DEF AfterLine
  <2> QED
    BY <2>1, <2>2, <2>3, <2>4, SeqEqual
<1> QED
  BY <1>3, <1>4 DEF Replies

LEMMA StatusStream ==
    ASSUME Types, NEW s \in Sessions, Stream(s), NEW reply \in Replies(s),
           ReadStatus(s, reply)
    PROVE  Stream(s)'
<1>1. pc[s] = "status" /\ Fresh(s) /\ split' = split
  BY DEF ReadStatus, Stream
<1>2. ASSUME ~ split[s]
      PROVE  /\ wire[s] \in Replies(s)
             /\ wire[s][FirstEnd(wire[s])] = "430" =>
                    AfterLine(wire[s]) = <<>>
             /\ wire[s][FirstEnd(wire[s])] # "430" =>
                    AfterLine(wire[s]) \in ArticlesOf[s]
  <2>1. wire[s] \in Replies(s)
    BY <1>1, <1>2 DEF Stream
  <2> QED
    BY <2>1, FirstLine
<1> DEFINE line  == wire[s][FirstEnd(wire[s])]
           rest  == AfterLine(wire[s])
           again == /\ line = "430" /\ cmd[s] = "article"
                    /\ tries[s] < NoSuchArticleRetries
<1>3. wire'[s] = IF again THEN rest \o reply ELSE rest
  BY DEF ReadStatus, Types, WireTypes
<1> HIDE DEF line, rest, again
<1>4. CASE again /\ UNCHANGED <<pc, chkbuf, more, stale>>
  <2>1. ~ split[s] => wire'[s] = reply
    <3>1. ~ split[s] => rest = <<>>
      BY <1>2, <1>4 DEF again, line, rest
    <3>2. reply \in Seq(Byte)
      BY RepliesType
    <3> QED
      BY <1>3, <1>4, <3>1, <3>2, ConcatEmptySeq
  <2>2. Fresh(s)' /\ pc'[s] = "status"
    BY <1>1, <1>4 DEF Fresh
  <2> QED
    BY <1>1, <2>1, <2>2 DEF Stream, Reading3
<1>5. CASE line = "430" /\ ~ again /\ Return(s, "command")
  <2>1. Fresh(s)' /\ pc'[s] = "command"
    BY <1>5, ReturnStream DEF Points, Serving
  <2>2. ~ split[s] => wire'[s] = <<>>
    BY <1>2, <1>3, <1>5 DEF line, rest
  <2> QED
    BY <1>1, <2>1, <2>2 DEF Stream, Reading3
<1>6. CASE line # "430" /\ pc' = [pc EXCEPT ![s] = "body"] /\ UNCHANGED locals
  <2>1. pc'[s] = "body" /\ Fresh(s)'
    BY <1>1, <1>6 DEF Types, LocalTypes, Fresh, locals
  <2>2. ASSUME NEW a \in ArticlesOf[s], wire'[s] = a
        PROVE  0 <= Len(a) /\ Reads(s, a, 0)'
    <3>1. a \in Seq(Byte) /\ Len(a) \in Nat /\ Len(a) > 0
      BY ArticleFacts
    <3>2. SubSeq(a, 0 + 1, Len(a)) = a
      <4>1. /\ SubSeq(a, 1, Len(a)) \in Seq(Byte)
            /\ Len(SubSeq(a, 1, Len(a))) = Len(a)
            /\ \A i \in 1 .. Len(a) : SubSeq(a, 1, Len(a))[i] = a[i]
        BY <3>1, SubSeqProperties
      <4> QED
        BY <3>1, <4>1, SeqEqual
    <3>3. Window(a, 0) = checkbuf_init
      BY <3>1, WindowStart
    <3> QED
      BY <2>1, <2>2, <3>1, <3>2, <3>3 DEF Reads, Fresh
  <2>3. ASSUME ~ split'[s]
        PROVE  \E a \in ArticlesOf[s], k \in Nat :
                  k <= Len(a) /\ Reads(s, a, k)'
    <3>1. PICK a \in ArticlesOf[s] : wire'[s] = a
      BY <1>1, <1>2, <1>3, <1>6, <2>3 DEF line, rest, again
    <3>2. 0 <= Len(a) /\ Reads(s, a, 0)'
      BY <2>2, <3>1
    <3> QED
      BY <3>2
  <2> QED
    BY <2>1, <2>3 DEF Stream, Fresh
<1> QED
  BY <1>4, <1>5, <1>6 DEF ReadStatus, line, again

LEMMA PieceStream ==
    ASSUME Types, NEW s \in Sessions, Stream(s), NEW n \in Pieces[s],
           ReadPiece(s, n)
    PROVE  Stream(s)'
<1> DEFINE rcv == SubSeq(wire[s], 1, n)
<1>1. pc[s] = "body" /\ n <= Len(wire[s]) /\ n \in Nat \ {0}
  BY ConstantFacts DEF ReadPiece
<1>2. /\ wire'[s] = SubSeq(wire[s], n + 1, Len(wire[s]))
      /\ more'[s] = ~ checkbuf_isend(chkbuf[s], rcv)
      /\ chkbuf'[s] = Updated(chkbuf[s], rcv)
      /\ stale'[s] = (n < 5) /\ pc'[s] = "charge"
      /\ split'[s] = (split[s] \/ (n < 5 /\ stale[s]))
  BY DEF ReadPiece, Types, WireTypes, LocalTypes, BufferTypes
<1>3. ASSUME ~ split'[s], NEW a \in ArticlesOf[s], NEW k \in Nat, k <= Len(a),
             Reads(s, a, k)
      PROVE  k + n <= Len(a) /\ Reads(s, a, k + n)'
  <2>1. a \in Seq(Byte) /\ Len(a) \in Nat /\ k \in 0 .. Len(a)
    BY <1>3, ArticleFacts
  <2>2. wire[s] = SubSeq(a, k + 1, Len(a))
    BY <1>3 DEF Reads
  <2>3. /\ k + n \in 0 .. Len(a)
        /\ rcv = SubSeq(a, k + 1, k + n)
        /\ wire'[s] = SubSeq(a, k + n + 1, Len(a))
    <3>1. n <= Len(SubSeq(a, k + 1, Len(a)))
      BY <1>1, <2>2
    <3>2. /\ k + n \in 0 .. Len(a)
          /\ SubSeq(SubSeq(a, k + 1, Len(a)), 1, n) = SubSeq(a, k + 1, k + n)
          /\ SubSeq(SubSeq(a, k + 1, Len(a)), n + 1,
                    Len(SubSeq(a, k + 1, Len(a))))
               = SubSeq(a, k + n + 1, Len(a))
      BY <1>1, <2>1, <3>1, PieceFacts
    <3> QED
      BY <1>2, <2>2, <3>2
  <2>4. k + n <= Len(a) /\ Len(rcv) = n
    BY <1>1, <2>1, <2>3, SubSeqProperties
  <2>5. LastFive(chkbuf[s], rcv) = Window(a, k + n)
    <3>1. CASE n >= 5
      <4>1. \A buf : LastFive(buf, SubSeq(a, k + 1, k + n)) = Window(a, k + n)
        BY <1>1, <2>1, <2>4, <3>1, WindowStep
      <4> QED
        BY <2>3, <4>1
    <3>2. CASE n < 5
      <4>1. ~ stale[s]
        BY <1>2, <1>3, <3>2
      <4>2. chkbuf[s] = Window(a, k)
        BY <1>3, <4>1 DEF Reads
      <4> QED
        BY <1>1, <2>1, <2>3, <2>4, <4>2, WindowStep
    <3> QED
      BY <1>1, <3>1, <3>2
  <2>6. more'[s] <=> k + n < Len(a)
    <3>1. more'[s] <=> Window(a, k + n) # End
      BY <1>2, <2>5 DEF checkbuf_isend
    <3>2. Window(a, k + n) = End <=> k + n = Len(a)
      BY <2>3, ArticleFacts
    <3> QED
      BY <1>1, <2>1, <2>4, <3>1, <3>2
  <2>7. ~ stale'[s] => chkbuf'[s] = Window(a, k + n)
    BY <1>2, <2>4, <2>5 DEF Updated
  <2> QED
    BY <2>3, <2>4, <2>6, <2>7 DEF Reads
<1>4. ASSUME ~ split'[s]
      PROVE  \E a \in ArticlesOf[s], k \in Nat :
                k <= Len(a) /\ Reads(s, a, k)'
  <2>1. ~ split[s]
    BY <1>2, <1>4
  <2>2. PICK a \in ArticlesOf[s], k \in Nat : k <= Len(a) /\ Reads(s, a, k)
    BY <1>1, <2>1 DEF Stream, Reading3
  <2>3. k + n <= Len(a) /\ Reads(s, a, k + n)'
    BY <1>3, <1>4, <2>2
  <2>4. k + n \in Nat
    BY <1>1
  <2> QED
    BY <2>3, <2>4
<1> QED
  BY <1>2, <1>4 DEF Stream, Reading3

\* The piece is charged: the loop goes on, or the article is at its end.
LEMMA ResumeStream ==
    ASSUME Types, NEW s \in Sessions, Stream(s), pc[s] \in {"charge", "store"},
           UNCHANGED <<wire, split>>, Resume(s)
    PROVE  Stream(s)'
<1>1. CASE /\ more[s] /\ pc' = [pc EXCEPT ![s] = "body"]
           /\ UNCHANGED <<chkbuf, more, stale>>
  <2>1. pc'[s] = "body" /\ more'[s]
    BY <1>1 DEF Types, LocalTypes
  <2>2. \A a, k : Reads(s, a, k) => Reads(s, a, k)'
    BY <1>1 DEF Reads
  <2> QED
    BY <2>1, <2>2 DEF Stream, Reading3
<1>2. CASE ~ more[s] /\ Return(s, "command")
  <2>1. Fresh(s)' /\ pc'[s] = "command"
    BY <1>2, ReturnStream DEF Points, Serving
  <2>2. ASSUME ~ split[s] PROVE wire[s] = <<>>
    <3>1. PICK a \in ArticlesOf[s], k \in Nat : k <= Len(a) /\ Reads(s, a, k)
      BY <2>2 DEF Stream, Reading3
    <3>2. a \in Seq(Byte) /\ Len(a) \in Nat
      BY ArticleFacts
    <3>3. k = Len(a) /\ wire[s] = SubSeq(a, k + 1, Len(a))
      BY <1>2, <3>1, <3>2 DEF Reads
    <3> QED
      BY <3>2, <3>3, SubSeqProperties, EmptySeq
  <2> QED
    BY <2>1, <2>2 DEF Stream, Reading3
<1> QED
  BY <1>1, <1>2 DEF Resume

LEMMA ChargeStream ==
    ASSUME Types, NEW s \in Sessions, Stream(s), Charge(s) \/ StoreLeft(s)
    PROVE  Stream(s)'
<1>1. pc[s] \in {"charge", "store"} /\ UNCHANGED <<wire, split>>
  BY DEF Charge, StoreLeft
<1>2. CASE Resume(s)
  BY <1>1, <1>2, ResumeStream
<1>3. CASE ~ Resume(s)
  <2>1. /\ pc' = [pc EXCEPT ![s] = "store"]
        /\ UNCHANGED <<chkbuf, more, stale>>
    BY <1>3 DEF Charge, StoreLeft
  <2>2. pc'[s] = "store"
    BY <2>1 DEF Types, LocalTypes
  <2>3. \A a, k : Reads(s, a, k) => Reads(s, a, k)'
    BY <1>1, <2>1 DEF Reads
  <2> QED
    BY <1>1, <2>2, <2>3 DEF Stream, Reading3
<1> QED
  BY <1>2, <1>3

LEMMA EndStream ==
    ASSUME Types, NEW s \in Sessions, Stream(s),
           \/ \E failed \in BOOLEAN : ServerDown(s, failed)
           \/ WriteFails(s) \/ Leave(s) \/ Term(s) \/ Die(s)
    PROVE  Stream(s)'
<1>1. Disconnect(s)
  BY DEF ServerDown, WriteFails, Leave, Term, Die
<1>2. \E p \in Points \ ({"status"} \cup Reading3) : Return(s, p)
  BY DEF ServerDown, WriteFails, Leave, Term, Die, OpenBooks, Points, Serving,
         Closing, Reading3
<1> QED
  BY <1>1, <1>2, DisconnectStream

LEMMA CloseStream ==
    ASSUME Types, NEW s \in Sessions, Close(s) PROVE Stream(s)'
<1>1. \E p \in Closing \cup {"gone"} : pc' = [pc EXCEPT ![s] = p]
  BY DEF Close, SpinEnds, SelectRow, SelectFails, WriteRow, WriteFailed,
         Unlock, FreeClient, Goto, Closing
<1>2. pc'[s] \in Closing \cup {"gone"}
  BY <1>1 DEF Types, LocalTypes
<1> QED
  BY <1>2 DEF Stream, Reading3, Closing

LEMMA AuthinfoStream ==
    ASSUME Types, NEW s \in Sessions, Stream(s), NEW name \in Names,
           NEW o \in Outcomes, NEW admitted \in BOOLEAN,
           cmdauthinfo(s, name, o, admitted)
    PROVE  Stream(s)'
<1>1. pc[s] = "command" /\ UNCHANGED <<pc, wire, split, chkbuf, more, stale>>
  BY DEF cmdauthinfo, MayGoOn, locals
<1> QED
  BY <1>1 DEF Stream, Fresh, Reading3

LEMMA InitStreams == Init => Streams
  BY DEF Init, Streams, Stream, Fresh, Reading3

LEMMA NextStreams == Types /\ Streams /\ [Next]_vars => Streams'
<1> SUFFICES ASSUME Types, Streams, [Next]_vars PROVE Streams'
  OBVIOUS
<1> DEFINE Kept(s) == UNCHANGED <<pc[s], wire[s], split[s], chkbuf[s], more[s],
                                  stale[s]>>
<1>1. ASSUME NEW s \in Sessions, Kept(s) PROVE Stream(s)'
  <2>1. \A a, k : Reads(s, a, k) => Reads(s, a, k)'
    BY <1>1 DEF Reads
  <2>2. Stream(s)
    BY DEF Streams
  <2> QED
    BY <1>1, <2>1, <2>2 DEF Stream, Fresh
<1>2. CASE UNCHANGED vars
  BY <1>1, <1>2 DEF vars, locals, Streams
<1>3. ASSUME NEW s \in Sessions, Step(s) PROVE Streams'
  <2>1. Stream(s)'
    BY <1>3, AuthinfoStream, CommandStream, StatusStream, PieceStream,
       ChargeStream, EndStream, CloseStream
    DEF Streams, Step, Advance, Read
  <2>2. ASSUME NEW t \in Sessions, t # s PROVE Stream(t)'
    BY <1>1, <1>3, <2>2, DialogueElsewhere
  <2> QED
    BY <2>1, <2>2 DEF Streams
<1> QED
  BY <1>2, <1>3, NextIsStep

\* The end of an article is found wherever the reads cut it, for articles of
\* any length and reads of any sizes, as long as no two reads in a row bring
\* less than five bytes (passcmd in reader.c, checkbuf_isend in common.c).
THEOREM ReadingEndsArticles == Spec => []EndOfArticleUnlessSplit
<1>1. Streams => EndOfArticleUnlessSplit
  <2> SUFFICES ASSUME Streams, NEW s \in Sessions, ~ split[s]
               PROVE  EndFound(s)
    BY DEF EndOfArticleUnlessSplit
  <2>1. Stream(s)
    BY DEF Streams
  <2>2. ASSUME pc[s] = "body" PROVE wire[s] # <<>>
    <3>1. PICK a \in ArticlesOf[s], k \in Nat : k <= Len(a) /\ Reads(s, a, k)
      BY <2>1, <2>2 DEF Stream, Reading3
    <3>2. a \in Seq(Byte) /\ Len(a) \in Nat
      BY ArticleFacts
    <3>3. k < Len(a) /\ wire[s] = SubSeq(a, k + 1, Len(a))
      BY <2>1, <2>2, <3>1 DEF Stream, Reads
    <3>4. Len(wire[s]) = Len(a) - k
      BY <3>2, <3>3, SubSeqProperties
    <3>5. Len(wire[s]) # 0
      BY <3>2, <3>3, <3>4
    <3> QED
      BY <3>5, EmptySeq
  <2> QED
    BY <2>1, <2>2 DEF Stream, EndFound
<1>2. Spec => [](Types /\ Streams)
  BY InitTypes, NextTypes, InitStreams, NextStreams, PTL DEF Spec
<1> QED
  BY <1>1, <1>2, PTL

-----------------------------------------------------------------------------
(* Quotas.                                                                 *)

LEMMA LongestFacts ==
    ASSUME NEW s \in Sessions
    PROVE  /\ longest[s] \in Nat
           /\ \A a \in ArticlesOf[s] : Len(a) \in Nat /\ Len(a) <= longest[s]
<1> DEFINE A == ArticlesOf[s]
           L == {Len(a) : a \in A}
           f == [a \in A |-> Len(a)]
<1>1. \A a \in A : Len(a) \in Nat
  BY ArticleFacts
<1>2. IsFiniteSet(A)
  BY ReadingAssumption, FS_Subset
<1>3. IsFiniteSet(L)
  <2>1. f \in Surjection(A, L)
    BY DEF Surjection
  <2> HIDE DEF A, L, f
  <2> QED
    BY <1>2, <2>1, FS_Surjection
<1>4. IsFiniteSet({0} \cup L) /\ {0} \cup L \in SUBSET Int
  <2>1. L \in SUBSET Int
    BY <1>1
  <2> HIDE DEF L
  <2>2. IsFiniteSet(L \cup {0}) /\ {0} \cup L = L \cup {0}
    BY <1>3, FS_AddElement
  <2> QED
    BY <2>1, <2>2
<1>5. PICK x \in {0} \cup L : \A y \in {0} \cup L : x >= y
  <2> DEFINE S == {0} \cup L
  <2>1. S # {} /\ S \in SUBSET Int /\ IsFiniteSet(S)
    BY <1>4
  <2> HIDE DEF S
  <2>2. \E x \in S : \A y \in S : x >= y
    BY <2>1, GreatestNumber
  <2> QED
    BY <2>2 DEF S
<1>6. /\ Max({0} \cup L) \in {0} \cup L
      /\ \A y \in {0} \cup L : Max({0} \cup L) >= y
  <2> HIDE DEF L
  <2> QED
    BY <1>5 DEF Max
<1>7. longest[s] = Max({0} \cup L)
  BY DEF longest
<1> QED
  BY <1>1, <1>6, <1>7

\* What is still to come of the answer a session reads, and is not charged.
Due(s) ==
    IF pc[s] = "status" THEN longest[s]
    ELSE IF pc[s] = "body" THEN Len(wire[s])
    ELSE IF pc[s] \in {"charge", "store"} THEN bread[s] + Len(wire[s])
    ELSE 0

Portion(s) == Due(s) <= longest[s]

LEMMA DueType ==
    ASSUME Types, NEW s \in Sessions
    PROVE  Due(s) \in Nat /\ longest[s] \in Nat /\ bread[s] \in Nat
             /\ Len(wire[s]) \in Nat
<1>1. longest[s] \in Nat
  BY LongestFacts
<1>2. wire[s] \in Seq(Byte) /\ bread[s] \in Nat
  BY DEF Types, WireTypes, LocalTypes
<1>3. Len(wire[s]) \in Nat
  BY <1>2, LenProperties
<1> QED
  BY <1>1, <1>2, <1>3 DEF Due

\* Reading on, what is to come becomes no more.
LEMMA ReturnDue ==
    ASSUME Types, NEW s \in Sessions, NEW p \in Points \ Dialogue, Return(s, p)
    PROVE  Due(s)' = 0
<1>1. pc'[s] = p
  BY DEF Types, LocalTypes, Return
<1> QED
  BY <1>1 DEF Due, Dialogue

LEMMA StatusDue ==
    ASSUME Types, NEW s \in Sessions, Stream(s), ~ split[s], Portion(s),
           NEW reply \in Replies(s), ReadStatus(s, reply)
    PROVE  Due(s)' <= Due(s)
<1>1. pc[s] = "status" /\ wire[s] \in Replies(s) /\ Due(s) = longest[s]
  BY DEF ReadStatus, Stream, Due
<1>2. longest[s] \in Nat
  BY LongestFacts
<1>3. CASE Return(s, "command")
  <2>1. Due(s)' = 0
    BY <1>3, ReturnDue DEF Points, Serving, Dialogue
  <2> QED
    BY <1>1, <1>2, <2>1
<1>4. CASE pc' = pc
  BY <1>1, <1>2, <1>4 DEF Due
<1>5. CASE ~ Return(s, "command") /\ pc' # pc
  <2>1. /\ wire[s][FirstEnd(wire[s])] # "430"
        /\ pc'[s] = "body"
        /\ wire' = [wire EXCEPT ![s] = AfterLine(wire[s])]
    BY <1>5 DEF ReadStatus, Types, LocalTypes
  <2>2. AfterLine(wire[s]) \in ArticlesOf[s]
    BY <1>1, <2>1, FirstLine
  <2>3. Len(AfterLine(wire[s])) <= longest[s]
    BY <2>2, LongestFacts
  <2>4. Due(s)' = Len(AfterLine(wire[s]))
    BY <2>1 DEF Due, Types, WireTypes
  <2> QED
    BY <1>1, <2>3, <2>4
<1> QED
  BY <1>3, <1>4, <1>5

LEMMA PieceDue ==
    ASSUME Types, NEW s \in Sessions, NEW n \in Pieces[s], ReadPiece(s, n)
    PROVE  Due(s)' = Due(s)
<1>1. /\ pc[s] = "body" /\ pc'[s] = "charge" /\ bread'[s] = n
      /\ n \in Nat /\ n <= Len(wire[s])
      /\ wire'[s] = SubSeq(wire[s], n + 1, Len(wire[s]))
  BY ConstantFacts DEF ReadPiece, Types, LocalTypes, WireTypes
<1>2. wire[s] \in Seq(Byte) /\ Len(wire[s]) \in Nat
  BY LenProperties DEF Types, WireTypes
<1>3. Len(wire'[s]) = Len(wire[s]) - n
  BY <1>1, <1>2, SubSeqProperties
<1> QED
  BY <1>1, <1>2, <1>3 DEF Due

LEMMA ResumeDue ==
    ASSUME Types, NEW s \in Sessions, Resume(s), wire' = wire,
           pc[s] \in {"charge", "store"}
    PROVE  /\ Due(s)' <= Due(s) - bread[s]
           /\ pc'[s] \in {"body", "command"}
<1>1. CASE Return(s, "command")
  <2>1. Due(s)' = 0 /\ pc'[s] = "command"
    BY <1>1, ReturnDue DEF Points, Serving, Dialogue, Types, LocalTypes, Return
  <2>2. Due(s) = bread[s] + Len(wire[s])
    BY DEF Due
  <2> QED
    BY <2>1, <2>2, DueType
<1>2. CASE ~ Return(s, "command")
  <2>1. pc'[s] = "body"
    BY <1>2 DEF Resume, Types, LocalTypes
  <2>2. Due(s)' = Len(wire[s]) /\ Due(s) = bread[s] + Len(wire[s])
    BY <2>1 DEF Due
  <2> QED
    BY <2>1, <2>2, DueType
<1> QED
  BY <1>1, <1>2

Dues == \A s \in Sessions : Due(s) \in Nat

LEMMA DuesNext == Types' => Dues'
<1>1. Types => Dues
  BY DueType DEF Dues
<1> QED
  BY <1>1, PTL

LEMMA LocalElsewhere ==
    ASSUME Types, NEW s \in Sessions, Step(s), NEW t \in Sessions, t # s
    PROVE  UNCHANGED <<bread[t], tmp[t]>>
<1>1. ASSUME NEW p \in Points, Return(s, p) PROVE UNCHANGED <<bread[t], tmp[t]>>
  BY <1>1 DEF Types, LocalTypes, Return
<1>2. ASSUME Resume(s) PROVE UNCHANGED <<bread[t], tmp[t]>>
  <2>1. CASE Return(s, "command")
    BY <1>1, <2>1 DEF Points, Serving
  <2>2. CASE ~ Return(s, "command")
    BY <1>2, <2>2 DEF Resume, Types, LocalTypes
  <2> QED
    BY <2>1, <2>2
<1>3. ASSUME NEW name \in Names, NEW o \in Outcomes, NEW admitted \in BOOLEAN,
             cmdauthinfo(s, name, o, admitted)
      PROVE  UNCHANGED <<bread[t], tmp[t]>>
  BY <1>3 DEF cmdauthinfo, locals
<1>4. ASSUME NEW c \in {"article", "xover"}, NEW reply \in Replies(s),
             Command(s, c, reply)
      PROVE  UNCHANGED <<bread[t], tmp[t]>>
  BY <1>4 DEF Command
<1>5. ASSUME NEW reply \in Replies(s), ReadStatus(s, reply)
      PROVE  UNCHANGED <<bread[t], tmp[t]>>
  BY <1>1, <1>5 DEF ReadStatus, Points, Serving, locals
<1>6. ASSUME NEW n \in Pieces[s], ReadPiece(s, n)
      PROVE  UNCHANGED <<bread[t], tmp[t]>>
  BY <1>6 DEF ReadPiece, Types, LocalTypes
<1>7. CASE Charge(s) \/ StoreLeft(s)
  <2>1. CASE Resume(s)
    BY <1>2, <2>1
  <2>2. CASE ~ Resume(s)
    BY <1>7, <2>2 DEF Charge, StoreLeft, Types, LocalTypes
  <2> QED
    BY <2>1, <2>2
<1>8. CASE \/ \E failed \in BOOLEAN : ServerDown(s, failed)
           \/ WriteFails(s) \/ Leave(s) \/ Term(s) \/ Die(s)
  <2>1. \E p \in Points : Return(s, p)
    BY <1>8 DEF ServerDown, WriteFails, Leave, Term, Die, OpenBooks, Points,
                Serving, Closing
  <2> QED
    BY <1>1, <2>1
<1>9. CASE Close(s)
  BY <1>9 DEF Close, SpinEnds, SelectRow, SelectFails, WriteRow, WriteFailed,
              Unlock, FreeClient, BooksOnly, locals
<1> QED
  BY <1>3, <1>4, <1>5, <1>6, <1>7, <1>8, <1>9 DEF Step, Advance, Read

\* A step that neither moves nor charges a session.
LEMMA PlainStep ==
    ASSUME Types, NEW s \in Sessions, Stream(s), ~ split[s], Portion(s),
           Step(s), ~ Charge(s), ~ StoreLeft(s), ~ FreeClient(s),
           authenticated' = authenticated
    PROVE  /\ UNCHANGED <<key, refs, bytesleft, granted, charged, boundless>>
           /\ pc[s] # "gone" /\ pc'[s] \notin {"gone", "store"}
           /\ Portion(s)'
           /\ Due(s)' <= Due(s) \/ bytesleft[key[s]] >= 0
<1> DEFINE Kept == UNCHANGED <<key, refs, bytesleft, granted, charged,
                               boundless>>
           Plain == /\ pc[s] # "gone" /\ pc'[s] \notin {"gone", "store"}
                    /\ Due(s)' <= Due(s)
<1>1. ASSUME NEW p \in Points \ (Dialogue \cup {"gone"}), Return(s, p)
      PROVE  Due(s)' <= Due(s) /\ pc'[s] \notin {"gone", "store"}
  <2>1. Due(s)' = 0
    BY <1>1, ReturnDue
  <2>2. pc'[s] = p
    BY <1>1 DEF Types, LocalTypes, Return
  <2> QED
    BY <1>1, <2>1, <2>2, DueType DEF Dialogue
<1>2. Due(s) \in Nat /\ longest[s] \in Nat /\ Due(s) <= longest[s]
  BY DueType DEF Portion
<1>3. longest' = longest
  BY DEF longest
<1>4. ASSUME NEW name \in Names, NEW o \in Outcomes, NEW admitted \in BOOLEAN,
             cmdauthinfo(s, name, o, admitted)
      PROVE  Kept /\ Plain
  <2>1. Kept
    BY <1>4 DEF cmdauthinfo, Types, ClientTypes, quota
  <2>2. pc[s] = "command" /\ pc' = pc
    BY <1>4 DEF cmdauthinfo, MayGoOn
  <2>3. Due(s)' = 0
    BY <2>2 DEF Due
  <2> QED
    BY <1>2, <2>1, <2>2, <2>3
<1>5. ASSUME NEW c \in {"article", "xover"}, NEW reply \in Replies(s),
             Command(s, c, reply)
      PROVE  /\ Kept /\ pc[s] # "gone" /\ pc'[s] \notin {"gone", "store"}
             /\ Due(s)' <= longest[s] /\ bytesleft[key[s]] >= 0
  <2>1. Kept
    BY <1>5 DEF Command, client
  <2>2. /\ pc[s] = "command" /\ pc'[s] = "status"
        /\ bytesleft[key[s]] >= 0
    BY <1>5 DEF Command, MayGoOn, Types, LocalTypes
  <2>3. Due(s)' = longest[s]
    BY <1>3, <2>2 DEF Due
  <2> QED
    BY <1>2, <2>1, <2>2, <2>3
<1>6. ASSUME NEW reply \in Replies(s), ReadStatus(s, reply) PROVE Kept /\ Plain
  <2>1. Kept /\ pc[s] = "status"
    BY <1>6 DEF ReadStatus, client
  <2>2. Due(s)' <= Due(s)
    BY <1>6, StatusDue
  <2>3. pc'[s] \in {"status", "body", "command"}
    BY <1>6, <2>1 DEF ReadStatus, Return, Types, LocalTypes
  <2> QED
    BY <2>1, <2>2, <2>3
<1>7. ASSUME NEW n \in Pieces[s], ReadPiece(s, n) PROVE Kept /\ Plain
  <2>1. Kept /\ pc[s] = "body" /\ pc'[s] = "charge"
    BY <1>7 DEF ReadPiece, client, Types, LocalTypes
  <2>2. Due(s)' = Due(s)
    BY <1>7, PieceDue
  <2> QED
    BY <1>2, <2>1, <2>2
<1>8. ASSUME \/ \E failed \in BOOLEAN : ServerDown(s, failed)
             \/ WriteFails(s) \/ Leave(s) \/ Term(s) \/ Die(s)
      PROVE  Kept /\ Plain
  <2>1. Kept /\ pc[s] # "gone"
    BY <1>8, FaultAssumption DEF ServerDown, WriteFails, Leave, Term, Die,
                                 client
  <2>2. \E p \in Points \ (Dialogue \cup {"gone"}) : Return(s, p)
    BY <1>8 DEF ServerDown, WriteFails, Leave, Term, Die, OpenBooks, Points,
                Serving, Closing, Dialogue
  <2>3. Plain
    BY <1>1, <2>1, <2>2
  <2> QED
    BY <2>1, <2>3
<1>9. ASSUME Close(s) PROVE Kept /\ Plain
  <2>1. /\ Kept /\ pc[s] \in {"lock", "take", "insert", "update", "unlock"}
        /\ pc'[s] \in {"take", "insert", "update", "unlock", "leave"}
    BY <1>9 DEF Close, SpinEnds, SelectRow, SelectFails, WriteRow, WriteFailed,
                Unlock, Goto, BooksOnly, client, Types, LocalTypes
  <2>2. Due(s)' = 0
    BY <2>1 DEF Due
  <2> QED
    BY <1>2, <2>1, <2>2
<1>10. \/ Kept /\ Plain
       \/ /\ Kept /\ pc[s] # "gone" /\ pc'[s] \notin {"gone", "store"}
          /\ Due(s)' <= longest[s] /\ bytesleft[key[s]] >= 0
  BY <1>4, <1>5, <1>6, <1>7, <1>8, <1>9 DEF Step, Advance, Read
<1>11. Due(s)' \in Int
  <2>1. Types'
    BY NextTypes, NextIsStep
  <2> QED
    BY <2>1, DuesNext DEF Dues
<1> QED
  BY <1>2, <1>3, <1>10, <1>11 DEF Portion

\* The sessions that count as users of an entry.
Live(k) == {s \in Sessions : key[s] = k /\ pc[s] # "gone"}

\* How much less than its longest article a session still has to read.
room == [s \in Sessions |-> longest[s] - Due(s)]

\* Between the test and the store nobody changes what was tested.
Storing(s) ==
    pc[s] = "store" =>
        /\ tmp[s] = bytesleft[key[s]] /\ tmp[s] > 0
        /\ \A t \in Sessions : pc[t] = "store" /\ key[t] = key[s] => t = s

\* A quota that is overdrawn is so by no more than what the sessions have read
\* of their articles.
Overdrawn(k) ==
    charged[k] <= granted[k] + SumFunctionOnSet(room, OfKey(k))

Entry(k) ==
    /\ refs[k] = Cardinality(Live(k))
    /\ refs[k] = 0 => bytesleft[k] = 0 /\ granted[k] = 0 /\ charged[k] = 0
    /\ ~ boundless[k] =>
        /\ bytesleft[k] = 0 => refs[k] = 0
        /\ bytesleft[k] > 0 => charged[k] = granted[k] - bytesleft[k]
        /\ bytesleft[k] < 0 => Overdrawn(k)

Portions == \A s \in Sessions : Portion(s)
Entries  == (\A s \in Sessions : Storing(s)) /\ (\A k \in Keys : Entry(k))

LEMMA RoomFacts ==
    Types /\ Portions =>
        \A k \in Keys :
            /\ IsFiniteSet(OfKey(k)) /\ OfKey(k) \subseteq Sessions
            /\ \A s \in Sessions : room[s] \in Nat /\ room[s] <= longest[s]
                                     /\ longest[s] \in Nat
            /\ SumFunctionOnSet(room, OfKey(k)) \in Int
<1> SUFFICES ASSUME Types, Portions, NEW k \in Keys
             PROVE
            /\ IsFiniteSet(OfKey(k)) /\ OfKey(k) \subseteq Sessions
            /\ \A s \in Sessions : room[s] \in Nat /\ room[s] <= longest[s]
                                     /\ longest[s] \in Nat
            /\ SumFunctionOnSet(room, OfKey(k)) \in Int
  OBVIOUS
<1>1. IsFiniteSet(OfKey(k)) /\ OfKey(k) \subseteq Sessions
  BY ReadingAssumption, FS_Subset DEF OfKey
<1>2. ASSUME NEW s \in Sessions
      PROVE  room[s] \in Nat /\ room[s] <= longest[s] /\ longest[s] \in Nat
  <2>1. Due(s) \in Nat /\ longest[s] \in Nat /\ Due(s) <= longest[s]
    BY DueType DEF Portions, Portion
  <2>2. room[s] = longest[s] - Due(s)
    BY DEF room
  <2> QED
    BY <2>1, <2>2
<1>3. \A s \in OfKey(k) : room[s] \in Int
  BY <1>1, <1>2
<1> QED
  BY <1>1, <1>2, <1>3, SumType

LEMMA RoomFactsNext ==
    Types' /\ Portions' =>
        \A k \in Keys :
            /\ IsFiniteSet(OfKey(k)') /\ OfKey(k)' \subseteq Sessions
            /\ \A s \in Sessions : room'[s] \in Nat
            /\ SumFunctionOnSet(room', OfKey(k)') \in Int
<1> DEFINE Facts == \A k \in Keys :
            /\ IsFiniteSet(OfKey(k)) /\ OfKey(k) \subseteq Sessions
            /\ \A s \in Sessions : room[s] \in Nat
            /\ SumFunctionOnSet(room, OfKey(k)) \in Int
<1>1. Types /\ Portions => Facts
  BY RoomFacts
<1>2. Types' /\ Portions' => Facts'
  <2> HIDE DEF Facts
  <2> QED BY <1>1, PTL
<1> QED
  BY <1>2

LEMMA LiveFacts ==
    ASSUME NEW k \in Keys
    PROVE  /\ IsFiniteSet(Live(k)) /\ Cardinality(Live(k)) \in Nat
           /\ Cardinality(Live(k)) = 0 <=> Live(k) = {}
<1>1. IsFiniteSet(Live(k))
  BY ReadingAssumption, FS_Subset DEF Live
<1>2. Cardinality(Live(k)) = 0 <=> Live(k) = {}
  BY <1>1, FS_EmptySet
<1> QED
  BY <1>1, <1>2, FS_CardinalityType

\* The sum over an entry moves when one of its sessions does.
LEMMA RoomMoves ==
    ASSUME Types, Portions, Types', Portions', key' = key,
           NEW s \in Sessions, NEW d \in Nat, Due(s)' <= Due(s) - d,
           \A t \in Sessions : t # s => Due(t)' = Due(t)
    PROVE  SumFunctionOnSet(room, OfKey(key[s])) + d
             <= SumFunctionOnSet(room', OfKey(key[s])')
<1> DEFINE S == OfKey(key[s])
<1>1. key[s] \in Keys /\ S' = S /\ s \in S
  BY DEF Types, ClientTypes, OfKey
<1>2. /\ IsFiniteSet(S) /\ S \subseteq Sessions
      /\ \A t \in Sessions : room[t] \in Nat /\ room'[t] \in Nat
      /\ SumFunctionOnSet(room, S) \in Int /\ SumFunctionOnSet(room', S) \in Int
  BY <1>1, RoomFacts, RoomFactsNext
<1>3. \A t \in S : t # s => room'[t] = room[t]
  <2>1. longest' = longest
    BY DEF longest
  <2> QED
    BY <1>2, <2>1 DEF room
<1>4. SumFunctionOnSet(room', S) = SumFunctionOnSet(room, S)
                                     + room'[s] - room[s]
  <2>1. \A t \in S : room[t] \in Int /\ room'[t] \in Int
    BY <1>2
  <2> HIDE DEF S
  <2> QED
    BY <1>1, <1>2, <1>3, <2>1, SumChange
<1>5. room[s] + d <= room'[s]
  <2>1. longest' = longest /\ longest[s] \in Nat /\ Due(s) \in Nat
    BY DueType DEF longest
  <2>2. Due(s)' \in Nat
    BY DuesNext DEF Dues
  <2>3. room[s] = longest[s] - Due(s) /\ room'[s] = longest[s] - Due(s)'
    BY <2>1 DEF room
  <2> QED
    BY <2>1, <2>2, <2>3
<1>6. room[s] \in Nat /\ room'[s] \in Nat
  BY <1>2
<1> QED
  BY <1>1, <1>2, <1>4, <1>5, <1>6

\* An entry the step is not about.
LEMMA OtherEntry ==
    ASSUME NEW k \in Keys, Entry(k), NEW s \in Sessions,
           Types, Types', Portions, Portions',
           key[s] # k, key'[s] # k,
           \A t \in Sessions : t # s =>
              UNCHANGED <<key[t], pc[t]>> /\ Due(t)' = Due(t),
           UNCHANGED <<refs[k], bytesleft[k], granted[k], charged[k],
                       boundless[k]>>
    PROVE  Entry(k)'
<1>1. Live(k)' = Live(k) /\ OfKey(k)' = OfKey(k)
  BY DEF Live, OfKey
<1>2. Overdrawn(k)' <=> Overdrawn(k)
  <2>1. longest' = longest
    BY DEF longest
  <2>2. \A t \in OfKey(k) : room'[t] = room[t]
    BY <2>1 DEF room, OfKey
  <2>3. IsFiniteSet(OfKey(k))
    BY RoomFacts
  <2>4. SumFunctionOnSet(room', OfKey(k)) = SumFunctionOnSet(room, OfKey(k))
    BY <2>2, <2>3, SumSame
  <2> QED
    BY <1>1, <2>4 DEF Overdrawn
<1> QED
  BY <1>1, <1>2 DEF Entry

LEMMA Elsewhere ==
    ASSUME Types, NEW s \in Sessions, Step(s)
    PROVE  \A t \in Sessions : t # s =>
              UNCHANGED <<key[t], pc[t], tmp[t], bread[t]>> /\ Due(t)' = Due(t)
<1> SUFFICES ASSUME NEW t \in Sessions, t # s
             PROVE  /\ UNCHANGED <<key[t], pc[t], tmp[t], bread[t]>>
                    /\ Due(t)' = Due(t)
  OBVIOUS
<1>1. UNCHANGED <<key[t], pc[t], tmp[t], bread[t], wire[t]>>
  BY ClientElsewhere, DialogueElsewhere, LocalElsewhere
<1>2. longest' = longest
  BY DEF longest
<1> QED
  BY <1>1, <1>2 DEF Due

\* A step that charges the session that reads, if it changes an entry at all.
LEMMA ChargedEntries ==
    ASSUME Types, Types', Portions, Portions', Entries,
           NEW s \in Sessions, Step(s),
           UNCHANGED <<key, refs, bytesleft, granted, boundless>>,
           pc[s] # "gone", pc'[s] # "gone",
           NEW d \in Nat,
           charged' = [charged EXCEPT ![key[s]] = @ + d],
           bytesleft[key[s]] > 0 => d = 0,
           bytesleft[key[s]] < 0 => Due(s)' <= Due(s) - d
    PROVE  \A k \in Keys : Entry(k)'
<1>1. \A t \in Sessions : t # s =>
              UNCHANGED <<key[t], pc[t]>> /\ Due(t)' = Due(t)
  BY Elsewhere
<1>2. /\ key[s] \in Keys /\ charged \in [Keys -> Int]
      /\ granted \in [Keys -> Int] /\ bytesleft \in [Keys -> Int]
  BY DEF Types, ClientTypes, ChargeTypes, EntryTypes
<1>3. ASSUME NEW k \in Keys, k # key[s] PROVE Entry(k)'
  <2>1. Entry(k) /\ key'[s] # k
    BY <1>3 DEF Entries
  <2>2. charged'[k] = charged[k]
    BY <1>2, <1>3
  <2>3. UNCHANGED <<refs[k], bytesleft[k], granted[k], charged[k],
                    boundless[k]>>
    BY <2>2
  <2> QED
    BY <1>1, <1>3, <2>1, <2>3, OtherEntry
<1>4. Entry(key[s])'
  <2> DEFINE k == key[s]
  <2>1. Entry(k) /\ k' = k /\ charged'[k] = charged[k] + d
    BY <1>2 DEF Entries
  <2>2. Live(k)' = Live(k)
    <3>1. \A t \in Sessions : (pc'[t] = "gone") <=> (pc[t] = "gone")
      BY <1>1
    <3> QED
      BY <3>1 DEF Live
  <2>3. refs[k] # 0
    <3>1. s \in Live(k)
      BY DEF Live
    <3> QED
      BY <1>2, <2>1, <3>1, LiveFacts DEF Entry
  <2>4. ASSUME bytesleft[k] < 0, Overdrawn(k) PROVE Overdrawn(k)'
    <3>1. SumFunctionOnSet(room, OfKey(k)) + d
            <= SumFunctionOnSet(room', OfKey(k)')
      BY <1>1, <2>4, RoomMoves
    <3>2. /\ SumFunctionOnSet(room, OfKey(k)) \in Int
          /\ SumFunctionOnSet(room', OfKey(k)') \in Int
      BY <1>2, RoomFacts, RoomFactsNext
    <3>3. charged[k] <= granted[k] + SumFunctionOnSet(room, OfKey(k))
      BY <2>4 DEF Overdrawn
    <3>4. charged[k] \in Int /\ granted[k] \in Int
      BY <1>2
    <3>5. charged[k] + d <= granted[k] + SumFunctionOnSet(room', OfKey(k)')
      BY <3>1, <3>2, <3>3, <3>4
    <3> QED
      BY <2>1, <3>5 DEF Overdrawn
  <2>5. (bytesleft[k] > 0 => charged[k] = granted[k] - bytesleft[k])
          => (bytesleft[k] > 0 => charged'[k] = granted[k] - bytesleft[k])
    BY <1>2, <2>1
  <2> QED
    BY <2>1, <2>2, <2>3, <2>4, <2>5 DEF Entry
<1> QED
  BY <1>3, <1>4

\* Nobody else comes to his store, nor loses what he has read of his quota.
LEMMA StoringElsewhere ==
    ASSUME Types, Entries, NEW s \in Sessions, Step(s),
           pc'[s] # "store",
           \A t \in Sessions : t # s /\ pc[t] = "store" =>
              bytesleft'[key[t]] = bytesleft[key[t]]
    PROVE  \A t \in Sessions : Storing(t)'
<1> SUFFICES ASSUME NEW t \in Sessions PROVE Storing(t)'
  OBVIOUS
<1>1. \A u \in Sessions : u # s => UNCHANGED <<key[u], pc[u], tmp[u]>>
  BY Elsewhere
<1>2. CASE t = s
  BY <1>2 DEF Storing
<1>3. CASE t # s
  <2>1. Storing(t)
    BY DEF Entries
  <2> QED
    BY <1>1, <1>3, <2>1 DEF Storing
<1> QED
  BY <1>2, <1>3

LEMMA PlainEntries ==
    ASSUME Types, Types', Portions, Portions', Entries, NEW s \in Sessions,
           Stream(s), ~ split[s],
           Step(s), ~ Charge(s), ~ StoreLeft(s), ~ FreeClient(s),
           authenticated' = authenticated
    PROVE  Entries'
<1>1. /\ UNCHANGED <<key, refs, bytesleft, granted, charged, boundless>>
      /\ pc[s] # "gone" /\ pc'[s] \notin {"gone", "store"}
      /\ Due(s)' <= Due(s) \/ bytesleft[key[s]] >= 0
  BY PlainStep DEF Portions
<1>2. Due(s) \in Nat /\ Due(s)' \in Nat /\ bytesleft[key[s]] \in Int
  BY DueType, DuesNext DEF Dues, Types, EntryTypes, ClientTypes
<1>3. \A k \in Keys : Entry(k)'
  <2>1. charged' = [charged EXCEPT ![key[s]] = @ + 0]
    BY <1>1 DEF Types, ChargeTypes, ClientTypes
  <2>2. bytesleft[key[s]] < 0 => Due(s)' <= Due(s) - 0
    BY <1>1, <1>2
  <2> QED
    BY <1>1, <2>1, <2>2, ChargedEntries
<1>4. \A t \in Sessions : Storing(t)'
  BY <1>1, StoringElsewhere
<1> QED
  BY <1>3, <1>4 DEF Entries

LEMMA ChargeEntries ==
    ASSUME Types, Types', Portions, Portions', Entries, NEW s \in Sessions,
           "race" \notin Faults, Step(s), Charge(s)
    PROVE  Entries'
<1> DEFINE k == key[s]
           acct == cmd[s] = "article"
           taken == acct /\ bytesleft[k] > 0
<1>1. /\ UNCHANGED <<key, refs, bytesleft, granted, boundless, wire>>
      /\ pc[s] = "charge"
  BY DEF Charge, client
<1>2. /\ Due(s) \in Nat /\ Due(s)' \in Nat /\ bytesleft[k] \in Int
      /\ bread[s] \in Nat
  BY DueType, DuesNext DEF Dues, Types, EntryTypes, ClientTypes
<1>3. CASE taken /\ Quiet(k) /\ pc' = [pc EXCEPT ![s] = "store"]
             /\ tmp' = [tmp EXCEPT ![s] = bytesleft[k]]
             /\ UNCHANGED <<charged, bread>>
  <2>1. pc'[s] = "store" /\ tmp'[s] = bytesleft[k]
    BY <1>3 DEF Types, LocalTypes
  <2>2. Due(s)' = Due(s)
    BY <1>1, <1>3, <2>1 DEF Due
  <2>3. \A j \in Keys : Entry(j)'
    <3>1. charged' = [charged EXCEPT ![key[s]] = @ + 0]
      BY <1>3 DEF Types, ChargeTypes, ClientTypes
    <3>2. bytesleft[key[s]] < 0 => Due(s)' <= Due(s) - 0
      BY <1>2, <2>2
    <3> QED
      BY <1>1, <2>1, <3>1, <3>2, ChargedEntries
  <2>4. \A t \in Sessions : t # s => UNCHANGED <<key[t], pc[t], tmp[t]>>
    BY Elsewhere
  <2>5. \A t \in Sessions : ~ (pc[t] = "store" /\ key[t] = k)
    BY <1>3 DEF Quiet
  <2>6. ASSUME NEW t \in Sessions PROVE Storing(t)'
    <3>1. CASE t = s
      BY <1>1, <1>3, <2>1, <2>4, <2>5, <3>1 DEF Storing
    <3>2. CASE t # s
      <4>1. Storing(t)
        BY DEF Entries
      <4> QED
        BY <1>1, <2>4, <2>5, <3>2, <4>1 DEF Storing
    <3> QED
      BY <3>1, <3>2
  <2> QED
    BY <2>3, <2>6 DEF Entries
<1>4. CASE ~ taken /\ Resume(s)
             /\ charged' = [charged EXCEPT ![k] = IF acct THEN @ + bread[s]
                                                  ELSE @]
  <2> DEFINE d == IF acct THEN bread[s] ELSE 0
  <2>1. Due(s)' <= Due(s) - bread[s] /\ pc'[s] \in {"body", "command"}
    BY <1>1, <1>4, ResumeDue
  <2>2. d \in Nat /\ Due(s)' <= Due(s) - d
    BY <1>2, <2>1
  <2>3. charged' = [charged EXCEPT ![key[s]] = @ + d]
    <3>1. charged \in [Keys -> Int] /\ k \in Keys
      BY DEF Types, ChargeTypes, ClientTypes
    <3>2. CASE acct
      BY <1>4, <3>2
    <3>3. CASE ~ acct
      <4>1. charged' = [charged EXCEPT ![k] = charged[k]]
        BY <1>4, <3>3
      <4>2. charged[k] + d = charged[k]
        BY <3>1, <3>3
      <4> QED
        BY <4>1, <4>2
    <3> QED
      BY <3>2, <3>3
  <2>4. bytesleft[key[s]] > 0 => d = 0
    BY <1>4
  <2>5. \A j \in Keys : Entry(j)'
    <3> HIDE DEF d
    <3> QED
      BY <1>1, <2>1, <2>2, <2>3, <2>4, ChargedEntries
  <2>6. \A t \in Sessions : Storing(t)'
    BY <1>1, <2>1, StoringElsewhere
  <2> QED
    BY <2>5, <2>6 DEF Entries
<1> QED
  BY <1>3, <1>4 DEF Charge

LEMMA StoreEntries ==
    ASSUME Types, Types', Portions, Portions', Entries, NEW s \in Sessions,
           Step(s), StoreLeft(s)
    PROVE  Entries'
<1> DEFINE k == key[s]
<1>1. /\ UNCHANGED <<key, refs, granted, wire>> /\ pc[s] = "store"
      /\ bytesleft' = [bytesleft EXCEPT ![k] = tmp[s] - bread[s]]
      /\ charged' = [charged EXCEPT ![k] = @ + bread[s]]
      /\ boundless' = [boundless EXCEPT ![k] = @ \/ tmp[s] = bread[s]]
      /\ Resume(s)
  BY DEF StoreLeft
<1>2. /\ k \in Keys /\ tmp[s] = bytesleft[k] /\ tmp[s] > 0
      /\ \A t \in Sessions : pc[t] = "store" /\ key[t] = k => t = s
  BY <1>1 DEF Entries, Storing, Types, ClientTypes
<1>3. /\ bytesleft \in [Keys -> Int] /\ charged \in [Keys -> Int]
      /\ granted \in [Keys -> Int] /\ boundless \in [Keys -> BOOLEAN]
      /\ bread[s] \in Nat
  BY DEF Types, EntryTypes, ChargeTypes, LocalTypes
<1>4. \A t \in Sessions : t # s =>
              UNCHANGED <<key[t], pc[t]>> /\ Due(t)' = Due(t)
  BY Elsewhere
<1>5. Due(s)' <= Due(s) - bread[s] /\ pc'[s] \in {"body", "command"}
  BY <1>1, ResumeDue
<1>6. ASSUME NEW j \in Keys, j # k PROVE Entry(j)'
  <2>1. Entry(j) /\ key'[s] # j /\ key[s] # j
    BY <1>1, <1>6 DEF Entries
  <2>2. UNCHANGED <<refs[j], bytesleft[j], granted[j], charged[j],
                    boundless[j]>>
    BY <1>1, <1>2, <1>3, <1>6
  <2> QED
    BY <1>4, <2>1, <2>2, OtherEntry
<1>7. Entry(k)'
  <2>1. Entry(k) /\ k' = k
    BY <1>1, <1>2 DEF Entries
  <2>2. /\ bytesleft'[k] = bytesleft[k] - bread[s]
        /\ charged'[k] = charged[k] + bread[s]
        /\ boundless'[k] <=> boundless[k] \/ bytesleft[k] = bread[s]
    BY <1>1, <1>2, <1>3
  <2>3. Live(k)' = Live(k)
    <3>1. \A t \in Sessions : (pc'[t] = "gone") <=> (pc[t] = "gone")
      BY <1>1, <1>4, <1>5
    <3> QED
      BY <1>1, <3>1 DEF Live
  <2>4. refs[k] # 0
    <3>1. s \in Live(k)
      BY <1>1 DEF Live
    <3> QED
      BY <1>2, <2>1, <3>1, LiveFacts DEF Entry
  <2>5. ASSUME ~ boundless'[k]
        PROVE  /\ charged[k] = granted[k] - bytesleft[k]
               /\ bytesleft[k] > 0 /\ bytesleft'[k] # 0
    BY <1>2, <1>3, <2>1, <2>2, <2>5 DEF Entry
  <2>6. ASSUME ~ boundless'[k] PROVE Overdrawn(k)'
    <3>1. bread[s] <= room'[s]
      <4>1. longest' = longest /\ longest[s] \in Nat /\ Due(s) \in Nat
        BY DueType DEF longest
      <4>2. Due(s)' \in Nat /\ Due(s) <= longest[s]
        BY DuesNext DEF Dues, Portions, Portion
      <4>3. room'[s] = longest[s] - Due(s)'
        BY <4>1 DEF room
      <4> QED
        BY <1>3, <1>5, <4>1, <4>2, <4>3
    <3>2. room'[s] <= SumFunctionOnSet(room', OfKey(k)')
      <4>1. /\ IsFiniteSet(OfKey(k)') /\ s \in OfKey(k)'
            /\ \A t \in OfKey(k)' : room'[t] \in Nat
        BY <1>1, <1>2, RoomFactsNext DEF OfKey
      <4> QED
        BY <4>1, SumAtLeast
    <3>3. /\ SumFunctionOnSet(room', OfKey(k)') \in Int /\ room'[s] \in Nat
      BY <1>1, <1>2, RoomFactsNext
    <3>4. charged[k] + bread[s]
            <= granted[k] + SumFunctionOnSet(room', OfKey(k)')
      BY <1>2, <1>3, <2>5, <2>6, <3>1, <3>2, <3>3
    <3> QED
      BY <1>1, <2>2, <3>4 DEF Overdrawn
  <2>7. ~ boundless'[k] => charged'[k] = granted[k] - bytesleft'[k]
    BY <1>2, <1>3, <2>2, <2>5
  <2> QED
    BY <1>1, <2>1, <2>3, <2>4, <2>5, <2>6, <2>7 DEF Entry
<1>8. \A t \in Sessions : Storing(t)'
  <2>1. ASSUME NEW t \in Sessions, t # s, pc[t] = "store"
        PROVE  bytesleft'[key[t]] = bytesleft[key[t]]
    <3>1. key[t] \in Keys /\ key[t] # k
      BY <1>2, <2>1 DEF Types, ClientTypes
    <3> QED
      BY <1>1, <1>3, <3>1
  <2> QED
    BY <1>5, <2>1, StoringElsewhere
<1> QED
  BY <1>1, <1>6, <1>7, <1>8 DEF Entries

\* A session that leaves an entry is one less, and the last one clears it.
LEMMA LeftEntry ==
    ASSUME NEW k \in Keys, Entry(k), NEW s \in Live(k),
           Live(k)' = Live(k) \ {s},
           refs'[k] = refs[k] - 1,
           ~ boundless[k] /\ refs'[k] # 0 => (Overdrawn(k) => Overdrawn(k)'),
           IF refs'[k] = 0
           THEN bytesleft'[k] = 0 /\ granted'[k] = 0 /\ charged'[k] = 0
                  /\ ~ boundless'[k]
           ELSE UNCHANGED <<bytesleft[k], granted[k], charged[k],
                            boundless[k]>>
    PROVE  Entry(k)'
<1>1. refs'[k] = Cardinality(Live(k)') /\ refs[k] # 0
  <2>1. /\ IsFiniteSet(Live(k)) /\ refs[k] = Cardinality(Live(k))
        /\ refs[k] \in Nat /\ refs[k] # 0
    BY LiveFacts DEF Entry
  <2>2. Cardinality(Live(k) \ {s}) = Cardinality(Live(k)) - 1
    BY <2>1, FS_RemoveElement
  <2> QED
    BY <2>1, <2>2
<1>2. CASE refs'[k] = 0
  BY <1>1, <1>2 DEF Entry
<1>3. CASE refs'[k] # 0
  BY <1>1, <1>3 DEF Entry
<1> QED
  BY <1>2, <1>3

LEMMA FreeEntries ==
    ASSUME Types, Types', Portions, Portions', Entries, NEW s \in Sessions,
           Step(s), FreeClient(s)
    PROVE  Entries'
<1> DEFINE k == key[s]
           left == [j \in Keys |-> refs[j] - (IF j = k THEN 1 ELSE 0)]
           Cleared(f, zero) ==
               [j \in Keys |-> IF left[j] = 0 THEN zero ELSE f[j]]
<1>1. /\ pc[s] = "leave" /\ UNCHANGED <<key, tmp, bread, wire>>
      /\ pc' = [pc EXCEPT ![s] = "gone"] /\ refs' = left
      /\ bytesleft' = Cleared(bytesleft, 0)
      /\ granted' = Cleared(granted, 0)
      /\ charged' = Cleared(charged, 0)
      /\ boundless' = Cleared(boundless, FALSE)
  BY DEF FreeClient, Goto, locals
<1>2. k \in Keys /\ refs \in [Keys -> Int] /\ pc'[s] = "gone"
  BY <1>1 DEF Types, ClientTypes, EntryTypes, LocalTypes
<1>3. /\ \A t \in Sessions : t # s =>
              UNCHANGED <<key[t], pc[t]>> /\ Due(t)' = Due(t)
      /\ Due(s)' = 0 /\ Due(s) = 0
  BY <1>1, <1>2, Elsewhere DEF Due
<1>4. ASSUME NEW j \in Keys, j # k PROVE Entry(j)'
  <2>1. Entry(j) /\ refs'[j] = refs[j] /\ Live(j)' = Live(j)
    BY <1>1, <1>2, <1>3, <1>4 DEF Entries, Live
  <2>2. CASE refs[j] = 0
    <3>1. /\ bytesleft'[j] = 0 /\ granted'[j] = 0 /\ charged'[j] = 0
      BY <1>1, <1>2, <1>4, <2>2
    <3> QED
      BY <2>1, <2>2, <3>1 DEF Entry
  <2>3. CASE refs[j] # 0
    <3>1. UNCHANGED <<refs[j], bytesleft[j], granted[j], charged[j],
                      boundless[j]>>
      BY <1>1, <1>2, <1>4, <2>3
    <3>2. key[s] # j /\ key'[s] # j
      BY <1>1, <1>4
    <3> QED
      BY <1>3, <2>1, <3>1, <3>2, OtherEntry
  <2> QED
    BY <2>2, <2>3
<1>5. Entry(k)'
  <2>1. Entry(k) /\ s \in Live(k) /\ Live(k)' = Live(k) \ {s}
    BY <1>1, <1>2, <1>3 DEF Entries, Live
  <2>2. refs'[k] = refs[k] - 1
    BY <1>1, <1>2
  <2>3. Overdrawn(k)' <=> Overdrawn(k) \/ refs'[k] = 0
    <3>1. CASE refs'[k] = 0
      <4>1. charged'[k] = 0 /\ granted'[k] = 0
        BY <1>1, <1>2, <3>1
      <4>2. 0 <= SumFunctionOnSet(room', OfKey(k)')
        <5>1. /\ IsFiniteSet(OfKey(k)')
              /\ \A t \in OfKey(k)' : room'[t] \in Nat
          BY <1>1, <1>2, RoomFactsNext
        <5> QED
          BY <5>1, SumNotNegative
      <4>3. SumFunctionOnSet(room', OfKey(k)') \in Int
        BY <1>1, <1>2, RoomFactsNext
      <4> QED
        BY <1>1, <3>1, <4>1, <4>2, <4>3 DEF Overdrawn
    <3>2. CASE refs'[k] # 0
      <4>1. charged'[k] = charged[k] /\ granted'[k] = granted[k]
        BY <1>1, <1>2, <3>2
      <4>2. OfKey(k)' = OfKey(k)
        BY <1>1 DEF OfKey
      <4>3. room' = room
        <5>1. \A t \in Sessions : Due(t)' = Due(t)
          BY <1>3
        <5> QED
          BY <5>1 DEF room, longest
      <4> QED
        BY <1>1, <3>2, <4>1, <4>2, <4>3 DEF Overdrawn
    <3> QED
      BY <3>1, <3>2
  <2>4. IF refs'[k] = 0
        THEN bytesleft'[k] = 0 /\ granted'[k] = 0 /\ charged'[k] = 0
               /\ ~ boundless'[k]
        ELSE UNCHANGED <<bytesleft[k], granted[k], charged[k], boundless[k]>>
    BY <1>1, <1>2
  <2>5. \A j \in Keys : j = k => Entry(j)'
    <3> SUFFICES ASSUME NEW j \in Keys, j = k PROVE Entry(j)'
      OBVIOUS
    <3>1. /\ Entry(j) /\ s \in Live(j) /\ Live(j)' = Live(j) \ {s}
          /\ refs'[j] = refs[j] - 1
      BY <1>1, <2>1, <2>2
    <3>2. ~ boundless[j] /\ refs'[j] # 0 => (Overdrawn(j) => Overdrawn(j)')
      BY <1>1, <2>3
    <3>3. IF refs'[j] = 0
          THEN bytesleft'[j] = 0 /\ granted'[j] = 0 /\ charged'[j] = 0
                 /\ ~ boundless'[j]
          ELSE UNCHANGED <<bytesleft[j], granted[j], charged[j], boundless[j]>>
      BY <1>1, <2>4
    <3> QED
      BY <3>1, <3>2, <3>3, LeftEntry
  <2> QED
    BY <1>1, <1>2, <2>5
<1>6. \A t \in Sessions : Storing(t)'
  <2>1. ASSUME NEW t \in Sessions, t # s, pc[t] = "store"
        PROVE  bytesleft'[key[t]] = bytesleft[key[t]]
    <3>1. key[t] \in Keys /\ t \in Live(key[t])'
      BY <1>1, <1>3, <2>1 DEF Types, ClientTypes, Live
    <3>2. \A j \in Keys : Entry(j)'
      BY <1>1, <1>4, <1>5
    <3>3. refs'[key[t]] # 0
      <4> DEFINE L == Live(key[t])'
      <4>1. refs'[key[t]] = Cardinality(L) /\ t \in L
        BY <1>1, <3>1, <3>2 DEF Entry
      <4>2. IsFiniteSet(L)
        BY ReadingAssumption, FS_Subset DEF Live
      <4> HIDE DEF L
      <4>3. Cardinality(L) # 0
        BY <4>1, <4>2, FS_EmptySet
      <4> QED
        BY <4>1, <4>3
    <3>4. left[key[t]] # 0
      BY <1>1, <3>3
    <3> QED
      BY <1>1, <3>1, <3>4
  <2> QED
    BY <1>2, <2>1, StoringElsewhere
<1> QED
  BY <1>1, <1>4, <1>5, <1>6 DEF Entries

LEMMA AdmittedEntries ==
    ASSUME Types, Types', Portions, Portions', Entries, NEW s \in Sessions,
           "race" \notin Faults, Step(s),
           NEW name \in Names, NEW o \in Outcomes, NEW admitted \in BOOLEAN,
           cmdauthinfo(s, name, o, admitted),
           authenticated' # authenticated
    PROVE  Entries'
<1> DEFINE old == key[s]
           n == o.bytes
           Renewed(f, new, zero) ==
               [k \in Keys |-> IF k = name THEN new
                               ELSE IF k = old /\ refs[k] = 1 THEN zero
                               ELSE f[k]]
<1>1. /\ pc[s] = "command" /\ bytesleft[old] >= 0
      /\ UNCHANGED <<pc, wire, bread, tmp>> /\ Quiet(name)
      /\ key' = [key EXCEPT ![s] = name]
      /\ refs' = Moved(old, name)
      /\ bytesleft' = Renewed(bytesleft, n, 0)
      /\ granted' = Renewed(granted, n, 0)
      /\ charged' = Renewed(charged, 0, 0)
      /\ boundless' = Renewed(boundless, n = 0, FALSE)
  BY DEF cmdauthinfo, MayGoOn, locals
<1>2. /\ name \in Keys /\ old \in Keys /\ n \in Nat /\ key'[s] = name
      /\ refs \in [Keys -> Int] /\ bytesleft \in [Keys -> Int]
  BY <1>1, ConstantFacts, OutcomeFacts DEF Results, Types, ClientTypes,
     EntryTypes
<1>3. \A t \in Sessions : t # s =>
              UNCHANGED <<key[t], pc[t]>> /\ Due(t)' = Due(t)
  BY Elsewhere
<1>4. ASSUME NEW k \in Keys, k # name, k # old PROVE Entry(k)'
  <2>1. Entry(k) /\ key'[s] # k /\ key[s] # k
    BY <1>2, <1>4 DEF Entries
  <2>2. UNCHANGED <<refs[k], bytesleft[k], granted[k], charged[k],
                    boundless[k]>>
    BY <1>1, <1>2, <1>4 DEF Moved
  <2> QED
    BY <1>3, <2>1, <2>2, OtherEntry
<1>5. ASSUME NEW k \in Keys, k = name PROVE Entry(k)'
  <2>1. /\ bytesleft'[k] = n /\ granted'[k] = n /\ charged'[k] = 0
        /\ boundless'[k] <=> n = 0
    BY <1>1, <1>5
  <2>2. refs'[k] = Cardinality(Live(k)') /\ refs'[k] # 0
    <3>1. Live(k)' = Live(k) \cup {s} /\ (s \in Live(k) <=> old = k)
      BY <1>1, <1>2, <1>3, <1>5 DEF Live
    <3>2. /\ IsFiniteSet(Live(k)) /\ Cardinality(Live(k)) \in Nat
          /\ refs[k] = Cardinality(Live(k))
          /\ Cardinality(Live(k)) = 0 <=> Live(k) = {}
      BY LiveFacts DEF Entries, Entry
    <3>3. refs'[k] = IF old = k THEN refs[k] ELSE refs[k] + 1
      BY <1>1, <1>2, <1>5, <3>2 DEF Moved
    <3>4. Cardinality(Live(k) \cup {s}) =
            IF s \in Live(k) THEN Cardinality(Live(k))
                             ELSE Cardinality(Live(k)) + 1
      BY <3>2, FS_AddElement
    <3>5. CASE old = k
      BY <3>1, <3>2, <3>3, <3>4, <3>5
    <3>6. CASE old # k
      BY <3>1, <3>2, <3>3, <3>4, <3>6
    <3> QED
      BY <3>5, <3>6
  <2>3. n = 0 \/ n > 0
    BY <1>2
  <2> QED
    BY <1>2, <2>1, <2>2, <2>3 DEF Entry
<1>6. ASSUME NEW k \in Keys, k = old, k # name PROVE Entry(k)'
  <2>1. Entry(k) /\ s \in Live(k) /\ Live(k)' = Live(k) \ {s}
    BY <1>1, <1>2, <1>3, <1>6 DEF Entries, Live
  <2>2. /\ refs[k] \in Nat /\ refs[k] # 0
    BY <2>1, LiveFacts DEF Entry
  <2>3. refs'[k] = refs[k] - 1
    BY <1>1, <1>2, <1>6 DEF Moved
  <2>4. IF refs'[k] = 0
        THEN bytesleft'[k] = 0 /\ granted'[k] = 0 /\ charged'[k] = 0
               /\ ~ boundless'[k]
        ELSE UNCHANGED <<bytesleft[k], granted[k], charged[k], boundless[k]>>
    <3>1. refs'[k] = 0 <=> refs[k] = 1
      BY <2>2, <2>3
    <3> QED
      BY <1>1, <1>6, <3>1
  <2>5. refs'[k] = Cardinality(Live(k)')
    <3>1. IsFiniteSet(Live(k)) /\ refs[k] = Cardinality(Live(k))
      BY <2>1, LiveFacts DEF Entry
    <3>2. Cardinality(Live(k) \ {s}) = Cardinality(Live(k)) - 1
      BY <2>1, <3>1, FS_RemoveElement
    <3> QED
      BY <2>1, <2>3, <3>1, <3>2
  <2>6. ~ boundless[k] => /\ bytesleft[k] > 0
                          /\ charged[k] = granted[k] - bytesleft[k]
    BY <1>1, <1>2, <1>6, <2>1, <2>2 DEF Entry
  <2>7. CASE refs'[k] = 0
    BY <2>4, <2>5, <2>7 DEF Entry
  <2>8. CASE refs'[k] # 0
    <3>1. UNCHANGED <<bytesleft[k], granted[k], charged[k], boundless[k]>>
      BY <2>4, <2>8
    <3>2. bytesleft[k] \in Int
      BY <1>2
    <3> QED
      BY <2>5, <2>6, <2>8, <3>1, <3>2 DEF Entry
  <2> QED
    BY <2>7, <2>8
<1>7. \A t \in Sessions : Storing(t)'
  <2>1. ASSUME NEW t \in Sessions, t # s, pc[t] = "store"
        PROVE  bytesleft'[key[t]] = bytesleft[key[t]]
    <3>1. key[t] \in Keys /\ key[t] # name
      BY <1>1, <2>1 DEF Types, ClientTypes, Quiet
    <3>2. ~ (key[t] = old /\ refs[key[t]] = 1)
      <4> SUFFICES ASSUME key[t] = old, refs[key[t]] = 1 PROVE FALSE
        OBVIOUS
      <4> DEFINE L == Live(old)
      <4>1. s \in L /\ t \in L /\ IsFiniteSet(L) /\ Cardinality(L) = 1
        BY <1>1, <1>2, <2>1, LiveFacts DEF Live, Entries, Entry
      <4> HIDE DEF L
      <4>2. IsFiniteSet(L \ {s}) /\ Cardinality(L \ {s}) = 0 /\ t \in L \ {s}
        <5>1. /\ IsFiniteSet(L \ {s})
              /\ Cardinality(L \ {s}) = Cardinality(L) - 1
          BY <4>1, FS_RemoveElement
        <5> QED
          BY <2>1, <4>1, <5>1
      <4>3. L \ {s} = {}
        BY <4>2, FS_EmptySet
      <4> QED
        BY <4>2, <4>3
    <3> QED
      BY <1>1, <3>1, <3>2
  <2>2. pc'[s] # "store"
    BY <1>1
  <2> QED
    BY <2>1, <2>2, StoringElsewhere
<1> QED
  BY <1>4, <1>5, <1>6, <1>7 DEF Entries

\* AUTHINFO is the only step that makes a session authenticated.
LEMMA Admission ==
    ASSUME NEW s \in Sessions, Step(s), authenticated' # authenticated
    PROVE  \E name \in Names, o \in Outcomes, admitted \in BOOLEAN :
              cmdauthinfo(s, name, o, admitted)
<1>1. CASE \E c \in {"article", "xover"}, reply \in Replies(s) :
              Command(s, c, reply)
  BY <1>1 DEF Command, client
<1>2. CASE Read(s)
  BY <1>2 DEF Read, ReadStatus, ReadPiece, ServerDown, WriteFails, Charge,
              StoreLeft, client
<1>3. CASE Close(s)
  BY <1>3 DEF Close, SpinEnds, SelectRow, SelectFails, WriteRow, WriteFailed,
              Unlock, FreeClient, BooksOnly, client
<1>4. CASE Leave(s) \/ Term(s) \/ Die(s)
  BY <1>4 DEF Leave, Term, Die, client
<1> QED
  BY <1>1, <1>2, <1>3, <1>4 DEF Step, Advance

LEMMA PortionsKept ==
    ASSUME Types, Types', Portions, Streams, NoneSplit,
           NEW s \in Sessions, Step(s)
    PROVE  Portions'
<1>1. longest' = longest
  BY DEF longest
<1>2. ASSUME NEW t \in Sessions, t # s PROVE Portion(t)'
  <2>1. Portion(t)
    BY DEF Portions
  <2> QED
    BY <1>1, <1>2, <2>1, Elsewhere DEF Portion
<1>3. /\ Portion(s) /\ Stream(s) /\ ~ split[s]
      /\ Due(s) \in Nat /\ Due(s)' \in Nat /\ longest[s] \in Nat
      /\ bread[s] \in Nat
  BY DueType, DuesNext DEF Dues, Portions, Streams, NoneSplit
<1>4. CASE Charge(s)
  <2>1. pc[s] = "charge" /\ wire' = wire
    BY <1>4 DEF Charge
  <2>2. CASE Resume(s)
    <3>1. Due(s)' <= Due(s) - bread[s]
      BY <2>1, <2>2, ResumeDue
    <3>2. Portion(s)'
      BY <1>1, <1>3, <3>1 DEF Portion
    <3> QED
      BY <1>2, <3>2 DEF Portions
  <2>3. CASE ~ Resume(s)
    <3>1. pc'[s] = "store" /\ bread' = bread
      BY <1>4, <2>3 DEF Charge, Types, LocalTypes
    <3>2. Due(s)' = Due(s)
      BY <2>1, <3>1 DEF Due
    <3>3. Portion(s)'
      BY <1>1, <1>3, <3>2 DEF Portion
    <3> QED
      BY <1>2, <3>3 DEF Portions
  <2> QED
    BY <2>2, <2>3
<1>5. CASE StoreLeft(s)
  <2>1. pc[s] = "store" /\ wire' = wire /\ Resume(s)
    BY <1>5 DEF StoreLeft
  <2>2. Due(s)' <= Due(s) - bread[s]
    BY <2>1, ResumeDue
  <2>3. Portion(s)'
    BY <1>1, <1>3, <2>2 DEF Portion
  <2> QED
    BY <1>2, <2>3 DEF Portions
<1>6. CASE FreeClient(s) \/ authenticated' # authenticated
  <2>1. pc'[s] \in {"gone", "command"}
    BY <1>6, Admission DEF FreeClient, Goto, cmdauthinfo, MayGoOn, Types,
                           LocalTypes
  <2>2. Due(s)' = 0
    BY <2>1 DEF Due
  <2>3. Portion(s)'
    BY <1>1, <1>3, <2>2 DEF Portion
  <2> QED
    BY <1>2, <2>3 DEF Portions
<1>7. CASE /\ ~ Charge(s) /\ ~ StoreLeft(s) /\ ~ FreeClient(s)
           /\ authenticated' = authenticated
  <2>1. Portion(s)'
    BY <1>3, <1>7, PlainStep
  <2> QED
    BY <1>2, <2>1 DEF Portions
<1> QED
  BY <1>4, <1>5, <1>6, <1>7

LEMMA NextEntries ==
    ASSUME "race" \notin Faults
    PROVE  Types /\ Streams /\ NoneSplit /\ Portions /\ Entries /\ [Next]_vars
             => Portions' /\ Entries'
<1> SUFFICES ASSUME Types, Streams, NoneSplit, Portions, Entries, [Next]_vars
             PROVE  Portions' /\ Entries'
  OBVIOUS
<1>1. CASE UNCHANGED vars
  <2>1. UNCHANGED <<pc, wire, bread, tmp, key, refs, bytesleft, granted,
                    charged, boundless>>
    BY <1>1 DEF vars, client, locals
  <2>2. /\ \A s \in Sessions : Due(s)' = Due(s)
        /\ longest' = longest
    BY <2>1 DEF Due, longest
  <2>3. room' = room /\ Portions'
    BY <2>2 DEF room, Portions, Portion
  <2>4. \A s \in Sessions : Storing(s)'
    BY <2>1 DEF Entries, Storing
  <2>5. ASSUME NEW k \in Keys PROVE Entry(k)'
    <3>1. Entry(k) /\ Live(k)' = Live(k) /\ OfKey(k)' = OfKey(k)
      BY <2>1 DEF Entries, Live, OfKey
    <3>2. Overdrawn(k)' <=> Overdrawn(k)
      BY <2>1, <2>3, <3>1 DEF Overdrawn
    <3> QED
      BY <2>1, <3>1, <3>2 DEF Entry
  <2> QED
    BY <2>3, <2>4, <2>5 DEF Entries
<1>2. ASSUME NEW s \in Sessions, Step(s) PROVE Portions' /\ Entries'
  <2>1. Types'
    BY <1>2, NextTypes, NextIsStep
  <2>2. Portions'
    BY <1>2, <2>1, PortionsKept
  <2>3. Stream(s) /\ ~ split[s]
    BY DEF Streams, NoneSplit
  <2>4. CASE Charge(s)
    BY <1>2, <2>1, <2>2, <2>4, ChargeEntries
  <2>5. CASE StoreLeft(s)
    BY <1>2, <2>1, <2>2, <2>5, StoreEntries
  <2>6. CASE FreeClient(s)
    BY <1>2, <2>1, <2>2, <2>6, FreeEntries
  <2>7. CASE authenticated' # authenticated
    BY <1>2, <2>1, <2>2, <2>7, Admission, AdmittedEntries
  <2>8. CASE /\ ~ Charge(s) /\ ~ StoreLeft(s) /\ ~ FreeClient(s)
             /\ authenticated' = authenticated
    BY <1>2, <2>1, <2>2, <2>3, <2>8, PlainEntries
  <2> QED
    BY <2>4, <2>5, <2>6, <2>7, <2>8
<1> QED
  BY <1>1, <1>2, NextIsStep

LEMMA InitEntries == Init => Portions /\ Entries
<1> SUFFICES ASSUME Init PROVE Portions /\ Entries
  OBVIOUS
<1>1. \A s \in Sessions : pc[s] = "command"
  BY DEF Init
<1>2. Portions
  <2>1. \A s \in Sessions : Due(s) = 0 /\ longest[s] \in Nat
    BY <1>1, LongestFacts DEF Due
  <2> QED
    BY <2>1 DEF Portions, Portion
<1>3. \A s \in Sessions : Storing(s)
  BY <1>1 DEF Storing
<1>4. ASSUME NEW k \in Keys PROVE Entry(k)
  <2>1. Live(k) = OfHost(k)
    BY <1>1 DEF Live, OfHost, Init
  <2>2. refs[k] = Cardinality(Live(k))
    BY <2>1 DEF Init
  <2>3. refs[k] = 0 <=> OfHost(k) = {}
    BY <2>1, <2>2, LiveFacts
  <2>4. /\ bytesleft[k] = IF OfHost(k) = {} THEN 0 ELSE MaxSessionBytes
        /\ granted[k] = bytesleft[k] /\ charged[k] = 0
        /\ boundless[k] <=> OfHost(k) # {} /\ MaxSessionBytes = 0
    BY DEF Init
  <2>5. MaxSessionBytes \in Nat
    BY ReadingAssumption
  <2> QED
    BY <2>2, <2>3, <2>4, <2>5 DEF Entry
<1> QED
  BY <1>2, <1>3, <1>4 DEF Entries

\* A quota binds: what the sessions of a user are charged adds up to what is
\* gone of it, and goes no further than the articles they were reading when it
\* was spent, for any number of sessions, if no two of them are between the
\* test and the subtraction (passcmd in reader.c), and as long as no end of an
\* article comes in three pieces: what is left of an answer whose end was missed
\* would be charged to the next command.
THEOREM ReadingQuotaBinds ==
    ASSUME "race" \notin Faults
    PROVE  Spec => QuotaBinds
<1>1. Types /\ Portions /\ Entries => WithinQuota
  <2> SUFFICES ASSUME Types, Portions, Entries, NEW k \in Keys, ~ boundless[k]
               PROVE  /\ bytesleft[k] > 0
                           => bytesleft[k] = granted[k] - charged[k]
                      /\ charged[k] <= granted[k]
                                         + SumFunctionOnSet(longest, OfKey(k))
    BY DEF WithinQuota
  <2> DEFINE R == SumFunctionOnSet(room, OfKey(k))
             L == SumFunctionOnSet(longest, OfKey(k))
  <2>1. /\ bytesleft[k] \in Int /\ granted[k] \in Int /\ charged[k] \in Int
    BY DEF Types, EntryTypes, ChargeTypes
  <2>2. 0 <= R /\ R <= L /\ R \in Int /\ L \in Int
    <3>1. /\ IsFiniteSet(OfKey(k)) /\ R \in Int
          /\ \A s \in OfKey(k) : room[s] \in Nat /\ room[s] <= longest[s]
                                   /\ longest[s] \in Nat
      BY RoomFacts
    <3>2. \A s \in OfKey(k) : room[s] \in Int /\ longest[s] \in Int
      BY <3>1
    <3>3. 0 <= R
      BY <3>1, SumNotNegative
    <3>4. R <= L
      BY <3>1, <3>2, SumMonotone
    <3>5. L \in Int
      BY <3>1, <3>2, SumType
    <3> QED
      BY <3>1, <3>3, <3>4, <3>5
  <2>3. Entry(k)
    BY DEF Entries
  <2> HIDE DEF R, L
  <2>4. CASE bytesleft[k] > 0
    <3>1. charged[k] = granted[k] - bytesleft[k]
      BY <2>3, <2>4 DEF Entry
    <3>2. charged[k] <= granted[k] + L
      BY <2>1, <2>2, <2>4, <3>1
    <3> QED
      BY <2>1, <3>1, <3>2 DEF L
  <2>5. CASE bytesleft[k] < 0
    <3>1. charged[k] <= granted[k] + R
      BY <2>3, <2>5 DEF Entry, Overdrawn, R
    <3>2. charged[k] <= granted[k] + L
      BY <2>1, <2>2, <3>1
    <3> QED
      BY <2>1, <2>5, <3>2 DEF L
  <2>6. CASE bytesleft[k] = 0
    <3>1. charged[k] = 0 /\ granted[k] = 0
      BY <2>3, <2>6 DEF Entry
    <3>2. charged[k] <= granted[k] + L
      BY <2>2, <3>1
    <3> QED
      BY <2>6, <3>2 DEF L
  <2> QED
    BY <2>1, <2>4, <2>5, <2>6
<1>2. Types /\ Streams /\ NoneSplit /\ Portions /\ Entries /\ [Next]_vars
        => Types' /\ Streams' /\ Portions' /\ Entries'
  BY NextTypes, NextStreams, NextEntries
<1> QED
  BY <1>1, <1>2, InitTypes, InitStreams, InitEntries, PTL DEF Spec, QuotaBinds
=============================================================================

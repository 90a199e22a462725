--------------------------- MODULE HttpConnProofs ---------------------------
(***************************************************************************)
(* Theorems about HttpConn, for all sizes of buffer, head and file and any *)
(* number of requests and clients: types and the order of the buffer's     *)
(* indices, the life of a file's mapping, the arithmetic of write(), and   *)
(* that a request is read and parsed as it was sent, however it was cut.   *)
(***************************************************************************)
EXTENDS HttpConn, SequenceTheorems, TLAPS

ReadTypes ==
    /\ m_TRIGMode \in {0, 1}
    /\ pc \in {"wait", "process_read", "do_request", "process_write", "write",
               "closed"}
    /\ interest \in {"in", "out"}
    /\ wire \in Seq(Symbols)
    /\ m_read_buf \in [Positions -> Symbols]
    /\ m_read_idx \in 0..READ_BUFFER_SIZE
    /\ m_checked_idx \in 0..m_read_idx
    /\ m_start_line \in 0..m_checked_idx
    /\ m_check_state \in {"REQUESTLINE", "HEADER", "CONTENT"}
    /\ line_status \in {"OK", "OPEN"}
    /\ cgi \in {0, 1} /\ m_linger \in BOOLEAN
    /\ m_content_length \in {0, BodyLen}
    /\ m_string \in 0..READ_BUFFER_SIZE

SendTypes ==
    /\ ret \in Codes /\ st_size \in FileLens /\ mapped \in FileLens
    /\ m_file_address \in {"null", "mapped", "failed"}
    /\ lost \in Nat /\ clients \in Nat /\ answered \in Nat /\ writes \in Nat
    /\ orphans \in Nat /\ strayed \in BOOLEAN
    /\ iov0 \in [base : Int, len : Nat] /\ iov1 \in [base : Int, len : Nat]
    /\ m_iv_count \in {1, 2}
    /\ bytes_to_send \in 0..(HeadLen + MaxFileLen)
    /\ bytes_have_send \in 0..(HeadLen + MaxFileLen)
    /\ asked \in Seq(Kinds)
    /\ odd \subseteq {"early", "split", "torn"}
    /\ intact \in BOOLEAN

\* A response is on its way out.
Sending == pc = "write" \/ (pc = "wait" /\ interest = "out")
Answering == pc \in {"process_read", "do_request", "process_write"}
             \/ (pc = "wait" /\ interest = "in")

\* What has been sent and what is left make up the response; the vector never
\* holds more than what is left, however its entries have been advanced.
CountInv ==
    /\ Answering => bytes_have_send = 0
    /\ Sending =>
        /\ bytes_to_send > 0
        /\ m_iv_count = 2 <=> ret = "FILE_REQUEST" /\ st_size # 0
        /\ bytes_have_send + bytes_to_send
                = HeadLen + (IF m_iv_count = 2 THEN st_size ELSE 0)
        /\ iov0.len > 0 => /\ iov0.len <= HeadLen - bytes_have_send
                           /\ m_iv_count = 2 => iov1.len = st_size
        /\ iov0.len = 0 /\ m_iv_count = 2 => iov1.len <= bytes_to_send

\* Nothing sent yet; a part of the head sent by one call; the head sent.
Untouched == /\ writes = 0 /\ bytes_have_send = 0
             /\ iov0 = [base |-> 0, len |-> HeadLen]
             /\ m_iv_count = 2 => iov1 = [base |-> 0, len |-> st_size]
InHead == /\ writes = 1 /\ bytes_have_send \in 1..(HeadLen - 1)
          /\ iov0 = [base |-> bytes_have_send,
                     len |-> HeadLen - bytes_have_send]
          /\ m_iv_count = 2 => iov1 = [base |-> 0, len |-> st_size]
InFile == /\ bytes_have_send >= HeadLen
          /\ iov0.len = 0
          /\ iov1 = [base |-> bytes_have_send - HeadLen,
                     len |-> bytes_to_send]

\* As long as no head has gone out in three parts, the vector is where the
\* response is.
VectorInv ==
    "torn" \notin odd =>
        intact /\ (Sending => Untouched \/ InHead \/ InFile)

\* There is something mapped when there is an address of it; what is being
\* sent is mapped as long as it is; what else is mapped was left by others.
MapInv ==
    /\ mapped > 0 <=> m_file_address = "mapped"
    /\ FileReply => mapped = st_size \/ m_file_address = "failed"
    /\ lost + (IF FileReply THEN 0 ELSE mapped) <= orphans
    /\ strayed => orphans > 0

-----------------------------------------------------------------------------
(* The reader.                                                             *)

\* What a client sends is made of symbols.
LEMMA TextTyped == \A kind \in Kinds : Text[kind] \in Seq(Symbols)
<1> SUFFICES ASSUME NEW kind \in Kinds PROVE Text[kind] \in Seq(Symbols)
  OBVIOUS
<1>1. kind \in {"get", "keep", "post", "bad", "bare"}
  BY HttpConnAssumption DEF Text
<1>2. CASE kind = "get"
  BY <1>2 DEF Text, Symbols
<1>3. CASE kind = "keep"
  BY <1>3 DEF Text, Symbols
<1>4. CASE kind = "post"
  <2>1. /\ Body \in Seq(Symbols)
        /\ <<"POST", "CR", "LF", "LEN", "CR", "LF", "CR", "LF">>
                \in Seq(Symbols)
    BY DEF Body, Symbols
  <2>2. Text[kind] =
            <<"POST", "CR", "LF", "LEN", "CR", "LF", "CR", "LF">> \o Body
    BY <1>4 DEF Text
  <2> QED
    BY <2>1, <2>2
<1>5. CASE kind = "bad"
  BY <1>5 DEF Text, Symbols
<1>6. CASE kind = "bare"
  BY <1>6 DEF Text, Symbols
<1> QED BY <1>1, <1>2, <1>3, <1>4, <1>5, <1>6

\* A line that parse_line calls complete ends within what was received.
LEMMA LineWithin ==
    ASSUME ReadTypes, NEW i, Stop(i), ParseLine(i) = "OK"
    PROVE  /\ i \in 0..(m_read_idx - 1)
           /\ CrOf(i) \in 0..(m_read_idx - 2)
           /\ CrOf(i) + 2 \in m_checked_idx..m_read_idx
           /\ Terminated(i) \in [Positions -> Symbols]
<1> USE HttpConnAssumption
<1>1. i \in m_checked_idx..m_read_idx /\ m_checked_idx \in Nat
      /\ m_read_idx \in 0..READ_BUFFER_SIZE /\ READ_BUFFER_SIZE \in Nat
  BY DEF ReadTypes, Stop
<1>2. /\ i # m_read_idx /\ ~(m_read_buf[i] = "CR" /\ i + 1 = m_read_idx)
      /\ i < m_read_idx
      /\ m_read_buf[i] = "LF" => i > 1
  BY <1>1 DEF ParseLine
<1>3. m_read_buf[i] \in {"CR", "LF"}
  BY <1>2 DEF Stop
<1>4. /\ CrOf(i) \in 0..(m_read_idx - 2)
      /\ CrOf(i) + 2 \in m_checked_idx..m_read_idx
  BY <1>1, <1>2, <1>3 DEF CrOf
<1>5. Terminated(i) \in [Positions -> Symbols]
  BY DEF Terminated, ReadTypes, Symbols
<1> QED BY <1>1, <1>2, <1>4, <1>5

ReadFrame == UNCHANGED <<m_TRIGMode, m_read_buf, m_read_idx, m_checked_idx,
                         m_start_line, m_check_state, line_status, cgi,
                         m_linger, m_content_length, m_string>>

LEMMA ReadStep == ReadTypes /\ [Next]_vars => ReadTypes'
<1> SUFFICES ASSUME ReadTypes, [Next]_vars
             PROVE  ReadTypes'
  OBVIOUS
<1>0. /\ READ_BUFFER_SIZE \in Nat /\ READ_BUFFER_SIZE > 0
      /\ <<>> \in Seq(Symbols)
      /\ [i \in Positions |-> "NUL"] \in [Positions -> Symbols]
  BY HttpConnAssumption DEF Symbols
\* Most steps leave the reader alone and change the control state at most.
<1>1. ASSUME ReadFrame,
             pc' \in {pc, "wait", "process_read", "do_request",
                      "process_write", "write", "closed"},
             interest' \in {interest, "in", "out"},
             wire' \in {wire, <<>>}
      PROVE  ReadTypes'
  <2>1. wire' \in Seq(Symbols)
    BY <1>0, <1>1 DEF ReadTypes
  <2>2. /\ pc' \in {"wait", "process_read", "do_request", "process_write",
                    "write", "closed"}
        /\ interest' \in {"in", "out"}
    BY <1>1 DEF ReadTypes
  <2> QED BY <1>1, <2>1, <2>2 DEF ReadTypes, ReadFrame
<1>2. ASSUME NEW kind \in Kinds, Ask(kind)
      PROVE  ReadTypes'
  <2>1. wire' \in Seq(Symbols)
    BY <1>2, TextTyped DEF ReadTypes, Ask
  <2> QED BY <1>2, <2>1 DEF ReadTypes, Ask, readVars, lineVars, factVars
<1>3. ASSUME Fresh, UNCHANGED <<m_TRIGMode, line_status>>,
             pc' = "wait", interest' = "in", wire' = wire
      PROVE  ReadTypes'
  <2>1. /\ m_read_idx' = 0 /\ m_checked_idx' = 0 /\ m_start_line' = 0
        /\ m_read_buf' \in [Positions -> Symbols]
        /\ 0 \in 0..READ_BUFFER_SIZE /\ 0 \in 0..0
    BY <1>0, <1>3 DEF Fresh
  <2>2. m_linger' \in BOOLEAN
    BY <1>3 DEF Fresh
  <2> QED BY <1>3, <2>1, <2>2 DEF ReadTypes, Fresh
<1>4. CASE NewClient
  BY <1>3, <1>4 DEF NewClient
<1>5. ASSUME NEW k \in 1..Len(wire), ReadOnce(k)
      PROVE  ReadTypes'
  <2> DEFINE n == Least(k, READ_BUFFER_SIZE - m_read_idx)
  <2>1. CASE pc' = "closed"
    BY <1>0, <1>5, <2>1 DEF ReadTypes, ReadOnce, factVars
  <2>2. CASE pc' # "closed"
    <3>1. n \in 0..Len(wire) /\ m_read_idx + n \in m_read_idx..READ_BUFFER_SIZE
      BY <1>0 DEF ReadTypes, Least
    <3>2. /\ pc' = "process_read" /\ line_status' = "OK"
          /\ wire' = SubSeq(wire, n + 1, Len(wire))
          /\ m_read_buf' = [i \in Positions |->
                IF i \in m_read_idx..(m_read_idx + n - 1)
                  THEN wire[i - m_read_idx + 1] ELSE m_read_buf[i]]
          /\ m_read_idx' = m_read_idx + n
          /\ UNCHANGED <<m_TRIGMode, interest, m_checked_idx, m_start_line,
                         m_check_state, cgi, m_linger, m_content_length,
                         m_string>>
      BY <1>5, <2>2 DEF ReadOnce, factVars
    <3>3. \A i \in 1..Len(wire) : wire[i] \in Symbols
      BY DEF ReadTypes
    <3> HIDE DEF n
    <3>4. wire' \in Seq(Symbols)
      BY <3>1, <3>2 DEF ReadTypes
    <3>5. ASSUME NEW i \in Positions
          PROVE  (IF i \in m_read_idx..(m_read_idx + n - 1)
                    THEN wire[i - m_read_idx + 1] ELSE m_read_buf[i])
                    \in Symbols
      <4>1. CASE i \in m_read_idx..(m_read_idx + n - 1)
        <5>1. i - m_read_idx + 1 \in 1..Len(wire)
          BY <1>0, <3>1, <4>1 DEF ReadTypes
        <5> QED BY <3>3, <4>1, <5>1
      <4>2. CASE i \notin m_read_idx..(m_read_idx + n - 1)
        BY <4>2 DEF ReadTypes
      <4> QED BY <4>1, <4>2
    <3>6. m_read_buf' \in [Positions -> Symbols]
      BY <3>2, <3>5
    <3>7. m_read_idx' \in m_read_idx..READ_BUFFER_SIZE
      BY <3>1, <3>2
    <3>8. /\ m_read_idx' \in 0..READ_BUFFER_SIZE
          /\ m_checked_idx \in 0..m_read_idx'
      BY <1>0, <3>7 DEF ReadTypes
    <3> QED BY <3>2, <3>4, <3>6, <3>8 DEF ReadTypes
  <2> QED BY <2>1, <2>2
<1>6. ASSUME NEW i, NoLine(i)
      PROVE  ReadTypes'
  <2>1. m_checked_idx' = i /\ i \in m_checked_idx..m_read_idx
    BY <1>6 DEF NoLine, Stop
  <2>2. i \in 0..m_read_idx /\ m_start_line \in 0..i
    BY <1>0, <2>1 DEF ReadTypes
  <2> QED BY <1>6, <2>1, <2>2 DEF ReadTypes, NoLine, factVars
\* A line moves both indices behind it.
<1>7. ASSUME NEW i, LineAt(i)
      PROVE  /\ m_checked_idx' = CrOf(i) + 2 /\ m_start_line' = CrOf(i) + 2
             /\ CrOf(i) + 2 \in 0..m_read_idx
             /\ CrOf(i) + 2 \in 0..(CrOf(i) + 2)
             /\ Terminated(i) \in [Positions -> Symbols]
  <2>1. /\ CrOf(i) \in 0..(m_read_idx - 2)
        /\ Terminated(i) \in [Positions -> Symbols]
    BY <1>7, LineWithin DEF LineAt
  <2>2. m_read_idx \in Nat
    BY <1>0 DEF ReadTypes
  <2> QED BY <1>7, <2>1, <2>2 DEF LineAt
<1>8. ASSUME NEW i, RequestLine(i)
      PROVE  ReadTypes'
  <2>1. LineAt(i) /\ m_read_buf' = Terminated(i)
        /\ UNCHANGED <<m_TRIGMode, interest, wire, m_read_idx, line_status,
                       m_linger, m_content_length, m_string>>
        /\ cgi' \in {1, cgi} /\ m_check_state' \in {"HEADER", m_check_state}
        /\ pc' \in {pc, "process_write"}
    BY <1>8 DEF RequestLine
  <2> HIDE DEF LineAt
  <2> QED BY <1>7, <2>1 DEF ReadTypes
<1>9. ASSUME NEW i, Header(i)
      PROVE  ReadTypes'
  <2>1. LineAt(i) /\ m_read_buf' = Terminated(i)
        /\ UNCHANGED <<m_TRIGMode, interest, wire, m_read_idx, line_status,
                       cgi, m_string>>
        /\ m_linger' = (m_linger \/ Line(i) = "KEEP")
        /\ m_content_length' \in {BodyLen, m_content_length}
        /\ m_check_state' \in {"CONTENT", m_check_state}
        /\ pc' \in {pc, "do_request"}
    BY <1>9 DEF Header
  <2>2. m_linger' \in BOOLEAN
    BY <2>1
  <2> QED BY <1>7, <2>1, <2>2 DEF ReadTypes
<1>10. ASSUME NEW buf \in [Positions -> Symbols],
              NEW checked \in 0..m_read_idx,
              ParseContent(buf, checked)
       PROVE  ReadTypes'
  <2>1. /\ m_start_line' = checked /\ m_checked_idx' = checked
        /\ checked \in 0..checked
        /\ UNCHANGED <<m_TRIGMode, interest, wire, m_read_idx, m_check_state,
                       cgi, m_linger, m_content_length>>
        /\ TakeBody(buf) \/ AwaitBody(buf)
    BY <1>0, <1>10 DEF ParseContent, ReadTypes
  <2>2. CASE TakeBody(buf)
    <3>1. /\ pc' = "do_request" /\ UNCHANGED line_status
          /\ m_string' = m_start_line
          /\ m_read_buf' = [j \in Positions |->
                IF j = m_start_line + m_content_length THEN "NUL" ELSE buf[j]]
      BY <2>2 DEF TakeBody
    <3>2. "NUL" \in Symbols
      BY DEF Symbols
    <3>3. m_read_buf' \in [Positions -> Symbols]
      BY <3>1, <3>2
    <3>4. m_string' \in 0..READ_BUFFER_SIZE
      BY <1>0, <3>1 DEF ReadTypes
    <3> QED BY <2>1, <3>1, <3>3, <3>4 DEF ReadTypes
  <2>3. CASE AwaitBody(buf)
    BY <2>1, <2>3 DEF ReadTypes, AwaitBody
  <2> QED BY <2>1, <2>2, <2>3
<1>11. CASE Content
  BY <1>10, <1>11 DEF Content, ReadTypes
<1>12. ASSUME NEW i, ContentLine(i)
       PROVE  ReadTypes'
  BY <1>7, <1>10, <1>12 DEF ContentLine
<1>13. ASSUME NEW n, WritevLast(n)
       PROVE  ReadTypes'
  BY <1>1, <1>3, <1>13 DEF WritevLast, ReadFrame, lineVars, factVars
<1>14. CASE CloseFromOutside
  BY <1>1, <1>14 DEF CloseFromOutside, ReadFrame, readVars, lineVars, factVars
<1>15. ASSUME NEW code, NEW size, DoRequest(code, size)
       PROVE  ReadTypes'
  BY <1>1, <1>15 DEF DoRequest, ReadFrame, readVars, lineVars, factVars
<1>16. CASE ProcessWrite \/ NoAnswer \/ BeginWrite
  BY <1>1, <1>16 DEF ProcessWrite, NoAnswer, BeginWrite, ReadFrame, readVars,
                     lineVars, factVars
<1>17. CASE WritevAgain \/ WritevFails
  BY <1>1, <1>17 DEF WritevAgain, WritevFails, ReadFrame, readVars, lineVars,
                     factVars
<1>18. ASSUME NEW n, Writev(n)
       PROVE  ReadTypes'
  BY <1>1, <1>18 DEF Writev, ReadFrame, readVars, lineVars, factVars
<1>19. CASE UNCHANGED vars
  BY <1>1, <1>19 DEF vars, ReadFrame, readVars, lineVars, factVars
<1> QED
  BY <1>2, <1>4, <1>5, <1>6, <1>8, <1>9, <1>11, <1>12, <1>13, <1>14, <1>15,
     <1>16, <1>17, <1>18, <1>19
  DEF Next, Receives, Processes, Sends, WritevFaults, WritevNothing

-----------------------------------------------------------------------------
(* The writer.                                                             *)

SendInv == SendTypes /\ CountInv /\ VectorInv /\ MapInv

\* Reading and parsing touch neither the vector nor the mapping.
LEMMA Quiet ==
    ASSUME SendInv,
           Answering, pc # "process_write",
           UNCHANGED <<fileVars, sendVars, clients, answered, orphans, asked>>,
           odd' \in {odd, odd \cup {"split"}},
           ret' \in Codes,
           pc' \in {"process_read", "do_request", "process_write", "closed"}
                \/ (pc' = "wait" /\ interest' = "in"),
           pc' = "process_write" => ret' # "FILE_REQUEST"
    PROVE  SendInv'
<1>1. ~Sending /\ ~Sending' /\ ~FileReply /\ ~FileReply'
  BY DEF Answering, Sending, FileReply
<1>2. SendTypes'
  BY DEF SendInv, SendTypes, fileVars, sendVars
<1>3. CountInv' /\ VectorInv'
  BY <1>1 DEF SendInv, CountInv, VectorInv, sendVars
<1>4. MapInv'
  BY <1>1 DEF SendInv, MapInv, fileVars
<1> QED BY <1>2, <1>3, <1>4 DEF SendInv

\* The vector of a response that has just been made up.
LEMMA MakeVector == SendInv /\ ProcessWrite => SendInv'
<1> SUFFICES ASSUME SendInv, ProcessWrite PROVE SendInv'
  OBVIOUS
<1>0. HeadLen \in Nat /\ HeadLen > 0 /\ MaxFileLen \in Nat /\ MaxFileLen > 0
  BY HttpConnAssumption
<1>1. /\ pc = "process_write" /\ pc' = "wait" /\ interest' = "out"
      /\ iov0' = [base |-> 0, len |-> HeadLen]
      /\ writes' = 0 /\ intact' = TRUE
      /\ UNCHANGED <<ret, st_size, m_file_address, mapped, lost,
                     strayed, bytes_have_send,
                     clients, asked, answered, odd, orphans>>
      /\ IF ret = "FILE_REQUEST" /\ st_size # 0
         THEN /\ iov1' = [base |-> 0, len |-> st_size]
              /\ m_iv_count' = 2
              /\ bytes_to_send' = HeadLen + st_size
         ELSE /\ UNCHANGED iov1
              /\ m_iv_count' = 1
              /\ bytes_to_send' = HeadLen
  BY DEF ProcessWrite, fileVars, history
<1>2. bytes_have_send = 0
  BY <1>1 DEF SendInv, CountInv, Answering
<1>3. st_size \in 0..MaxFileLen
  BY DEF SendInv, SendTypes, FileLens
<1>4. SendTypes'
  BY <1>0, <1>1, <1>3 DEF SendInv, SendTypes
<1>5. CountInv'
  BY <1>0, <1>1, <1>2, <1>3 DEF SendInv, CountInv, Sending, Answering
<1>6. VectorInv'
  BY <1>0, <1>1, <1>2 DEF SendInv, SendTypes, VectorInv, Untouched
<1>7. MapInv'
  BY <1>1 DEF SendInv, MapInv, FileReply
<1> QED BY <1>4, <1>5, <1>6, <1>7 DEF SendInv

\* What writev may take of a vector.
LEMMA VectorFacts ==
    ASSUME SendInv, pc = "write"
    PROVE  /\ HeadLen \in Nat /\ MaxFileLen \in Nat
           /\ HeadLen > 0 /\ MaxFileLen > 0
           /\ bytes_to_send \in Nat /\ bytes_have_send \in Nat
           /\ st_size \in Nat
           /\ iov0.len \in Nat /\ iov1.len \in Nat
           /\ iov0.base \in Int /\ iov1.base \in Int
           /\ Remaining \in Nat /\ Remaining <= bytes_to_send
<1>1. /\ HeadLen \in Nat /\ MaxFileLen \in Nat /\ HeadLen > 0 /\ MaxFileLen > 0
      /\ bytes_to_send \in Nat /\ bytes_have_send \in Nat /\ st_size \in Nat
      /\ iov0.len \in Nat /\ iov1.len \in Nat
      /\ iov0.base \in Int /\ iov1.base \in Int
      /\ m_iv_count \in {1, 2}
  BY HttpConnAssumption DEF SendInv, SendTypes, FileLens
<1>2. CountInv /\ Sending
  BY DEF SendInv, Sending
<1>3. Remaining \in Nat /\ Remaining <= bytes_to_send
  <2>1. CASE m_iv_count = 1
    BY <1>1, <1>2, <2>1 DEF CountInv, Remaining
  <2>2. CASE m_iv_count = 2 /\ iov0.len > 0
    BY <1>1, <1>2, <2>2 DEF CountInv, Remaining
  <2>3. CASE m_iv_count = 2 /\ iov0.len = 0
    BY <1>1, <1>2, <2>3 DEF CountInv, Remaining
  <2> QED BY <1>1, <2>1, <2>2, <2>3
<1> QED BY <1>1, <1>3

\* As long as the head has not gone out in three parts, whatever writev takes
\* is what comes next.
LEMMA InOrder ==
    ASSUME SendInv, pc = "write", "torn" \notin odd, NEW n \in 1..Remaining
    PROVE  InPlace(n)
<1>1. Untouched \/ InHead \/ InFile
  BY DEF SendInv, VectorInv, Sending
<1>2. /\ n \in Nat /\ n > 0 /\ n <= Remaining /\ Remaining \in Nat
      /\ iov0.len \in Nat /\ iov1.len \in Nat /\ iov0.base \in Int
      /\ HeadLen \in Nat /\ bytes_have_send \in Nat
      /\ m_iv_count \in {1, 2}
  <2>1. m_iv_count \in {1, 2}
    BY DEF SendInv, SendTypes
  <2> QED BY <2>1, VectorFacts
<1>3. CASE Untouched \/ InHead
  <2>1. /\ iov0.base = bytes_have_send
        /\ iov0.len = HeadLen - bytes_have_send
        /\ m_iv_count = 2 => iov1.base = 0
    BY <1>2, <1>3 DEF Untouched, InHead
  <2>2. CASE n <= iov0.len
    BY <1>2, <2>1, <2>2 DEF InPlace, Least
  <2>3. CASE n > iov0.len
    <3>1. m_iv_count = 2
      BY <1>2, <2>3 DEF Remaining
    <3> QED BY <1>2, <2>1, <2>3, <3>1 DEF InPlace, Least
  <2> QED BY <1>2, <2>2, <2>3
<1>4. CASE InFile
  BY <1>2, <1>4 DEF InPlace, Least, InFile, Remaining
<1> QED BY <1>1, <1>3, <1>4

\* A writev that leaves something to send.
LEMMA WritevStep ==
    ASSUME SendInv, NEW n, Writev(n)
    PROVE  SendInv'
<1> DEFINE have == bytes_have_send + n
           left == bytes_to_send - n
<1>1. /\ pc = "write" /\ n \in 1..Remaining /\ n < bytes_to_send
      /\ bytes_have_send' = have /\ bytes_to_send' = left
      /\ iov1' = IF have >= iov0.len
                   THEN [base |-> have - HeadLen, len |-> left] ELSE iov1
      /\ iov0' = IF have >= iov0.len THEN [iov0 EXCEPT !.len = 0]
                  ELSE [base |-> have, len |-> iov0.len - have]
      /\ intact' = (intact /\ InPlace(n))
      /\ writes' = IF bytes_have_send < HeadLen THEN writes + 1 ELSE writes
      /\ odd' = IF writes' = 2 /\ have < HeadLen
                  THEN odd \cup {"torn"} ELSE odd
      /\ UNCHANGED <<pc, interest, ret, st_size, m_file_address, mapped, lost,
                     strayed,
                     m_iv_count, clients, asked, answered, orphans>>
  BY DEF Writev, Advance, fileVars
<1>2. Sending /\ Sending' /\ ~Answering' /\ CountInv
  BY <1>1 DEF SendInv, Sending, Answering
<1>3. /\ HeadLen \in Nat /\ MaxFileLen \in Nat /\ HeadLen > 0
      /\ bytes_to_send \in Nat /\ bytes_have_send \in Nat /\ st_size \in Nat
      /\ iov0.len \in Nat /\ iov1.len \in Nat
      /\ iov0.base \in Int /\ iov1.base \in Int
      /\ Remaining \in Nat /\ Remaining <= bytes_to_send
      /\ n \in Nat /\ n > 0 /\ n <= Remaining
      /\ m_iv_count \in {1, 2} /\ writes \in Nat
      /\ st_size <= MaxFileLen
      /\ iov0 \in [base : Int, len : Nat]
  <2>1. n \in 1..Remaining /\ Remaining \in Nat /\ pc = "write"
    BY <1>1, VectorFacts
  <2>2. /\ m_iv_count \in {1, 2} /\ writes \in Nat
        /\ st_size \in 0..MaxFileLen /\ MaxFileLen \in Nat
        /\ iov0 \in [base : Int, len : Nat]
    BY HttpConnAssumption DEF SendInv, SendTypes, FileLens
  <2> QED BY <2>1, <2>2, VectorFacts
<1>4. /\ have \in Nat /\ left \in Nat /\ left > 0
      /\ have + left = bytes_have_send + bytes_to_send
      /\ have + left = HeadLen + (IF m_iv_count = 2 THEN st_size ELSE 0)
  BY <1>1, <1>2, <1>3 DEF CountInv
<1>5. /\ iov0'.len = IF have >= iov0.len THEN 0 ELSE iov0.len - have
      /\ iov0'.base = IF have >= iov0.len THEN iov0.base ELSE have
      /\ iov1'.len = IF have >= iov0.len THEN left ELSE iov1.len
      /\ iov0' \in [base : Int, len : Nat]
      /\ iov1' \in [base : Int, len : Nat]
  <2>1. CASE have >= iov0.len
    BY <1>1, <1>3, <1>4, <2>1
  <2>2. CASE ~(have >= iov0.len)
    <3>1. /\ iov0' = [base |-> have, len |-> iov0.len - have]
          /\ iov1' = iov1 /\ iov0.len - have \in Nat /\ have \in Int
      BY <1>1, <1>3, <1>4, <2>2
    <3> QED BY <2>2, <3>1 DEF SendInv, SendTypes
  <2> QED BY <2>1, <2>2
<1> HIDE DEF have, left
<1>6. CountInv'
  <2>1. CASE have >= iov0.len
    BY <1>1, <1>2, <1>3, <1>4, <1>5, <2>1 DEF CountInv
  <2>2. CASE ~(have >= iov0.len)
    BY <1>1, <1>2, <1>3, <1>4, <1>5, <2>2 DEF CountInv, have
  <2> QED BY <2>1, <2>2
<1>7. SendTypes'
  <2>1. /\ left \in 0..(HeadLen + MaxFileLen)
        /\ have \in 0..(HeadLen + MaxFileLen)
    BY <1>3, <1>4
  <2>2. intact' \in BOOLEAN
    BY <1>1
  <2>3. writes' \in Nat
    BY <1>1, <1>3
  <2>4. odd' \subseteq {"early", "split", "torn"}
    BY <1>1 DEF SendInv, SendTypes
  <2> QED BY <1>1, <1>5, <2>1, <2>2, <2>3, <2>4 DEF SendInv, SendTypes
<1>8. MapInv'
  BY <1>1 DEF SendInv, MapInv, FileReply
<1>9. ASSUME "torn" \notin odd'
      PROVE  intact' /\ (Untouched \/ InHead \/ InFile)'
  <2>1. /\ "torn" \notin odd /\ ~(writes' = 2 /\ have < HeadLen)
        /\ intact /\ (Untouched \/ InHead \/ InFile)
        /\ InPlace(n)
    BY <1>1, <1>2, <1>9, InOrder DEF SendInv, VectorInv
  \* The first call ends within the head, or in the file.
  <2>2. CASE Untouched
    <3>2. CASE have < HeadLen
      <4>1. writes' = 1 /\ have \in 1..(HeadLen - 1)
        BY <1>1, <1>3, <1>4, <2>2, <3>2 DEF Untouched, have
      <4>2. /\ iov0' = [base |-> have, len |-> HeadLen - have]
            /\ iov1' = iov1
        BY <1>1, <1>3, <1>4, <2>2, <3>2 DEF Untouched
      <4>3. InHead'
        BY <1>1, <2>2, <4>1, <4>2 DEF Untouched, InHead
      <4> QED BY <1>1, <2>1, <4>3
    <3>3. CASE have >= HeadLen
      <4>1. InFile'
        BY <1>1, <1>3, <1>4, <1>5, <2>2, <3>3 DEF Untouched, InFile
      <4> QED BY <1>1, <2>1, <4>1
    <3> QED BY <1>3, <1>4, <3>2, <3>3
  \* The second call ends in the file.
  <2>3. CASE InHead
    <3>2. have >= HeadLen
      BY <1>1, <1>3, <1>4, <2>1, <2>3 DEF InHead
    <3>3. have >= iov0.len
      BY <1>3, <1>4, <2>3, <3>2 DEF InHead
    <3>4. InFile'
      BY <1>1, <1>3, <1>4, <1>5, <3>2, <3>3 DEF InFile
    <3> QED BY <1>1, <2>1, <3>4
  <2>4. CASE InFile
    <3>2. have >= HeadLen /\ have >= iov0.len
      BY <1>3, <1>4, <2>4 DEF InFile, have
    <3>3. InFile'
      BY <1>1, <1>3, <1>4, <1>5, <3>2 DEF InFile
    <3> QED BY <1>1, <2>1, <3>3
  <2> QED BY <2>1, <2>2, <2>3, <2>4
<1>10. VectorInv'
  BY <1>9 DEF VectorInv
<1> QED BY <1>6, <1>7, <1>8, <1>10 DEF SendInv

\* The writev that ends a response, and one that fails: unmap() releases what
\* is mapped, in full when it is the file that was being sent.
LEMMA ReleaseStep ==
    ASSUME SendInv, pc = "write", ~Sending', pc' \in {"wait", "closed"}, Unmap,
           UNCHANGED <<clients, asked, odd, orphans>>
    PROVE  /\ MapInv'
           /\ m_file_address' = "null" /\ mapped' = 0
           /\ lost' \in Nat /\ strayed' \in BOOLEAN
<1>1. ~FileReply' /\ pc # "wait"
  BY DEF Sending, FileReply, SendInv
<1>2. /\ m_file_address' = "null" /\ mapped' = 0
      /\ lost' = lost + (mapped - Least(mapped, st_size))
      /\ strayed' = (strayed \/ (m_file_address = "mapped"
                                    /\ st_size > mapped))
      /\ UNCHANGED orphans
  BY DEF Unmap
<1>3. /\ mapped \in Nat /\ st_size \in Nat /\ lost \in Nat /\ orphans \in Nat
      /\ strayed \in BOOLEAN
  BY HttpConnAssumption DEF SendInv, SendTypes, FileLens
<1>4. /\ mapped > 0 <=> m_file_address = "mapped"
      /\ FileReply => mapped = st_size \/ m_file_address = "failed"
      /\ lost + (IF FileReply THEN 0 ELSE mapped) <= orphans
      /\ strayed => orphans > 0
  BY DEF SendInv, MapInv
<1>5. lost' \in Nat /\ lost' <= orphans
  <2>1. CASE FileReply /\ m_file_address = "mapped"
    <3>1. mapped = st_size /\ lost <= orphans
      BY <1>3, <1>4, <2>1
    <3> QED BY <1>2, <1>3, <3>1 DEF Least
  <2>2. CASE FileReply /\ m_file_address # "mapped"
    <3>1. mapped = 0 /\ lost <= orphans
      BY <1>3, <1>4, <2>2
    <3> QED BY <1>2, <1>3, <3>1 DEF Least
  <2>3. CASE ~FileReply
    <3>1. lost + mapped <= orphans
      BY <1>4, <2>3
    <3> QED BY <1>2, <1>3, <3>1 DEF Least
  <2> QED BY <2>1, <2>2, <2>3
\* A length that is not the mapping's is another file's: others left this one.
<1>6. strayed' => orphans > 0
  <2>1. CASE m_file_address = "mapped" /\ st_size > mapped
    <3>1. ~FileReply /\ mapped > 0
      BY <1>3, <1>4, <2>1
    <3>2. lost + mapped <= orphans
      BY <1>4, <3>1
    <3> QED BY <1>3, <3>1, <3>2
  <2>2. CASE ~(m_file_address = "mapped" /\ st_size > mapped)
    BY <1>2, <1>4, <2>2
  <2> QED BY <2>1, <2>2
<1>7. strayed' \in BOOLEAN
  BY <1>2, <1>3
<1>8. MapInv'
  BY <1>1, <1>2, <1>3, <1>5, <1>6 DEF MapInv
<1> QED BY <1>2, <1>5, <1>7, <1>8

\* Where the vector is advanced to, it stays a vector.
LEMMA AdvanceTyped ==
    ASSUME SendTypes, NEW have \in Nat, NEW left \in Nat, Advance(have, left)
    PROVE  /\ iov0' \in [base : Int, len : Nat]
           /\ iov1' \in [base : Int, len : Nat]
<1>1. /\ iov0 \in [base : Int, len : Nat] /\ iov1 \in [base : Int, len : Nat]
      /\ HeadLen \in Nat
  BY HttpConnAssumption DEF SendTypes
<1>2. CASE have >= iov0.len
  BY <1>1, <1>2 DEF Advance
<1>3. CASE ~(have >= iov0.len)
  <2>1. /\ iov0' = [base |-> have, len |-> iov0.len - have]
        /\ iov1' = iov1 /\ iov0.len - have \in Nat /\ have \in Int
    BY <1>1, <1>3 DEF Advance
  <2> QED BY <1>1, <2>1
<1> QED BY <1>2, <1>3

LEMMA WritevLastStep ==
    ASSUME SendInv, NEW n, WritevLast(n)
    PROVE  SendInv'
<1>1. /\ pc = "write" /\ n \in 1..Remaining /\ n >= bytes_to_send
      /\ Unmap
      /\ answered' = answered + 1
      /\ intact' = (intact /\ InPlace(n))
      /\ interest' = "in"
      /\ \/ pc' = "wait" /\ bytes_to_send' = 0 /\ bytes_have_send' = 0
         \/ /\ pc' = "closed"
            /\ bytes_have_send' = bytes_have_send + n
            /\ bytes_to_send' = bytes_to_send - n
      /\ Advance(bytes_have_send + n, bytes_to_send - n)
      /\ UNCHANGED <<ret, st_size, m_iv_count, writes, clients, asked, odd,
                     orphans>>
  BY DEF WritevLast, Fresh
<1>2. Sending /\ ~Sending'
  BY <1>1 DEF Sending
<1>3. {bytes_to_send', bytes_have_send'} \subseteq 0..(HeadLen + MaxFileLen)
  <2>1. n = bytes_to_send
    BY <1>1, VectorFacts
  <2>2. /\ bytes_have_send + bytes_to_send
              = HeadLen + (IF m_iv_count = 2 THEN st_size ELSE 0)
        /\ st_size \in 0..MaxFileLen
    BY <1>2 DEF SendInv, CountInv, SendTypes, FileLens
  <2> QED BY <1>1, <2>1, <2>2, VectorFacts
<1>4. intact' \in BOOLEAN
  BY <1>1
<1>5. iov0' \in [base : Int, len : Nat] /\ iov1' \in [base : Int, len : Nat]
  <2>1. n = bytes_to_send /\ bytes_have_send + n \in Nat
    BY <1>1, VectorFacts
  <2>2. bytes_to_send - n \in Nat
    BY <2>1, <1>1, VectorFacts
  <2> QED BY <1>1, <2>1, <2>2, AdvanceTyped DEF SendInv
<1>6. /\ MapInv'
       /\ m_file_address' = "null" /\ mapped' = 0
       /\ lost' \in Nat /\ strayed' \in BOOLEAN
  BY <1>1, <1>2, ReleaseStep
<1>7. SendTypes'
  <2>1. mapped' \in FileLens
    BY <1>6, HttpConnAssumption DEF FileLens
  <2>2. answered' \in Nat
    BY <1>1 DEF SendInv, SendTypes
  <2> QED BY <1>1, <1>3, <1>4, <1>5, <1>6, <2>1, <2>2 DEF SendInv, SendTypes
<1>8. CountInv'
  BY <1>1, <1>2 DEF CountInv, Answering
<1>9. VectorInv'
  BY <1>1, <1>2, InOrder DEF SendInv, VectorInv
<1> QED BY <1>7, <1>8, <1>9, <1>6 DEF SendInv

\* do_request maps the file it has found, or fails to; a mapping that others
\* left at the address is lost.
LEMMA DoRequestStep ==
    ASSUME SendInv, NEW code \in Outcomes, NEW size \in FileLens,
           DoRequest(code, size)
    PROVE  SendInv'
<1>1. /\ pc = "do_request" /\ pc' = "process_write"
      /\ ret' = code /\ st_size' = size
      /\ IF code = "FILE_REQUEST" THEN Mmap(size)
           ELSE UNCHANGED <<m_file_address, mapped, lost>>
      /\ UNCHANGED <<interest, iov0, iov1, m_iv_count, bytes_to_send,
                     bytes_have_send, writes, intact, clients, asked,
                     answered, odd, orphans, strayed>>
  BY DEF DoRequest, sendVars, history
<1>2. ret' \in Codes
  BY <1>1 DEF Outcomes, Codes
<1>3. ~Sending /\ ~Sending' /\ ~FileReply /\ Answering
  BY <1>1 DEF Sending, FileReply, Answering
<1>4. /\ mapped \in Nat /\ lost \in Nat /\ orphans \in Nat
      /\ m_file_address \in {"null", "mapped", "failed"}
      /\ mapped \in FileLens /\ 0 \in FileLens /\ size \in Nat
      /\ mapped > 0 <=> m_file_address = "mapped"
      /\ lost + mapped <= orphans
      /\ strayed => orphans > 0
  BY <1>3, HttpConnAssumption DEF SendInv, SendTypes, MapInv, FileLens
<1>5. /\ m_file_address' \in {"null", "mapped", "failed"}
      /\ mapped' \in FileLens /\ lost' \in Nat
      /\ mapped' > 0 <=> m_file_address' = "mapped"
      /\ FileReply' => mapped' = st_size' \/ m_file_address' = "failed"
      /\ lost' + (IF FileReply' THEN 0 ELSE mapped') <= orphans'
  <2>1. CASE code = "FILE_REQUEST"
    <3>1. Mmap(size) /\ lost' = lost + mapped /\ lost' <= orphans'
      BY <1>1, <1>4, <2>1 DEF Mmap
    <3>2. CASE size # 0 /\ m_file_address' = "mapped" /\ mapped' = size
      <4>1. FileReply'
        BY <1>1, <2>1, <3>2 DEF FileReply
      <4> QED BY <1>1, <1>4, <3>1, <3>2, <4>1
    <3>3. CASE m_file_address' = "failed" /\ mapped' = 0
      BY <1>4, <3>1, <3>3
    <3> QED BY <3>1, <3>2, <3>3 DEF Mmap
  <2>2. CASE code # "FILE_REQUEST"
    <3>1. ~FileReply'
      BY <1>1, <2>2 DEF FileReply
    <3> QED BY <1>1, <1>4, <2>2, <3>1
  <2> QED BY <2>1, <2>2
<1>6. SendTypes'
  BY <1>1, <1>2, <1>5 DEF SendInv, SendTypes
<1>7. CountInv' /\ VectorInv'
  BY <1>1, <1>3 DEF SendInv, CountInv, VectorInv
<1>8. MapInv'
  BY <1>1, <1>4, <1>5 DEF MapInv
<1> QED BY <1>6, <1>7, <1>8 DEF SendInv

LEMMA SendStep == SendInv /\ [Next]_vars => SendInv'
<1> SUFFICES ASSUME SendInv, [Next]_vars
             PROVE  SendInv'
  OBVIOUS
<1>1. ASSUME NEW kind \in Kinds, Ask(kind)
      PROVE  SendInv'
  <2>1. /\ asked' = Append(asked, kind)
        /\ odd' \in {odd, odd \cup {"early"}}
        /\ UNCHANGED <<pc, interest, ret, st_size, m_file_address, mapped,
                       lost, strayed, iov0, iov1, m_iv_count,
                       bytes_to_send, bytes_have_send, writes, intact, clients,
                       answered, orphans>>
    BY <1>1 DEF Ask, fileVars, sendVars
  <2>2. asked' \in Seq(Kinds)
    BY <2>1 DEF SendInv, SendTypes
  <2>3. SendTypes'
    BY <2>1, <2>2 DEF SendInv, SendTypes
  <2>4. CountInv'
    BY <2>1 DEF SendInv, CountInv, Sending, Answering
  <2>5. VectorInv'
    BY <2>1 DEF SendInv, VectorInv, Sending, Untouched, InHead, InFile
  <2>6. MapInv'
    BY <2>1 DEF SendInv, MapInv, FileReply
  <2> QED BY <2>3, <2>4, <2>5, <2>6 DEF SendInv
<1>2. CASE CloseFromOutside
  <2>1. /\ pc = "wait" /\ pc' = "closed"
        /\ orphans' = orphans + (IF FileReply THEN mapped ELSE 0)
        /\ UNCHANGED <<interest, ret, st_size, m_file_address, mapped, lost,
                       strayed, iov0,
                       iov1, m_iv_count, bytes_to_send, bytes_have_send,
                       writes, intact, clients, answered, asked, odd>>
    BY <1>2 DEF CloseFromOutside, fileVars, sendVars
  <2>2. mapped \in Nat /\ orphans \in Nat /\ lost \in Nat
    BY HttpConnAssumption DEF SendInv, SendTypes, FileLens
  <2>3. ~Sending' /\ ~Answering' /\ ~FileReply'
    BY <2>1 DEF Sending, Answering, FileReply
  <2>4. orphans' \in Nat
    BY <2>1, <2>2
  <2>5. SendTypes'
    BY <2>1, <2>4 DEF SendInv, SendTypes
  <2>6. CountInv' /\ VectorInv'
    BY <2>1, <2>3 DEF SendInv, CountInv, VectorInv
  <2>7. MapInv'
    BY <2>1, <2>2, <2>3 DEF SendInv, MapInv
  <2> QED BY <2>5, <2>6, <2>7 DEF SendInv
<1>3. CASE NewClient
  <2>1. /\ pc = "closed" /\ pc' = "wait" /\ interest' = "in"
        /\ bytes_to_send' = 0 /\ bytes_have_send' = 0
        /\ clients' = clients + 1 /\ asked' = <<>> /\ answered' = 0
        /\ odd' = {} /\ intact' = TRUE
        /\ UNCHANGED <<ret, st_size, m_file_address, mapped, lost,
                       strayed, iov0, iov1,
                       m_iv_count, writes, orphans>>
    BY <1>3 DEF NewClient, Fresh, fileVars
  <2>2. 0 \in 0..(HeadLen + MaxFileLen)
    BY HttpConnAssumption
  <2>3. SendTypes' /\ CountInv' /\ VectorInv'
    BY <2>1, <2>2 DEF SendInv, SendTypes, CountInv, VectorInv, Sending
  <2>4. MapInv'
    BY <2>1 DEF SendInv, MapInv, FileReply
  <2> QED BY <2>3, <2>4 DEF SendInv
<1>4. ASSUME NEW k, ReadOnce(k)
      PROVE  SendInv'
  <2>1. ret' \in Codes
    BY <1>4 DEF ReadOnce, SendInv, SendTypes, Codes
  <2> QED BY <1>4, <2>1, Quiet DEF ReadOnce, Answering, history
<1>5. ASSUME NEW i, NoLine(i) \/ RequestLine(i) \/ Header(i)
      PROVE  SendInv'
  <2>1. /\ pc = "process_read"
        /\ ret' \in {ret, "BAD_REQUEST"}
        /\ pc' \in {"process_read", "do_request", "process_write"}
                \/ (pc' = "wait" /\ interest' = "in")
        /\ pc' = "process_write" => ret' = "BAD_REQUEST"
        /\ UNCHANGED <<fileVars, sendVars, clients, answered, orphans, asked,
                       odd>>
    BY <1>5 DEF NoLine, RequestLine, Header, AtLine, LineAt, history
  <2>2. ret' \in Codes
    BY <2>1 DEF SendInv, SendTypes, Codes
  <2> QED BY <2>1, <2>2, Quiet DEF Answering
<1>6. ASSUME NEW buf, NEW checked, pc = "process_read",
             ParseContent(buf, checked)
      PROVE  SendInv'
  <2>1. /\ pc' \in {"process_read", "do_request"}
        /\ odd' \in {odd, odd \cup {"split"}}
        /\ UNCHANGED <<fileVars, sendVars, clients, answered, orphans, asked,
                       ret>>
    BY <1>6 DEF ParseContent, TakeBody, AwaitBody
  <2>2. ret' \in Codes
    BY <2>1 DEF SendInv, SendTypes
  <2> QED BY <1>6, <2>1, <2>2, Quiet DEF Answering
<1>7. ASSUME NEW i, Content \/ ContentLine(i)
      PROVE  SendInv'
  BY <1>6, <1>7 DEF Content, ContentLine, LineAt, AtLine
<1>8. CASE NoAnswer
  <2>1. /\ pc = "process_write" /\ pc' = "closed" /\ ret = "NO_RESOURCE"
        /\ UNCHANGED <<interest, ret, st_size, m_file_address, mapped, lost,
                       strayed, iov0,
                       iov1, m_iv_count, bytes_to_send, bytes_have_send,
                       writes, intact, clients, answered, asked, odd, orphans>>
    BY <1>8 DEF NoAnswer, fileVars, sendVars, history
  <2>2. SendTypes' /\ CountInv' /\ VectorInv'
    BY <2>1 DEF SendInv, SendTypes, CountInv, VectorInv, Sending, Answering
  <2>3. MapInv'
    BY <2>1 DEF SendInv, MapInv, FileReply
  <2> QED BY <2>2, <2>3 DEF SendInv
\* write() is called, or waits for the socket.
<1>9. CASE BeginWrite \/ WritevAgain
  <2>1. /\ Sending /\ Sending' /\ ~Answering' /\ FileReply' = FileReply
        /\ pc' \in {"wait", "write"} /\ interest' \in {"in", "out"}
        /\ UNCHANGED <<ret, st_size, m_file_address, mapped, lost,
                       strayed, iov0,
                       iov1, m_iv_count, bytes_to_send, bytes_have_send,
                       writes, intact, clients, answered, asked, odd, orphans>>
    BY <1>9 DEF BeginWrite, WritevAgain, Sending, Answering, FileReply,
                fileVars, sendVars, history
  <2>2. SendTypes' /\ CountInv'
    BY <2>1 DEF SendInv, SendTypes, CountInv
  <2>3. VectorInv' /\ MapInv'
    BY <2>1 DEF SendInv, VectorInv, MapInv, Untouched, InHead, InFile
  <2> QED BY <2>2, <2>3 DEF SendInv
<1>10. CASE WritevFails
  <2>1. /\ pc = "write" /\ pc' = "closed" /\ Unmap
        /\ UNCHANGED <<interest, ret, st_size, iov0, iov1, m_iv_count,
                       bytes_to_send, bytes_have_send, writes, intact,
                       clients, answered, asked, odd, orphans>>
    BY <1>10 DEF WritevFails, sendVars, history
  <2>2. /\ MapInv' /\ ~Sending'
        /\ m_file_address' = "null" /\ mapped' = 0
        /\ lost' \in Nat /\ strayed' \in BOOLEAN
    BY <2>1, ReleaseStep DEF Sending
  <2>3. mapped' \in FileLens
    BY <2>2, HttpConnAssumption DEF FileLens
  <2>4. SendTypes'
    BY <2>1, <2>2, <2>3 DEF SendInv, SendTypes
  <2>5. CountInv' /\ VectorInv'
    BY <2>1, <2>2 DEF SendInv, CountInv, VectorInv, Sending, Answering
  <2> QED BY <2>2, <2>4, <2>5 DEF SendInv
<1>11. CASE UNCHANGED vars
  BY <1>11 DEF vars, fileVars, sendVars, history, SendInv, SendTypes, CountInv,
               VectorInv, MapInv, Sending, Answering, FileReply, Untouched,
               InHead, InFile
<1> QED
  BY <1>1, <1>2, <1>3, <1>4, <1>5, <1>7, <1>8, <1>9, <1>10, <1>11,
     DoRequestStep, MakeVector, WritevStep, WritevLastStep
  DEF Next, Receives, Processes, Sends, WritevFaults, WritevNothing

-----------------------------------------------------------------------------
(* What is received, and what is made of it.                               *)

\* The request a slot is busy with.
Request == Text[Current]

Facts(check, post, keep, length) ==
    /\ m_check_state = check /\ cgi = post
    /\ m_linger = keep /\ m_content_length = length

\* Every symbol of the request is on the wire or in the buffer, and behind
\* m_start_line the buffer has it as it was sent.
Received ==
    /\ m_read_idx + Len(wire) = Len(Request)
    /\ \A k \in 1..Len(wire) : wire[k] = Request[m_read_idx + k]
    /\ \A i \in m_start_line..(m_read_idx - 1) : m_read_buf[i] = Request[i + 1]

AtStart == m_start_line = 0 /\ Facts("REQUESTLINE", 0, FALSE, 0)

InRequestLine == AtStart /\ m_checked_idx <= 1

InHeaders ==
    \/ /\ Current = "get" /\ Facts("HEADER", 0, FALSE, 0)
       /\ m_start_line = 3 /\ m_checked_idx = 3
    \/ /\ Current = "keep" /\ Facts("HEADER", 0, FALSE, 0)
       /\ m_start_line = 3 /\ m_checked_idx <= 4
    \/ /\ Current = "keep" /\ Facts("HEADER", 0, TRUE, 0)
       /\ m_start_line = 6 /\ m_checked_idx = 6
    \/ /\ Current = "post" /\ Facts("HEADER", 1, FALSE, 0)
       /\ m_start_line = 3 /\ m_checked_idx <= 4
    \/ /\ Current = "post" /\ Facts("HEADER", 1, FALSE, BodyLen)
       /\ m_start_line = 6 /\ m_checked_idx = 6

\* parse_line has gone into the body only if it came in pieces.
InBody ==
    /\ Current = "post" /\ Facts("CONTENT", 1, FALSE, BodyLen)
    /\ m_start_line >= 8
    /\ m_checked_idx > 8 \/ line_status = "OPEN" => "split" \in odd

Idle ==
    /\ pc = "wait" /\ interest = "in"
    /\ answered = Len(asked) /\ wire = <<>>
    /\ AtStart /\ m_checked_idx = 0 /\ m_read_idx = 0

Parsing ==
    /\ pc = "process_read" \/ (pc = "wait" /\ interest = "in")
    /\ Received
    /\ InRequestLine \/ InHeaders \/ InBody
    /\ pc = "process_read" /\ m_check_state # "CONTENT" => line_status = "OK"
    /\ pc = "wait" => \/ m_read_idx < Len(Request)
                      \/ "split" \in odd \/ Current = "bare"

Parsed ==
    /\ pc = "do_request" /\ wire = <<>>
    /\ \/ Current = "get" /\ Facts("HEADER", 0, FALSE, 0)
       \/ Current = "keep" /\ Facts("HEADER", 0, TRUE, 0)
       \/ /\ Current = "post" /\ Facts("CONTENT", 1, FALSE, BodyLen)
          /\ \A k \in DOMAIN Body : m_read_buf[m_string + k - 1] = Body[k]

Responding ==
    /\ pc \in {"process_write", "write"} \/ (pc = "wait" /\ interest = "out")
    /\ m_linger => wire = <<>>
    /\ m_check_state = "REQUESTLINE" => Current = "bad"

\* A slot whose client waits for its answers waits for a request, or is busy
\* with the one that the client sent last.
ReaderInv ==
    /\ pc = "closed" => wire = <<>>
    /\ pc # "closed" /\ "early" \notin odd =>
        \/ Idle
        \/ answered + 1 = Len(asked) /\ (Parsing \/ Parsed \/ Responding)

IInv == ReadTypes /\ SendInv

\* A line that ends in front of CR LF at position e, and has text in front.
EndsAt(e) ==
    /\ e \in Nat /\ e + 2 <= Len(Request)
    /\ m_start_line <= e /\ m_checked_idx <= e
    /\ \A j \in m_start_line..(e - 1) : Request[j + 1] \notin {"CR", "LF"}
    /\ Request[e + 1] = "CR" /\ Request[e + 2] = "LF"

LEMMA TextFacts ==
    /\ Text["get"] = <<"GET", "CR", "LF", "CR", "LF">>
    /\ Text["keep"] = <<"GET", "CR", "LF", "KEEP", "CR", "LF", "CR", "LF">>
    /\ Text["bad"] = <<"HUH", "CR", "LF", "CR", "LF">>
    /\ Text["bare"] = <<"GET", "LF", "CR", "LF">>
    /\ Text["post"] = <<"POST", "CR", "LF", "LEN", "CR", "LF", "CR", "LF",
                        "BODY1", "CR", "LF", "BODY2">>
<1> DEFINE head == <<"POST", "CR", "LF", "LEN", "CR", "LF", "CR", "LF">>
           all == <<"POST", "CR", "LF", "LEN", "CR", "LF", "CR", "LF",
                    "BODY1", "CR", "LF", "BODY2">>
<1>1. /\ head \in Seq(Symbols) /\ Body \in Seq(Symbols)
      /\ all \in Seq(Symbols)
      /\ Len(head) = 8 /\ Len(Body) = 4 /\ Len(all) = 12
  BY DEF Body, Symbols
<1>2. /\ \A k \in 1..8 : head[k] = all[k]
      /\ \A k \in 9..12 : Body[k - 8] = all[k]
  BY DEF Body
<1> HIDE DEF head, all
<1>3. /\ head \o Body \in Seq(Symbols) /\ Len(head \o Body) = 12
      /\ \A k \in 1..12 : (head \o Body)[k] =
                            IF k <= 8 THEN head[k] ELSE Body[k - 8]
  <2>1. /\ head \o Body \in Seq(Symbols)
        /\ Len(head \o Body) = Len(head) + Len(Body)
        /\ \A k \in 1..Len(head) + Len(Body) : (head \o Body)[k] =
                IF k <= Len(head) THEN head[k] ELSE Body[k - Len(head)]
    BY <1>1, ConcatProperties, Zenon
  <2>2. Len(head) + Len(Body) = 12
    BY <1>1
  <2> QED BY <1>1, <2>1, <2>2
<1>4. head \o Body = all
  <2>1. ASSUME NEW k \in 1..12
        PROVE  (head \o Body)[k] = all[k]
    <3>1. CASE k <= 8
      <4>1. k \in 1..8
        BY <3>1
      <4>2. (head \o Body)[k] = head[k]
        BY <1>3, <3>1, Zenon
      <4>3. head[k] = all[k]
        BY <1>2, <4>1, Zenon
      <4> QED BY <4>2, <4>3
    <3>2. CASE ~(k <= 8)
      <4>1. k \in 9..12
        BY <3>2
      <4> QED BY <1>2, <1>3, <3>2, <4>1, Zenon
    <3> QED BY <3>1, <3>2
  <2> QED BY <1>1, <1>3, <2>1, SeqEqual, Zenon
<1> QED BY <1>4 DEF head, all, Text

\* All requests but one begin with a line that ends in CR LF.
LEMMA RequestLines ==
    ASSUME Current \in {"get", "keep", "post", "bad"}
    PROVE  /\ 3 <= Len(Request) /\ Request[1] \notin {"CR", "LF"}
           /\ Request[2] = "CR" /\ Request[3] = "LF"
<1>1. CASE Current = "get"
  BY <1>1, TextFacts DEF Request
<1>2. CASE Current = "keep"
  BY <1>2, TextFacts DEF Request
<1>3. CASE Current = "post"
  BY <1>3, TextFacts DEF Request
<1>4. CASE Current = "bad"
  BY <1>4, TextFacts DEF Request
<1> QED BY <1>1, <1>2, <1>3, <1>4

\* parse_line finds exactly the end of the line it is in, and calls the line
\* complete exactly when its CR LF has been received.
LEMMA Scan ==
    ASSUME ReadTypes, Received, NEW e, EndsAt(e), NEW i, Stop(i)
    PROVE  /\ i \in m_checked_idx..e
           /\ ParseLine(i) = "OK" <=> m_read_idx >= e + 2
           /\ ParseLine(i) = "OK" =>
                /\ CrOf(i) = e
                /\ m_start_line < e => Line(i) = Request[m_start_line + 1]
                /\ m_start_line = e => Line(i) = "NUL"
<1>1. /\ READ_BUFFER_SIZE \in Nat /\ m_read_idx \in 0..READ_BUFFER_SIZE
      /\ m_checked_idx \in 0..m_read_idx /\ m_start_line \in 0..m_checked_idx
      /\ e \in Nat /\ m_checked_idx <= e /\ m_start_line <= e
      /\ i \in m_checked_idx..m_read_idx
  BY HttpConnAssumption DEF ReadTypes, EndsAt, Stop
<1>2. \A j \in m_start_line..(m_read_idx - 1) : m_read_buf[j] = Request[j + 1]
  BY DEF Received
<1>3. i <= e
  <2> SUFFICES ASSUME i > e PROVE FALSE
    BY <1>1
  <2>1. m_read_buf[e] = "CR"
    BY <1>1, <1>2 DEF EndsAt
  <2> QED BY <1>1, <2>1 DEF Stop
<1>4. ASSUME i < m_read_idx
      PROVE  i = e /\ m_read_buf[i] = "CR" /\ CrOf(i) = e
  <2>1. i \in m_start_line..(m_read_idx - 1)
    BY <1>1, <1>4
  <2>2. m_read_buf[i] = Request[i + 1] /\ m_read_buf[i] \in {"CR", "LF"}
    BY <1>2, <1>4, <2>1 DEF Stop
  <2>3. i = e
    <3> SUFFICES ASSUME i < e PROVE FALSE
      BY <1>1, <1>3
    <3>1. i \in m_start_line..(e - 1)
      BY <1>1
    <3> QED BY <2>2, <3>1 DEF EndsAt
  <2> QED BY <2>2, <2>3 DEF EndsAt, CrOf
<1>5. ASSUME m_read_idx >= e + 2
      PROVE  ParseLine(i) = "OK"
  <2>1. i < m_read_idx /\ i + 1 < m_read_idx
    BY <1>1, <1>3, <1>5
  <2>2. i = e /\ m_read_buf[i] = "CR" /\ CrOf(i) = e
    BY <1>4, <2>1
  <2>3. m_read_buf[e + 1] = "LF"
    <3>1. e + 1 \in m_start_line..(m_read_idx - 1)
      BY <1>1, <1>5
    <3>2. m_read_buf[e + 1] = Request[(e + 1) + 1]
      BY <1>2, <3>1
    <3> QED BY <1>1, <3>2 DEF EndsAt
  <2> QED BY <1>1, <2>1, <2>2, <2>3 DEF ParseLine
<1>6. ASSUME ParseLine(i) = "OK"
      PROVE  i = e /\ m_read_idx >= e + 2
  <2>1. i # m_read_idx /\ ~(m_read_buf[i] = "CR" /\ i + 1 = m_read_idx)
    BY <1>6 DEF ParseLine
  <2> QED BY <1>1, <1>4, <2>1
<1>7. ASSUME ParseLine(i) = "OK"
      PROVE  /\ CrOf(i) = e
             /\ m_start_line < e => Line(i) = Request[m_start_line + 1]
             /\ m_start_line = e => Line(i) = "NUL"
  <2>1. CrOf(i) = e /\ m_read_idx >= e + 2
    BY <1>1, <1>4, <1>6, <1>7
  <2>2. m_start_line \in Positions /\ e \in Positions /\ e + 1 \in Positions
    BY <1>1, <2>1 DEF Positions
  <2>3. Line(i) = [m_read_buf EXCEPT ![e] = "NUL", ![e + 1] = "NUL"]
                        [m_start_line]
    BY <2>1 DEF Line, Terminated
  <2>4. m_start_line = e => Line(i) = "NUL"
    BY <1>1, <2>2, <2>3 DEF ReadTypes
  <2>5. ASSUME m_start_line < e
        PROVE  Line(i) = Request[m_start_line + 1]
    <3>1. Line(i) = m_read_buf[m_start_line]
      BY <1>1, <2>2, <2>3, <2>5 DEF ReadTypes
    <3>2. m_start_line \in m_start_line..(m_read_idx - 1)
      BY <1>1, <2>1
    <3> QED BY <1>2, <3>1, <3>2
  <2> QED BY <2>1, <2>4, <2>5
<1> QED BY <1>1, <1>3, <1>5, <1>6, <1>7

\* A request that is being read is the one that the client sent last.
LEMMA WhenReading ==
    ASSUME ReadTypes, SendTypes, ReaderInv, pc = "process_read",
           "early" \notin odd
    PROVE  /\ Parsing /\ answered + 1 = Len(asked)
           /\ Current \in {"get", "keep", "post", "bad", "bare"}
<1>1. Parsing /\ answered + 1 = Len(asked)
  BY DEF ReaderInv, Idle, Parsed, Responding
<1>2. Len(asked) \in 1..Len(asked) /\ asked \in Seq(Kinds)
  BY <1>1 DEF SendTypes
<1>3. Current \in Kinds
  BY <1>2 DEF Current
<1> QED BY <1>1, <1>3, HttpConnAssumption DEF Text

\* A line that is complete is cut off the buffer's front; what comes behind
\* it stays as it was sent.
LEMMA LineKept ==
    ASSUME ReadTypes, Received, NEW i, Stop(i), ParseLine(i) = "OK",
           m_start_line' = CrOf(i) + 2,
           \A j \in (CrOf(i) + 2)..(m_read_idx - 1) :
                m_read_buf'[j] = Terminated(i)[j],
           UNCHANGED <<m_read_idx, wire, asked>>
    PROVE  Received'
<1>1. /\ READ_BUFFER_SIZE \in Nat /\ m_read_idx \in 0..READ_BUFFER_SIZE
      /\ m_checked_idx \in 0..m_read_idx /\ m_start_line \in 0..m_checked_idx
      /\ CrOf(i) \in 0..(m_read_idx - 2)
      /\ CrOf(i) + 2 \in m_checked_idx..m_read_idx
  BY LineWithin, HttpConnAssumption DEF ReadTypes
<1>2. Request' = Request
  BY DEF Request, Current
<1>3. ASSUME NEW j \in m_start_line'..(m_read_idx' - 1)
      PROVE  m_read_buf'[j] = Request[j + 1]
  <2>1. /\ j \in (CrOf(i) + 2)..(m_read_idx - 1)
        /\ j \in m_start_line..(m_read_idx - 1)
        /\ j \in Positions /\ j # CrOf(i) /\ j # CrOf(i) + 1
    BY <1>1, <1>3 DEF Positions
  <2>2. Terminated(i)[j] = m_read_buf[j]
    BY <2>1 DEF Terminated, ReadTypes
  <2> QED BY <2>1, <2>2 DEF Received
<1> QED BY <1>2, <1>3 DEF Received

LEMMA NoLineStep ==
    ASSUME ReadTypes, SendTypes, ReaderInv, NEW i, NoLine(i)
    PROVE  ReaderInv'
<1>1. /\ pc = "process_read" /\ pc' = "wait" /\ interest' = "in"
      /\ Stop(i) /\ ParseLine(i) # "OK" /\ m_checked_idx' = i
      /\ ~(m_check_state = "CONTENT" /\ line_status = "OK")
      /\ UNCHANGED <<wire, m_read_buf, m_read_idx, m_start_line,
                     m_check_state, line_status, cgi, m_linger,
                     m_content_length, m_string, asked, answered, odd>>
  BY DEF NoLine, AtLine, factVars, history
<1> SUFFICES ASSUME "early" \notin odd
             PROVE  Parsing' /\ answered + 1 = Len(asked)
  BY <1>1 DEF ReaderInv
<1>2. /\ Parsing /\ answered + 1 = Len(asked)
      /\ Current \in {"get", "keep", "post", "bad", "bare"}
  BY <1>1, WhenReading
<1>3. /\ READ_BUFFER_SIZE \in Nat /\ m_read_idx \in 0..READ_BUFFER_SIZE
      /\ m_checked_idx \in 0..m_read_idx /\ m_start_line \in 0..m_checked_idx
      /\ i \in m_checked_idx..m_read_idx
      /\ Received
  BY <1>1, <1>2, HttpConnAssumption DEF ReadTypes, Stop, Parsing
<1>4. Current' = Current /\ Request' = Request /\ Received'
  BY <1>1, <1>3 DEF Request, Current, Received
\* Inside a line that has an end, what is missing is still to be sent.
<1>5. ASSUME NEW e, EndsAt(e)
      PROVE  m_checked_idx' \in m_checked_idx..e
             /\ m_read_idx < Len(Request)
  <2>1. m_checked_idx' \in m_checked_idx..e /\ ~(m_read_idx >= e + 2)
    BY <1>1, <1>3, <1>5, Scan
  <2>2. e \in Nat /\ e + 2 <= Len(Request) /\ Len(Request) \in Int
    BY <1>2, <1>5, TextFacts DEF EndsAt, Request
  <2> QED BY <1>3, <2>1, <2>2
<1>6. CASE InRequestLine
  <2>1. CASE Current = "bare"
    <3>1. m_read_idx >= 2 => m_read_buf[1] = "LF"
      <4>1. m_read_idx >= 2 => 1 \in m_start_line..(m_read_idx - 1)
        BY <1>3, <1>6 DEF InRequestLine, AtStart
      <4>2. Request[1 + 1] = "LF"
        BY <2>1, TextFacts DEF Request
      <4> QED BY <1>3, <4>1, <4>2 DEF Received
    <3>2. i <= 1
      <4> SUFFICES ASSUME i > 1 PROVE FALSE
        BY <1>3
      <4>1. 1 \in m_checked_idx..(i - 1) /\ m_read_idx >= 2
        BY <1>3, <1>6 DEF InRequestLine
      <4> QED BY <1>1, <3>1, <4>1 DEF Stop
    <3>3. InRequestLine'
      BY <1>1, <1>6, <3>2 DEF InRequestLine, AtStart, Facts
    <3> QED BY <1>1, <1>2, <1>4, <2>1, <3>3 DEF Parsing
  <2>2. CASE Current # "bare"
    <3>1. EndsAt(1)
      <4>1. /\ 3 <= Len(Request) /\ Request[1] \notin {"CR", "LF"}
            /\ Request[2] = "CR" /\ Request[3] = "LF"
        BY <1>2, <2>2, RequestLines
      <4> QED BY <1>6, <4>1 DEF EndsAt, InRequestLine, AtStart
    <3>2. m_checked_idx' <= 1 /\ m_read_idx < Len(Request)
      BY <1>3, <1>5, <3>1
    <3>3. InRequestLine'
      BY <1>1, <1>6, <3>2 DEF InRequestLine, AtStart, Facts
    <3> QED BY <1>1, <1>2, <1>4, <3>2, <3>3 DEF Parsing
  <2> QED BY <2>1, <2>2
<1>7. CASE InHeaders
  <2>1. m_read_idx < Len(Request) /\ InHeaders'
    <3>1. CASE /\ Current = "get" /\ Facts("HEADER", 0, FALSE, 0)
               /\ m_start_line = 3 /\ m_checked_idx = 3
      <4>1. EndsAt(3)
        BY <3>1, TextFacts DEF EndsAt, Request
      <4>2. m_checked_idx' = 3 /\ m_read_idx < Len(Request)
        BY <1>5, <3>1, <4>1
      <4> QED BY <1>1, <1>4, <3>1, <4>2 DEF InHeaders, Facts
    <3>2. CASE /\ Current = "keep" /\ Facts("HEADER", 0, FALSE, 0)
               /\ m_start_line = 3 /\ m_checked_idx <= 4
      <4>1. EndsAt(4)
        BY <3>2, TextFacts DEF EndsAt, Request
      <4>2. m_checked_idx' <= 4 /\ m_read_idx < Len(Request)
        BY <1>3, <1>5, <3>2, <4>1
      <4> QED BY <1>1, <1>4, <3>2, <4>2 DEF InHeaders, Facts
    <3>3. CASE /\ Current = "keep" /\ Facts("HEADER", 0, TRUE, 0)
               /\ m_start_line = 6 /\ m_checked_idx = 6
      <4>1. EndsAt(6)
        BY <3>3, TextFacts DEF EndsAt, Request
      <4>2. m_checked_idx' = 6 /\ m_read_idx < Len(Request)
        BY <1>5, <3>3, <4>1
      <4> QED BY <1>1, <1>4, <3>3, <4>2 DEF InHeaders, Facts
    <3>4. CASE /\ Current = "post" /\ Facts("HEADER", 1, FALSE, 0)
               /\ m_start_line = 3 /\ m_checked_idx <= 4
      <4>1. EndsAt(4)
        BY <3>4, TextFacts DEF EndsAt, Request
      <4>2. m_checked_idx' <= 4 /\ m_read_idx < Len(Request)
        BY <1>3, <1>5, <3>4, <4>1
      <4> QED BY <1>1, <1>4, <3>4, <4>2 DEF InHeaders, Facts
    <3>5. CASE /\ Current = "post" /\ Facts("HEADER", 1, FALSE, BodyLen)
               /\ m_start_line = 6 /\ m_checked_idx = 6
      <4>1. EndsAt(6)
        BY <3>5, TextFacts DEF EndsAt, Request
      <4>2. m_checked_idx' = 6 /\ m_read_idx < Len(Request)
        BY <1>5, <3>5, <4>1
      <4> QED BY <1>1, <1>4, <3>5, <4>2 DEF InHeaders, Facts
    <3> QED BY <1>7, <3>1, <3>2, <3>3, <3>4, <3>5 DEF InHeaders
  <2> QED BY <1>1, <1>2, <1>4, <2>1 DEF Parsing
\* In the body parse_line is only called when the body has come in pieces.
<1>8. CASE InBody
  <2>1. line_status = "OPEN" /\ "split" \in odd
    BY <1>1, <1>8 DEF InBody, Facts, ReadTypes
  <2>2. InBody'
    BY <1>1, <1>4, <1>8, <2>1 DEF InBody, Facts
  <2> QED BY <1>1, <1>2, <1>4, <2>1, <2>2 DEF Parsing
<1> QED BY <1>2, <1>6, <1>7, <1>8 DEF Parsing

\* Behind the request line come the headers, unless it was none.
LEMMA RequestLineStep ==
    ASSUME ReadTypes, SendTypes, ReaderInv, NEW i, RequestLine(i)
    PROVE  ReaderInv'
<1>1. /\ pc = "process_read" /\ m_check_state = "REQUESTLINE"
      /\ Stop(i) /\ ParseLine(i) = "OK"
      /\ m_checked_idx' = CrOf(i) + 2 /\ m_start_line' = CrOf(i) + 2
      /\ m_read_buf' = Terminated(i)
      /\ UNCHANGED <<wire, m_read_idx, line_status, m_linger,
                     m_content_length, m_string, asked, answered, odd>>
  BY DEF RequestLine, AtLine, LineAt, history
<1>2. IF Line(i) \in {"GET", "POST"}
        THEN /\ m_check_state' = "HEADER"
             /\ cgi' = IF Line(i) = "POST" THEN 1 ELSE cgi
             /\ pc' = pc
        ELSE /\ pc' = "process_write" /\ UNCHANGED m_check_state
  BY DEF RequestLine
<1> SUFFICES ASSUME "early" \notin odd
             PROVE  (Parsing \/ Responding)' /\ answered + 1 = Len(asked)
  BY <1>1, <1>2 DEF ReaderInv
<1>3. /\ Parsing /\ answered + 1 = Len(asked)
      /\ Current \in {"get", "keep", "post", "bad", "bare"}
  BY <1>1, WhenReading
<1>4. /\ READ_BUFFER_SIZE \in Nat /\ m_read_idx \in 0..READ_BUFFER_SIZE
      /\ m_checked_idx \in 0..m_read_idx /\ m_start_line \in 0..m_checked_idx
      /\ i \in m_checked_idx..m_read_idx
      /\ Received /\ InRequestLine
  BY <1>1, <1>3, HttpConnAssumption
  DEF ReadTypes, Stop, Parsing, InHeaders, InBody, Facts
<1>5. Received' /\ Current' = Current /\ Request' = Request
  BY <1>1, <1>4, LineKept DEF Request, Current
<1>6. Current # "bare"
  <2> SUFFICES ASSUME Current = "bare" PROVE FALSE
    OBVIOUS
  <2>1. m_read_idx >= 2 => m_read_buf[1] = "LF"
    <3>1. m_read_idx >= 2 => 1 \in m_start_line..(m_read_idx - 1)
      BY <1>4 DEF InRequestLine, AtStart
    <3>2. Request[1 + 1] = "LF"
      BY TextFacts DEF Request
    <3> QED BY <1>4, <3>1, <3>2 DEF Received
  <2>2. m_read_idx >= 1 => m_read_buf[0] = "GET"
    <3>1. m_read_idx >= 1 => 0 \in m_start_line..(m_read_idx - 1)
      BY <1>4 DEF InRequestLine, AtStart
    <3>2. Request[0 + 1] = "GET"
      BY TextFacts DEF Request
    <3> QED BY <1>4, <3>1, <3>2 DEF Received
  <2>3. i # m_read_idx /\ (m_read_buf[i] = "LF" => i > 1)
    BY <1>1 DEF ParseLine
  <2>4. i < m_read_idx /\ m_read_buf[i] \in {"CR", "LF"}
    BY <1>1, <1>4, <2>3 DEF Stop
  <2>5. i > 1
    BY <1>4, <2>1, <2>2, <2>3, <2>4
  <2>6. 1 \in m_checked_idx..(i - 1) /\ m_read_idx >= 2
    BY <1>4, <2>4, <2>5 DEF InRequestLine
  <2> QED BY <1>1, <2>1, <2>6 DEF Stop
<1>7. EndsAt(1) /\ m_start_line = 0
  <2>1. /\ 3 <= Len(Request) /\ Request[1] \notin {"CR", "LF"}
        /\ Request[2] = "CR" /\ Request[3] = "LF"
    BY <1>3, <1>6, RequestLines
  <2> QED BY <1>4, <2>1 DEF EndsAt, InRequestLine, AtStart
<1>8. CrOf(i) = 1 /\ Line(i) = Request[1]
  BY <1>1, <1>4, <1>7, Scan
<1>9. CASE Current \in {"get", "keep", "post"}
  <2>1. Line(i) = IF Current = "post" THEN "POST" ELSE "GET"
    BY <1>8, <1>9, TextFacts DEF Request
  <2>2. InHeaders'
    BY <1>1, <1>2, <1>4, <1>5, <1>8, <1>9, <2>1
    DEF InHeaders, InRequestLine, AtStart, Facts
  <2>3. line_status = "OK"
    BY <1>1, <1>3 DEF Parsing
  <2> QED BY <1>1, <1>2, <1>3, <1>5, <2>1, <2>2, <2>3 DEF Parsing
<1>10. CASE Current = "bad"
  <2>1. Line(i) = "HUH"
    BY <1>8, <1>10, TextFacts DEF Request
  <2>2. pc' = "process_write" /\ m_linger' = FALSE
    BY <1>1, <1>2, <1>4, <2>1 DEF InRequestLine, AtStart, Facts
  <2> QED BY <1>3, <1>5, <1>10, <2>2 DEF Responding
<1> QED BY <1>3, <1>6, <1>9, <1>10

\* A header is noted; the blank line ends the headers, and the request too
\* unless a body was announced.
LEMMA HeaderStep ==
    ASSUME ReadTypes, SendTypes, ReaderInv, NEW i, Header(i)
    PROVE  ReaderInv'
<1>1. /\ pc = "process_read" /\ m_check_state = "HEADER"
      /\ Stop(i) /\ ParseLine(i) = "OK"
      /\ m_checked_idx' = CrOf(i) + 2 /\ m_start_line' = CrOf(i) + 2
      /\ m_read_buf' = Terminated(i)
      /\ UNCHANGED <<wire, m_read_idx, line_status, cgi, m_string, asked,
                     answered, odd>>
  BY DEF Header, AtLine, LineAt, history
<1>2. /\ m_check_state' = IF Line(i) = "NUL" /\ m_content_length # 0
                            THEN "CONTENT" ELSE m_check_state
      /\ pc' = IF Line(i) = "NUL" /\ m_content_length = 0
                 THEN "do_request" ELSE pc
      /\ m_linger' = (m_linger \/ Line(i) = "KEEP")
      /\ m_content_length' = IF Line(i) = "LEN" THEN BodyLen
                                                ELSE m_content_length
  BY DEF Header
<1> SUFFICES ASSUME "early" \notin odd
             PROVE  (Parsing \/ Parsed)' /\ answered + 1 = Len(asked)
  BY <1>1, <1>2 DEF ReaderInv
<1>3. /\ Parsing /\ answered + 1 = Len(asked)
      /\ Current \in {"get", "keep", "post", "bad", "bare"}
  BY <1>1, WhenReading
<1>4. /\ READ_BUFFER_SIZE \in Nat /\ m_read_idx \in 0..READ_BUFFER_SIZE
      /\ m_checked_idx \in 0..m_read_idx /\ m_start_line \in 0..m_checked_idx
      /\ i \in m_checked_idx..m_read_idx
      /\ Received /\ InHeaders /\ line_status = "OK"
  BY <1>1, <1>3, HttpConnAssumption
  DEF ReadTypes, Stop, Parsing, InRequestLine, AtStart, InBody, Facts
<1>5. Received' /\ Current' = Current /\ Request' = Request
  BY <1>1, <1>4, LineKept DEF Request, Current
\* What Scan says of the line.
<1>6. ASSUME NEW e, EndsAt(e)
      PROVE  /\ CrOf(i) = e /\ m_read_idx >= e + 2
             /\ m_start_line < e => Line(i) = Request[m_start_line + 1]
             /\ m_start_line = e => Line(i) = "NUL"
  BY <1>1, <1>4, <1>6, Scan
\* Behind the last line nothing is left on the wire.
<1>7. ASSUME NEW e \in Nat, EndsAt(e), Len(Request) = e + 2
      PROVE  wire = <<>>
  <2>1. m_read_idx >= e + 2 /\ m_read_idx + Len(wire) = e + 2
    BY <1>4, <1>6, <1>7 DEF Received
  <2>2. wire \in Seq(Symbols)
    BY DEF ReadTypes
  <2> QED BY <1>4, <2>1, <2>2
<1>8. CASE /\ Current = "get" /\ Facts("HEADER", 0, FALSE, 0)
           /\ m_start_line = 3 /\ m_checked_idx = 3
  <2>1. EndsAt(3) /\ Len(Request) = 3 + 2
    BY <1>8, TextFacts DEF EndsAt, Request
  <2>2. Line(i) = "NUL" /\ wire = <<>>
    BY <1>6, <1>7, <1>8, <2>1
  <2>3. Parsed'
    BY <1>1, <1>2, <1>5, <1>8, <2>2 DEF Parsed, Facts
  <2> QED BY <1>3, <2>3
<1>9. CASE /\ Current = "keep" /\ Facts("HEADER", 0, FALSE, 0)
           /\ m_start_line = 3 /\ m_checked_idx <= 4
  <2>1. EndsAt(4) /\ Request[3 + 1] = "KEEP"
    BY <1>9, TextFacts DEF EndsAt, Request
  <2>2. Line(i) = "KEEP" /\ CrOf(i) = 4
    BY <1>6, <1>9, <2>1
  <2>3. InHeaders'
    <3>1. m_start_line' = 6 /\ m_checked_idx' = 6
      BY <1>1, <2>2
    <3>2. Facts("HEADER", 0, TRUE, 0)'
      BY <1>1, <1>2, <1>9, <2>2 DEF Facts
    <3> QED BY <1>5, <1>9, <3>1, <3>2 DEF InHeaders
  <2> QED BY <1>1, <1>2, <1>3, <1>4, <1>5, <2>2, <2>3 DEF Parsing
<1>10. CASE /\ Current = "keep" /\ Facts("HEADER", 0, TRUE, 0)
            /\ m_start_line = 6 /\ m_checked_idx = 6
  <2>1. EndsAt(6) /\ Len(Request) = 6 + 2
    BY <1>10, TextFacts DEF EndsAt, Request
  <2>2. Line(i) = "NUL" /\ wire = <<>>
    BY <1>6, <1>7, <1>10, <2>1
  <2>3. Parsed'
    BY <1>1, <1>2, <1>5, <1>10, <2>2 DEF Parsed, Facts
  <2> QED BY <1>3, <2>3
<1>11. CASE /\ Current = "post" /\ Facts("HEADER", 1, FALSE, 0)
            /\ m_start_line = 3 /\ m_checked_idx <= 4
  <2>1. EndsAt(4) /\ Request[3 + 1] = "LEN"
    BY <1>11, TextFacts DEF EndsAt, Request
  <2>2. Line(i) = "LEN" /\ CrOf(i) = 4
    BY <1>6, <1>11, <2>1
  <2>3. InHeaders'
    <3>1. m_start_line' = 6 /\ m_checked_idx' = 6
      BY <1>1, <2>2
    <3>2. Facts("HEADER", 1, FALSE, BodyLen)'
      BY <1>1, <1>2, <1>11, <2>2 DEF Facts
    <3> QED BY <1>5, <1>11, <3>1, <3>2 DEF InHeaders
  <2> QED BY <1>1, <1>2, <1>3, <1>4, <1>5, <2>2, <2>3 DEF Parsing
<1>12. CASE /\ Current = "post" /\ Facts("HEADER", 1, FALSE, BodyLen)
            /\ m_start_line = 6 /\ m_checked_idx = 6
  <2>1. EndsAt(6)
    BY <1>12, TextFacts DEF EndsAt, Request
  <2>2. Line(i) = "NUL" /\ CrOf(i) = 6
    BY <1>6, <1>12, <2>1
  <2>3. InBody' /\ pc' = pc /\ m_check_state' = "CONTENT"
    <3>1. m_start_line' = 8 /\ m_checked_idx' = 8 /\ line_status' = "OK"
      BY <1>1, <1>4, <2>2
    <3>2. BodyLen # 0 /\ pc' = pc
      BY <1>2, <1>12, <2>2 DEF BodyLen, Facts
    <3>3. Facts("CONTENT", 1, FALSE, BodyLen)'
      BY <1>1, <1>2, <1>12, <2>2, <3>2 DEF Facts
    <3> QED BY <1>5, <1>12, <3>1, <3>2, <3>3 DEF InBody, Facts
  <2> QED BY <1>1, <1>3, <1>5, <2>3 DEF Parsing
<1> QED BY <1>4, <1>8, <1>9, <1>10, <1>11, <1>12 DEF InHeaders

\* The body is taken when it is there in one piece; a body in pieces is known
\* for one.
LEMMA ContentStep ==
    ASSUME ReadTypes, SendTypes, ReaderInv, Content
    PROVE  ReaderInv'
<1>1. /\ pc = "process_read" /\ m_check_state = "CONTENT"
      /\ m_start_line' = m_checked_idx /\ m_checked_idx' = m_checked_idx
      /\ IF m_read_idx >= m_content_length + m_checked_idx
           THEN TakeBody(m_read_buf) ELSE AwaitBody(m_read_buf)
      /\ UNCHANGED <<wire, m_read_idx, m_check_state, cgi, m_linger,
                     m_content_length, asked, answered>>
  BY DEF Content, ParseContent
<1>2. pc' # "closed" /\ ("early" \notin odd' => "early" \notin odd)
  BY <1>1 DEF TakeBody, AwaitBody
<1> SUFFICES ASSUME "early" \notin odd
             PROVE  (Parsing \/ Parsed)' /\ answered + 1 = Len(asked)
  BY <1>1, <1>2 DEF ReaderInv
<1>3. /\ Parsing /\ answered + 1 = Len(asked) /\ Received /\ InBody
  BY <1>1, WhenReading
  DEF Parsing, InRequestLine, AtStart, InHeaders, Facts
<1>4. /\ READ_BUFFER_SIZE \in Nat /\ m_read_idx \in 0..READ_BUFFER_SIZE
      /\ m_checked_idx \in 0..m_read_idx /\ m_start_line \in 8..m_checked_idx
      /\ m_content_length = 4
  BY <1>3, HttpConnAssumption DEF ReadTypes, InBody, Facts, BodyLen
<1>5. Current = "post" /\ Current' = Current /\ Request' = Request
  BY <1>1, <1>3 DEF InBody, Request, Current
<1>6. Len(Request) = 12 /\ Len(wire) \in Nat
      /\ \A k \in DOMAIN Body : k \in 1..4 /\ Request[8 + k] = Body[k]
  BY <1>5, TextFacts DEF Request, Body, ReadTypes
<1>7. m_read_idx + Len(wire) = 12
  BY <1>3, <1>6 DEF Received
<1>8. CASE m_read_idx >= m_content_length + m_checked_idx
  <2>1. /\ m_checked_idx = 8 /\ m_start_line = 8 /\ m_read_idx = 12
        /\ Len(wire) = 0
    BY <1>4, <1>6, <1>7, <1>8
  <2>2. wire = <<>>
    BY <2>1 DEF ReadTypes
  <2>3. /\ pc' = "do_request" /\ m_string' = 8
        /\ m_read_buf' = [j \in Positions |->
                IF j = 8 + 4 THEN "NUL" ELSE m_read_buf[j]]
    BY <1>1, <1>4, <1>8, <2>1 DEF TakeBody
  <2>4. ASSUME NEW k \in DOMAIN Body
        PROVE  m_read_buf'[8 + k - 1] = Body[k]
    <3>1. 8 + k - 1 \in m_start_line..(m_read_idx - 1)
          /\ 8 + k - 1 # 8 + 4 /\ 8 + k - 1 \in Positions
      BY <1>4, <1>6, <2>1 DEF Positions
    <3>2. m_read_buf[8 + k - 1] = Request[(8 + k - 1) + 1]
      BY <1>3, <3>1 DEF Received
    <3>3. (8 + k - 1) + 1 = 8 + k
      BY <1>6
    <3> QED BY <1>6, <2>3, <3>1, <3>2, <3>3
  <2>5. Facts("CONTENT", 1, FALSE, BodyLen)'
    BY <1>1, <1>3 DEF InBody, Facts
  <2> QED BY <1>1, <1>3, <1>5, <2>2, <2>3, <2>4, <2>5 DEF Parsed
<1>9. CASE ~(m_read_idx >= m_content_length + m_checked_idx)
  <2>1. /\ pc' = pc /\ m_read_buf' = m_read_buf
        /\ odd' = IF m_read_idx < m_start_line + m_content_length
                    THEN odd \cup {"split"} ELSE odd
    BY <1>1, <1>9 DEF AwaitBody
  <2>2. "split" \in odd'
    <3>1. CASE m_read_idx < m_start_line + m_content_length
      BY <2>1, <3>1
    <3>2. CASE ~(m_read_idx < m_start_line + m_content_length)
      <4>1. m_checked_idx > 8
        BY <1>4, <1>6, <1>7, <1>9, <3>2
      <4> QED BY <1>3, <2>1, <3>2, <4>1 DEF InBody
    <3> QED BY <3>1, <3>2
  <2>3. InBody'
    BY <1>1, <1>3, <1>4, <1>5, <2>2 DEF InBody, Facts
  <2>4. Received'
    BY <1>1, <1>3, <1>4, <1>5, <2>1 DEF Received
  <2> QED BY <1>1, <1>3, <2>1, <2>2, <2>3, <2>4 DEF Parsing
<1> QED BY <1>8, <1>9

\* Behind a first piece no line end makes the body complete.
LEMMA ContentLineStep ==
    ASSUME ReadTypes, SendTypes, ReaderInv, NEW i, ContentLine(i)
    PROVE  ReaderInv'
<1>1. /\ pc = "process_read" /\ m_check_state = "CONTENT"
      /\ line_status # "OK" /\ Stop(i) /\ ParseLine(i) = "OK"
      /\ m_start_line' = CrOf(i) + 2 /\ m_checked_idx' = CrOf(i) + 2
      /\ IF m_read_idx >= m_content_length + (CrOf(i) + 2)
           THEN TakeBody(Terminated(i)) ELSE AwaitBody(Terminated(i))
      /\ UNCHANGED <<wire, m_read_idx, m_check_state, cgi, m_linger,
                     m_content_length, asked, answered>>
  BY DEF ContentLine, AtLine, LineAt, ParseContent
<1>2. pc' # "closed" /\ ("early" \notin odd' => "early" \notin odd)
  BY <1>1 DEF TakeBody, AwaitBody
<1> SUFFICES ASSUME "early" \notin odd
             PROVE  Parsing' /\ answered + 1 = Len(asked)
  BY <1>1, <1>2 DEF ReaderInv
<1>3. /\ Parsing /\ answered + 1 = Len(asked) /\ Received /\ InBody
  BY <1>1, WhenReading
  DEF Parsing, InRequestLine, AtStart, InHeaders, Facts
<1>4. /\ READ_BUFFER_SIZE \in Nat /\ m_read_idx \in 0..READ_BUFFER_SIZE
      /\ m_checked_idx \in 0..m_read_idx /\ m_start_line \in 8..m_checked_idx
      /\ m_content_length = 4 /\ i \in m_checked_idx..m_read_idx
  BY <1>1, <1>3, HttpConnAssumption
  DEF ReadTypes, InBody, Facts, BodyLen, Stop
<1>5. Current = "post" /\ Current' = Current /\ Request' = Request
  BY <1>1, <1>3 DEF InBody, Request, Current
<1>6. Len(Request) = 12 /\ Len(wire) \in Nat
  BY <1>5, TextFacts DEF Request, ReadTypes
<1>7. m_read_idx + Len(wire) = 12
  BY <1>3, <1>6 DEF Received
<1>8. CrOf(i) >= 7 /\ CrOf(i) \in Int
  BY <1>4 DEF CrOf
<1>9. /\ pc' = pc /\ m_read_buf' = Terminated(i)
      /\ odd' \in {odd, odd \cup {"split"}}
  <2>1. ~(m_read_idx >= m_content_length + (CrOf(i) + 2))
    BY <1>4, <1>6, <1>7, <1>8
  <2> QED BY <1>1, <2>1 DEF AwaitBody
<1>10. "split" \in odd'
  BY <1>1, <1>3, <1>9 DEF InBody, ReadTypes
<1>11. InBody'
  <2>1. m_start_line' >= 8
    BY <1>1, <1>8
  <2> QED BY <1>1, <1>3, <1>5, <1>10, <2>1 DEF InBody, Facts
<1>12. Received'
  BY <1>1, <1>3, <1>9, LineKept
<1> QED BY <1>1, <1>3, <1>9, <1>10, <1>11, <1>12 DEF Parsing

\* What arrives lies behind what has arrived, as it was sent.
LEMMA ReadOnceStep ==
    ASSUME ReadTypes, SendTypes, ReaderInv, NEW k \in 1..Len(wire),
           ReadOnce(k)
    PROVE  ReaderInv'
<1> DEFINE n == Least(k, READ_BUFFER_SIZE - m_read_idx)
<1>1. CASE pc' = "closed"
  BY <1>1 DEF ReadOnce, ReaderInv
<1>2. CASE pc' # "closed"
  <2>1. /\ pc = "wait" /\ interest = "in" /\ pc' = "process_read"
        /\ wire' = SubSeq(wire, n + 1, Len(wire))
        /\ m_read_buf' = [i \in Positions |->
                IF i \in m_read_idx..(m_read_idx + n - 1)
                  THEN wire[i - m_read_idx + 1] ELSE m_read_buf[i]]
        /\ m_read_idx' = m_read_idx + n
        /\ line_status' = "OK"
        /\ UNCHANGED <<m_checked_idx, m_start_line, m_check_state, cgi,
                       m_linger, m_content_length, asked, answered, odd>>
    BY <1>2 DEF ReadOnce, factVars, history
  <2> SUFFICES ASSUME "early" \notin odd
               PROVE  Parsing' /\ answered + 1 = Len(asked)
    BY <2>1 DEF ReaderInv
  <2>2. wire # <<>>
    OBVIOUS
  <2>3. Parsing /\ answered + 1 = Len(asked) /\ Received
    BY <2>1, <2>2 DEF ReaderInv, Idle, Parsed, Responding, Parsing
  <2>4. /\ READ_BUFFER_SIZE \in Nat /\ m_read_idx \in 0..READ_BUFFER_SIZE
        /\ n \in 0..Len(wire) /\ m_read_idx + n <= READ_BUFFER_SIZE
        /\ m_start_line \in 0..m_read_idx /\ Len(wire) \in Nat
    BY HttpConnAssumption DEF ReadTypes, Least
  <2>5. Current' = Current /\ Request' = Request
    BY <2>1 DEF Request, Current
  <2> HIDE DEF n
  <2>6. /\ Len(wire') = Len(wire) - n
        /\ \A j \in 1..(Len(wire) - n) : wire'[j] = wire[n + j]
    BY <2>1, <2>4 DEF ReadTypes
  <2>7. Received'
    <3>1. m_read_idx' + Len(wire') = Len(Request)
      BY <2>1, <2>3, <2>4, <2>6 DEF Received
    <3>2. ASSUME NEW j \in 1..Len(wire')
          PROVE  wire'[j] = Request[m_read_idx' + j]
      <4>1. j \in 1..(Len(wire) - n) /\ n + j \in 1..Len(wire)
        BY <2>4, <2>6
      <4>2. wire'[j] = Request[m_read_idx + (n + j)]
        BY <2>3, <2>6, <4>1 DEF Received
      <4>3. m_read_idx + (n + j) = m_read_idx' + j
        BY <2>1, <2>4, <4>1
      <4> QED BY <4>2, <4>3
    <3>3. ASSUME NEW i \in m_start_line..(m_read_idx' - 1)
          PROVE  m_read_buf'[i] = Request[i + 1]
      <4>1. i \in Positions
        BY <2>1, <2>4 DEF Positions
      <4>2. CASE i \in m_read_idx..(m_read_idx + n - 1)
        <5>1. i - m_read_idx + 1 \in 1..Len(wire)
          BY <2>4, <4>2
        <5>2. m_read_buf'[i] = Request[m_read_idx + (i - m_read_idx + 1)]
          BY <2>1, <2>3, <4>1, <4>2, <5>1 DEF Received
        <5>3. m_read_idx + (i - m_read_idx + 1) = i + 1
          BY <2>4, <4>2
        <5> QED BY <5>2, <5>3
      <4>3. CASE i \notin m_read_idx..(m_read_idx + n - 1)
        <5>1. i \in m_start_line..(m_read_idx - 1)
          BY <2>1, <2>4, <4>3
        <5> QED BY <2>1, <2>3, <4>1, <4>3, <5>1 DEF Received
      <4> QED BY <4>2, <4>3
    <3> QED BY <2>1, <2>5, <3>1, <3>2, <3>3 DEF Received
  <2>8. (InRequestLine \/ InHeaders \/ InBody)'
    <3>1. CASE InRequestLine
      BY <2>1, <3>1 DEF InRequestLine, AtStart, Facts
    <3>2. CASE InHeaders
      BY <2>1, <2>5, <3>2 DEF InHeaders, Facts
    <3>3. CASE InBody
      BY <2>1, <2>5, <3>3 DEF InBody, Facts
    <3> QED BY <2>3, <3>1, <3>2, <3>3 DEF Parsing
  <2> QED BY <2>1, <2>3, <2>7, <2>8 DEF Parsing
<1> QED BY <1>1, <1>2

\* A client that waits for its answers sends its request to an idle slot.
LEMMA AskStep ==
    ASSUME SendTypes, ReaderInv, NEW kind \in Kinds, Ask(kind)
    PROVE  ReaderInv'
<1>1. /\ pc # "closed" /\ asked' = Append(asked, kind)
      /\ wire' = wire \o Text[kind]
      /\ odd' = IF answered < Len(asked) THEN odd \cup {"early"} ELSE odd
      /\ UNCHANGED <<pc, interest, m_read_buf, m_read_idx, m_checked_idx,
                     m_start_line, m_check_state, line_status, cgi, m_linger,
                     m_content_length, m_string, answered>>
  BY DEF Ask, readVars, lineVars, factVars
<1> SUFFICES ASSUME "early" \notin odd'
             PROVE  Parsing' /\ answered + 1 = Len(asked')
  BY <1>1 DEF ReaderInv
<1>2. answered \in Nat /\ asked \in Seq(Kinds) /\ Len(asked) \in Nat
  BY DEF SendTypes
<1>3. Idle
  BY <1>1, <1>2 DEF ReaderInv
<1>4. Len(asked') = Len(asked) + 1 /\ Current' = kind
  BY <1>1, <1>2 DEF Current
<1>5. Request' = Text[kind]
  BY <1>4 DEF Request
<1>6. Text[kind] \in Seq(Symbols) /\ Len(Text[kind]) > 0
  <2>1. kind \in {"get", "keep", "post", "bad", "bare"}
    BY HttpConnAssumption DEF Text
  <2>2. Len(Text[kind]) > 0
    <3>1. CASE kind \in {"get", "keep"}
      BY <3>1, TextFacts
    <3>2. CASE kind = "post"
      BY <3>2, TextFacts
    <3>3. CASE kind = "bad"
      BY <3>3, TextFacts
    <3>4. CASE kind = "bare"
      BY <3>4, TextFacts
    <3> QED BY <2>1, <3>1, <3>2, <3>3, <3>4
  <2> QED BY <2>2, TextTyped
<1>7. wire' = Text[kind]
  BY <1>1, <1>3, <1>6 DEF Idle
<1>8. Received'
  <2>1. m_read_idx' = 0 /\ m_start_line' = 0
    BY <1>1, <1>3 DEF Idle, AtStart
  <2> QED BY <1>5, <1>6, <1>7, <2>1 DEF Received
<1>9. InRequestLine' /\ m_read_idx' = 0 /\ line_status' = line_status
  BY <1>1, <1>3 DEF Idle, InRequestLine, AtStart, Facts
<1>10. pc' = "wait" /\ interest' = "in"
  BY <1>1, <1>3 DEF Idle
<1>11. Parsing'
  BY <1>5, <1>6, <1>8, <1>9, <1>10 DEF Parsing
<1> QED BY <1>2, <1>3, <1>4, <1>11 DEF Idle

LEMMA ReaderStep == IInv /\ ReaderInv /\ [Next]_vars => ReaderInv'
<1> SUFFICES ASSUME ReadTypes, SendTypes, ReaderInv, [Next]_vars
             PROVE  ReaderInv'
  BY DEF IInv, SendInv
\* A connection that is closed has nothing on the wire.
<1>1. ASSUME pc' = "closed", wire' = <<>>
      PROVE  ReaderInv'
  BY <1>1 DEF ReaderInv
\* A slot that is cleared waits for a request.
<1>2. ASSUME Fresh, pc' = "wait", interest' = "in", wire = <<>>, wire' = wire,
             "early" \notin odd' => answered' = Len(asked')
      PROVE  ReaderInv'
  <2>1. "early" \notin odd' => Idle'
    BY <1>2 DEF Fresh, Idle, AtStart, Facts
  <2> QED BY <1>2, <2>1 DEF ReaderInv
\* A response goes its way.
<1>3. ASSUME Responding => Responding', pc' # "closed",
             pc # "closed", ~Idle, ~Parsing, ~Parsed,
             "early" \notin odd' => "early" \notin odd,
             UNCHANGED <<asked, answered>>
      PROVE  ReaderInv'
  BY <1>3 DEF ReaderInv
<1>4. CASE NewClient
  <2>1. /\ pc = "closed" /\ pc' = "wait" /\ interest' = "in" /\ Fresh
        /\ wire' = wire /\ answered' = 0 /\ asked' = <<>>
    BY <1>4 DEF NewClient
  <2>2. wire = <<>> /\ answered' = Len(asked')
    BY <2>1 DEF ReaderInv
  <2> QED BY <1>2, <2>1, <2>2
<1>5. CASE CloseFromOutside \/ NoAnswer \/ WritevFails
  BY <1>1, <1>5 DEF CloseFromOutside, NoAnswer, WritevFails
<1>6. ASSUME NEW code, NEW size, DoRequest(code, size)
      PROVE  ReaderInv'
  <2>1. /\ pc = "do_request" /\ pc' = "process_write"
        /\ UNCHANGED <<wire, m_check_state, m_linger, asked, answered, odd>>
    BY <1>6 DEF DoRequest, readVars, lineVars, factVars, history
  <2>2. ASSUME "early" \notin odd
        PROVE  Responding' /\ answered + 1 = Len(asked)
    <3>1. Parsed /\ answered + 1 = Len(asked)
      BY <2>1, <2>2 DEF ReaderInv, Idle, Parsing, Responding
    <3> QED BY <2>1, <3>1 DEF Parsed, Responding, Facts
  <2> QED BY <2>1, <2>2 DEF ReaderInv
<1>7. CASE ProcessWrite \/ BeginWrite \/ WritevAgain
  <2>1. /\ pc \in {"process_write", "write"}
            \/ (pc = "wait" /\ interest = "out")
        /\ pc' = "write" \/ (pc' = "wait" /\ interest' = "out")
        /\ UNCHANGED <<wire, m_check_state, m_linger, asked, answered, odd>>
    <3>1. CASE ProcessWrite
      BY <3>1 DEF ProcessWrite, readVars, lineVars, factVars, history
    <3>2. CASE BeginWrite
      BY <3>2 DEF BeginWrite, readVars, lineVars, factVars, history
    <3>3. CASE WritevAgain
      BY <3>3 DEF WritevAgain, readVars, lineVars, factVars, history
    <3> QED BY <1>7, <3>1, <3>2, <3>3
  <2>2. Responding => Responding'
    BY <2>1 DEF Responding, Current
  <2> QED BY <1>3, <2>1, <2>2 DEF Idle, Parsing, Parsed
<1>8. ASSUME NEW m, Writev(m)
      PROVE  ReaderInv'
  <2>1. /\ pc = "write" /\ pc' = pc /\ interest' = interest
        /\ "early" \notin odd' => "early" \notin odd
        /\ UNCHANGED <<wire, m_check_state, m_linger, asked, answered>>
    BY <1>8 DEF Writev, readVars, lineVars, factVars
  <2>2. Responding => Responding'
    BY <2>1 DEF Responding, Current
  <2> QED BY <1>3, <2>1, <2>2 DEF Idle, Parsing, Parsed
\* The answer is out: a connection that is kept waits for the next request.
<1>9. ASSUME NEW m, WritevLast(m)
      PROVE  ReaderInv'
  <2>1. /\ pc = "write" /\ answered' = answered + 1 /\ interest' = "in"
        /\ UNCHANGED <<asked, odd>>
    BY <1>9 DEF WritevLast
  <2>2. CASE m_linger
    <3>1. Fresh /\ pc' = "wait" /\ wire' = wire
      BY <1>9, <2>2 DEF WritevLast
    <3>2. CASE "early" \notin odd
      <4>1. Responding /\ answered + 1 = Len(asked)
        BY <2>1, <3>2 DEF ReaderInv, Idle, Parsing, Parsed
      <4>2. wire = <<>>
        BY <2>2, <4>1 DEF Responding
      <4> QED BY <1>2, <2>1, <3>1, <4>1, <4>2
    <3>3. CASE "early" \in odd
      BY <2>1, <3>1, <3>3 DEF ReaderInv
    <3> QED BY <3>2, <3>3
  <2>3. CASE ~m_linger
    BY <1>1, <1>9, <2>3 DEF WritevLast
  <2> QED BY <2>2, <2>3
<1>10. CASE UNCHANGED vars
  BY <1>10 DEF vars, readVars, lineVars, factVars, history, ReaderInv, Idle,
               Parsing, Parsed, Responding, Received, InRequestLine, AtStart,
               InHeaders, InBody, Facts, Request, Current
<1> QED
  BY <1>4, <1>5, <1>6, <1>7, <1>8, <1>9, <1>10, AskStep, ReadOnceStep,
     NoLineStep, RequestLineStep, HeaderStep, ContentStep, ContentLineStep
  DEF Next, Receives, Processes, Sends, WritevFaults, WritevNothing

-----------------------------------------------------------------------------
(* Theorems.                                                               *)

LEMMA Invariance == Spec => []IInv
<1>1. Init => IInv
  <2> SUFFICES ASSUME Init PROVE IInv
    OBVIOUS
  <2>0. READ_BUFFER_SIZE \in Nat /\ 0 \in 0..(HeadLen + MaxFileLen)
    BY HttpConnAssumption
  <2>1. ReadTypes
    <3>1. "NUL" \in Symbols /\ m_read_buf = [i \in Positions |-> "NUL"]
          /\ wire = <<>> /\ m_linger = FALSE
      BY DEF Init, Symbols
    <3>2. m_read_buf \in [Positions -> Symbols]
      BY <3>1
    <3>3. wire \in Seq(Symbols)
      BY <3>1
    <3>4. m_linger \in BOOLEAN
      BY <3>1
    <3> QED BY <2>0, <3>2, <3>3, <3>4 DEF Init, ReadTypes
  <2>2. SendTypes
    <3>1. 0 \in FileLens
      BY HttpConnAssumption DEF FileLens
    <3>2. /\ iov0 \in [base : Int, len : Nat]
          /\ iov1 \in [base : Int, len : Nat]
      BY DEF Init
    <3>3. intact \in BOOLEAN
      BY DEF Init
    <3>4. strayed \in BOOLEAN
      BY DEF Init
    <3>5. asked \in Seq(Kinds)
      BY DEF Init
    <3> QED BY <2>0, <3>1, <3>2, <3>3, <3>4, <3>5 DEF Init, SendTypes, Codes
  <2>3. ~Sending /\ ~FileReply
    BY DEF Init, Sending, FileReply
  <2>4. CountInv /\ VectorInv /\ MapInv
    BY <2>3 DEF Init, CountInv, VectorInv, MapInv
  <2> QED BY <2>1, <2>2, <2>4 DEF IInv, SendInv
<1>2. IInv /\ [Next]_vars => IInv'
  BY ReadStep, SendStep DEF IInv
<1> QED BY <1>1, <1>2, PTL DEF Spec, Safety

\* Every variable keeps its type, and the indices of the buffer their order:
\* parse_line never walks beyond what was received.
THEOREM TypeCorrect == Spec => []TypeOK
<1>1. IInv => TypeOK
  BY DEF IInv, ReadTypes, SendInv, SendTypes, TypeOK
<1> QED BY <1>1, Invariance, PTL

\* Whatever writev takes at each call, every unit of the response leaves in
\* its place and the vector holds what is left, for any sizes of head and
\* file, unless the head went out in more than two parts.
THEOREM ResponsesIntact == Spec => []ResponseIntact
<1>1. IInv => ResponseIntact
  <2> SUFFICES ASSUME IInv, "torn" \notin odd
               PROVE  intact /\ (Sending => Remaining = bytes_to_send
                                            /\ bytes_to_send > 0)
    BY DEF ResponseIntact, Sending
  <2>1. intact
    BY DEF IInv, SendInv, VectorInv
  <2>2. ASSUME Sending
        PROVE  Remaining = bytes_to_send /\ bytes_to_send > 0
    <3>1. /\ HeadLen \in Nat /\ HeadLen > 0
          /\ bytes_to_send \in Nat /\ bytes_have_send \in Nat
          /\ st_size \in Nat /\ m_iv_count \in {1, 2}
      BY HttpConnAssumption DEF IInv, SendInv, SendTypes, FileLens
    <3>2. /\ Untouched \/ InHead \/ InFile
          /\ bytes_to_send > 0
          /\ bytes_have_send + bytes_to_send
                = HeadLen + (IF m_iv_count = 2 THEN st_size ELSE 0)
      BY <2>2 DEF IInv, SendInv, VectorInv, CountInv
    <3>3. CASE Untouched
      BY <3>1, <3>2, <3>3 DEF Untouched, Remaining
    <3>4. CASE InHead
      BY <3>1, <3>2, <3>4 DEF InHead, Remaining
    <3>5. CASE InFile
      BY <3>1, <3>2, <3>5 DEF InFile, Remaining
    <3> QED BY <3>2, <3>3, <3>4, <3>5
  <2> QED BY <2>1, <2>2
<1> QED BY <1>1, Invariance, PTL

\* For any sizes of files and any number of clients: a file that is being sent
\* is mapped in full, if it could be mapped; no page stays mapped after its
\* response and no munmap goes beyond the mapping, unless others closed a
\* connection that was being sent a file.
THEOREM MappingsRight == Spec => []Mappings
<1>1. IInv => Mappings
  BY DEF IInv, SendInv, MapInv, Mappings
<1> QED BY <1>1, Invariance, PTL

LEMMA ReaderInvariance == Spec => []ReaderInv
<1>1. Init => ReaderInv
  BY DEF Init, ReaderInv, Idle, AtStart, Facts
<1>2. IInv /\ ReaderInv /\ [Next]_vars => ReaderInv'
  BY ReaderStep
<1> QED BY <1>1, <1>2, Invariance, PTL DEF Spec, Safety

\* However the network cuts a request and whatever the sizes, do_request gets
\* what the client sent, all of it, its body in the buffer and the facts of
\* its headers noted, and only a bad request line is called one.
THEOREM RequestsParsedRight == Spec => []ParsedRight
<1>1. IInv /\ ReaderInv => ParsedRight
  <2> SUFFICES ASSUME IInv, ReaderInv, "early" \notin odd,
                      pc \in {"do_request", "process_write"}
               PROVE  /\ pc = "do_request" =>
                          /\ wire = <<>> /\ answered + 1 = Len(asked)
                          /\ Current \in {"get", "keep", "post"}
                          /\ cgi = 1 <=> Current = "post"
                          /\ m_linger <=> Current = "keep"
                          /\ cgi = 1 => \A k \in DOMAIN Body :
                                            m_read_buf[m_string + k - 1]
                                                = Body[k]
                      /\ pc = "process_write"
                            /\ m_check_state = "REQUESTLINE" =>
                          Current = "bad"
    BY DEF ParsedRight
  <2>1. /\ answered + 1 = Len(asked)
        /\ pc = "do_request" => Parsed
        /\ pc = "process_write" => Responding
    BY DEF ReaderInv, Idle, Parsing, Parsed, Responding
  <2> QED BY <2>1 DEF Parsed, Responding, Facts
<1> QED BY <1>1, Invariance, ReaderInvariance, PTL

\* For any sizes, the server waits for more of a request that it has in full
\* only if the body came in pieces, or a line was ended wrongly.
THEOREM WaitsOnlyForMore == Spec => []NoVainWait
<1>1. IInv /\ ReaderInv => NoVainWait
  <2> SUFFICES ASSUME IInv, ReaderInv, WaitsInVain, "early" \notin odd
               PROVE  "split" \in odd \/ Current = "bare"
    BY DEF NoVainWait
  <2>1. Parsing
    BY DEF ReaderInv, WaitsInVain, Idle, Parsed, Responding, IInv, SendInv,
           SendTypes
  <2>2. m_read_idx + Len(wire) = Len(Request) /\ Len(wire) = 0
        /\ m_read_idx \in Int
    BY <2>1, HttpConnAssumption
    DEF Parsing, Received, WaitsInVain, IInv, ReadTypes
  <2>3. ~(m_read_idx < Len(Request))
    BY <2>2
  <2> QED BY <2>1, <2>3 DEF Parsing, WaitsInVain
<1> QED BY <1>1, Invariance, ReaderInvariance, PTL
=============================================================================

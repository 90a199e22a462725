------------------------------ MODULE HttpConn ------------------------------
(***************************************************************************)
(* http/http_conn.cpp: one slot of the connection table from the bytes of  *)
(* a request to the bytes of its response, for one client after another.   *)
(*                                                                         *)
(* EPOLLONESHOT lets one thread at a time serve a connection (Server), so  *)
(* the steps below are those of whichever thread that is: read_once, one   *)
(* step per line for the loop of process_read, do_request, process_write,  *)
(* and one step per writev for the loop of write.                          *)
(*                                                                         *)
(* A symbol of a request is the content of a line, a CR, a LF, or a piece  *)
(* of the body; the network cuts a request anywhere between two symbols.   *)
(* A response is HeadLen units of m_write_buf, then the file, which is     *)
(* counted in pages: munmap releases whole ones.                           *)
(***************************************************************************)
EXTENDS Integers, Sequences

CONSTANTS
    Kinds,              \* the requests clients send
    READ_BUFFER_SIZE,   \* symbols m_read_buf holds
    HeadLen,            \* units of the head of a response
    MaxRequests,        \* bound: requests a client sends
    MaxClients,         \* bound: clients the slot serves
    MaxFileLen          \* bound: pages of a file

\* A body of two lines.
Body == <<"BODY1", "CR", "LF", "BODY2">>
BodyLen == 4

\* A request without and one with keep-alive, a form, a line that is no
\* request line, and a request line that does not end in CR LF.
Text ==
    [get    |-> <<"GET", "CR", "LF", "CR", "LF">>,
     keep   |-> <<"GET", "CR", "LF", "KEEP", "CR", "LF", "CR", "LF">>,
     post   |-> <<"POST", "CR", "LF", "LEN", "CR", "LF", "CR", "LF">>
                \o Body,
     bad    |-> <<"HUH", "CR", "LF", "CR", "LF">>,
     bare   |-> <<"GET", "LF", "CR", "LF">>]

Symbols == {"NUL", "CR", "LF", "GET", "POST", "KEEP", "LEN", "HUH",
            "BODY1", "BODY2"}

ASSUME HttpConnAssumption ==
    /\ Kinds \subseteq DOMAIN Text
    /\ {READ_BUFFER_SIZE, HeadLen, MaxFileLen, MaxRequests, MaxClients}
            \subseteq Nat \ {0}

VARIABLES
    m_TRIGMode,         \* 0: level-triggered, 1: edge-triggered
    pc,                 \* "wait": in epoll; "closed"; else the serving thread
    interest,           \* what epoll waits for: "in" or "out"
    wire,               \* sent by the client, not yet received
    m_read_buf, m_read_idx, m_checked_idx, m_start_line,
    m_check_state, line_status,
    cgi, m_linger, m_content_length, m_string,
    ret,                \* the HTTP_CODE process_read returns
    st_size,            \* the size that the latest stat found
    m_file_address,     \* "null", "mapped", or "failed" (mmap gave no address)
    mapped,             \* pages mapped at m_file_address
    lost,               \* pages still mapped that the slot has no address of
    iov0, iov1, m_iv_count, bytes_to_send, bytes_have_send,
    clients,            \* history: clients the slot has served
    asked,              \* history: kinds of the requests the client sent
    answered,           \* history: responses that are out
    odd,                \* history: what was unusual about this client
    writes,             \* history: writev calls that began within the head
    intact,             \* history: every unit left in its place
    orphans,            \* history: pages mapped when others closed the slot
    strayed             \* history: munmap went beyond what was mapped

lineVars == <<m_read_buf, m_checked_idx, m_start_line, m_check_state>>
factVars == <<cgi, m_linger, m_content_length, m_string>>
readVars == <<m_read_idx, line_status, lineVars, factVars>>
fileVars == <<st_size, m_file_address, mapped, lost, strayed>>
sendVars == <<iov0, iov1, m_iv_count, bytes_to_send, bytes_have_send, writes,
              intact>>
history  == <<clients, asked, answered, odd, orphans>>
vars == <<m_TRIGMode, pc, interest, wire, readVars, ret, fileVars, sendVars,
          history>>

Least(a, b) == IF a <= b THEN a ELSE b
FileLens == 0..MaxFileLen
Positions == 0..(READ_BUFFER_SIZE - 1)

Init ==
    /\ m_TRIGMode \in {0, 1}
    /\ pc = "wait" /\ interest = "in"
    /\ wire = <<>>
    /\ m_read_buf = [i \in Positions |-> "NUL"]
    /\ m_read_idx = 0 /\ m_checked_idx = 0 /\ m_start_line = 0
    /\ m_check_state = "REQUESTLINE" /\ line_status = "OK"
    /\ cgi = 0 /\ m_linger = FALSE /\ m_content_length = 0 /\ m_string = 0
    /\ ret = "NO_REQUEST"
    /\ st_size = 0 /\ m_file_address = "null"
    /\ mapped = 0 /\ lost = 0 /\ strayed = FALSE
    /\ iov0 = [base |-> 0, len |-> 0] /\ iov1 = [base |-> 0, len |-> 0]
    /\ m_iv_count = 1
    /\ bytes_to_send = 0 /\ bytes_have_send = 0
    /\ clients = 1 /\ asked = <<>> /\ answered = 0 /\ odd = {}
    /\ writes = 0 /\ intact = TRUE /\ orphans = 0

\* Mutant: a connection once kept alive is kept alive for good.
FreshButLinger ==
    /\ m_read_buf' = [i \in Positions |-> "NUL"]
    /\ m_read_idx' = 0 /\ m_checked_idx' = 0 /\ m_start_line' = 0
    /\ m_check_state' = "REQUESTLINE"
    /\ cgi' = 0 /\ m_content_length' = 0
    /\ bytes_to_send' = 0 /\ bytes_have_send' = 0
    /\ UNCHANGED <<m_linger, m_string>>

\* The private init(): m_string, the vector and the mapping stay as they are,
\* and what had been received of a next request is gone.
Fresh ==
    /\ m_read_buf' = [i \in Positions |-> "NUL"]
    /\ m_read_idx' = 0 /\ m_checked_idx' = 0 /\ m_start_line' = 0
    /\ m_check_state' = "REQUESTLINE"
    /\ cgi' = 0 /\ m_linger' = FALSE /\ m_content_length' = 0
    /\ bytes_to_send' = 0 /\ bytes_have_send' = 0
    /\ UNCHANGED m_string

-----------------------------------------------------------------------------
(* The client and what others do with the connection.                      *)

\* A file is on its way to the client.
FileReply == /\ ret = "FILE_REQUEST" /\ st_size # 0
             /\ \/ pc \in {"process_write", "write"}
                \/ pc = "wait" /\ interest = "out"

\* A client may send a request before it has the answer to the last one.
Ask(kind) ==
    /\ pc # "closed"
    /\ Len(asked) < MaxRequests
    /\ asked' = Append(asked, kind)
    /\ wire' = wire \o Text[kind]
    /\ odd' = IF answered < Len(asked) THEN odd \cup {"early"} ELSE odd
    /\ UNCHANGED <<m_TRIGMode, pc, interest, readVars, ret, fileVars, sendVars,
                   clients, answered, orphans>>

\* cb_func, from the timer or after a hang-up: nothing of the slot is cleared.
CloseFromOutside ==
    /\ pc = "wait"
    /\ pc' = "closed"
    /\ wire' = <<>>
    /\ orphans' = orphans + (IF FileReply THEN mapped ELSE 0)
    /\ UNCHANGED <<m_TRIGMode, interest, readVars, ret, fileVars, sendVars,
                   clients, asked, answered, odd>>

\* The descriptor is accepted again: the public init() at the same slot.
NewClient ==
    /\ pc = "closed"
    /\ clients < MaxClients
    /\ clients' = clients + 1
    /\ pc' = "wait" /\ interest' = "in"
    /\ Fresh
    /\ asked' = <<>> /\ answered' = 0 /\ odd' = {} /\ intact' = TRUE
    /\ UNCHANGED <<m_TRIGMode, wire, line_status, ret, fileVars, iov0, iov1,
                   m_iv_count, writes, orphans>>

-----------------------------------------------------------------------------
(* Reading and parsing.                                                    *)

\* read_once when k symbols have arrived.  A full buffer ends the connection;
\* edge-triggered, so does one that has just been filled: the next recv asks
\* for no bytes, and its 0 reads as "closed by the client".
ReadOnce(k) ==
    LET space == READ_BUFFER_SIZE - m_read_idx
        n == Least(k, space)
    IN
    /\ pc = "wait" /\ interest = "in"
    /\ k \in 1..Len(wire)
    /\ IF space = 0 \/ (m_TRIGMode = 1 /\ k >= space)
         THEN /\ pc' = "closed"
              /\ wire' = <<>>
              /\ UNCHANGED <<m_read_buf, m_read_idx, line_status, ret>>
         ELSE /\ pc' = "process_read"
              /\ wire' = SubSeq(wire, n + 1, Len(wire))
              /\ m_read_buf' = [i \in Positions |->
                    IF i \in m_read_idx..(m_read_idx + n - 1)
                      THEN wire[i - m_read_idx + 1] ELSE m_read_buf[i]]
              /\ m_read_idx' = m_read_idx + n
              /\ line_status' = "OK" /\ ret' = "NO_REQUEST"
    /\ UNCHANGED <<m_TRIGMode, interest, m_checked_idx, m_start_line,
                   m_check_state, factVars, fileVars, sendVars, history>>

\* The first CR or LF that parse_line meets, m_read_idx if there is none.
Stop(i) ==
    /\ i \in m_checked_idx..m_read_idx
    /\ \A j \in m_checked_idx..(i - 1) : m_read_buf[j] \notin {"CR", "LF"}
    /\ i < m_read_idx => m_read_buf[i] \in {"CR", "LF"}

\* Where the CR of a line that ends at i should be.
CrOf(i) == IF m_read_buf[i] = "CR" THEN i ELSE i - 1

\* Mutant: a CR at the end of what was received ends the line.
ParseLineHasty(i) ==
    IF i = m_read_idx THEN "OPEN"
    ELSE IF m_read_buf[i] = "CR" THEN "OK" ELSE "BAD"

\* What parse_line returns when it stops at i: the line is incomplete, or it
\* ends in CR LF, or not.
ParseLine(i) ==
    IF i = m_read_idx \/ (m_read_buf[i] = "CR" /\ i + 1 = m_read_idx)
      THEN "OPEN"
    ELSE IF /\ m_read_buf[i] = "LF" => i > 1
            /\ m_read_buf[CrOf(i)] = "CR"
            /\ m_read_buf[CrOf(i) + 1] = "LF" THEN "OK"
    ELSE "BAD"

\* The loop of process_read goes to parse_line, except at the start of the
\* body.
AtLine == pc = "process_read"
            /\ ~(m_check_state = "CONTENT" /\ line_status = "OK")

\* No line: NO_REQUEST, and process() arms the descriptor for more.
NoLine(i) ==
    /\ AtLine /\ Stop(i) /\ ParseLine(i) # "OK"
    /\ m_checked_idx' = i
    /\ pc' = "wait" /\ interest' = "in"
    /\ UNCHANGED <<m_TRIGMode, wire, m_read_buf, m_read_idx, m_start_line,
                   m_check_state, line_status, factVars, ret, fileVars,
                   sendVars, history>>

\* The line's CR LF become two NULs, and parsing goes on behind them.
LineAt(i) ==
    /\ AtLine /\ Stop(i) /\ ParseLine(i) = "OK"
    /\ m_checked_idx' = CrOf(i) + 2
    /\ m_start_line' = m_checked_idx'

Terminated(i) == [m_read_buf EXCEPT ![CrOf(i)] = "NUL", ![CrOf(i) + 1] = "NUL"]

\* The text of the line that ends at i, "NUL" when it is blank.
Line(i) == Terminated(i)[m_start_line]

\* parse_request_line
RequestLine(i) ==
    /\ m_check_state = "REQUESTLINE"
    /\ LineAt(i)
    /\ m_read_buf' = Terminated(i)
    /\ IF Line(i) \in {"GET", "POST"}
         THEN /\ m_check_state' = "HEADER"
              /\ cgi' = IF Line(i) = "POST" THEN 1 ELSE cgi
              /\ UNCHANGED <<pc, ret>>
         ELSE /\ ret' = "BAD_REQUEST"
              /\ pc' = "process_write"
              /\ UNCHANGED <<m_check_state, cgi>>
    /\ UNCHANGED <<m_TRIGMode, interest, wire, m_read_idx, line_status,
                   m_linger, m_content_length, m_string, fileVars, sendVars,
                   history>>

\* parse_headers.  A blank line ends a request that announced no body.
Header(i) ==
    /\ m_check_state = "HEADER"
    /\ LineAt(i)
    /\ m_read_buf' = Terminated(i)
    /\ m_check_state' = IF Line(i) = "NUL" /\ m_content_length # 0
                          THEN "CONTENT" ELSE m_check_state
    /\ pc' = IF Line(i) = "NUL" /\ m_content_length = 0
               THEN "do_request" ELSE pc
    /\ m_linger' = (m_linger \/ Line(i) = "KEEP")
    /\ m_content_length' = IF Line(i) = "LEN" THEN BodyLen
                                              ELSE m_content_length
    /\ UNCHANGED <<m_TRIGMode, interest, wire, m_read_idx, line_status, cgi,
                   m_string, ret, fileVars, sendVars, history>>

\* parse_content on the text at m_start_line, with the buffer and
\* m_checked_idx that parse_line has left.
TakeBody(buf) ==
    /\ m_read_buf' = [i \in Positions |->
            IF i = m_start_line + m_content_length THEN "NUL" ELSE buf[i]]
    /\ m_string' = m_start_line
    /\ pc' = "do_request"
    /\ UNCHANGED <<line_status, odd>>

\* ... when the body is not all there: line_status becomes LINE_OPEN, and the
\* loop goes on with parse_line.
AwaitBody(buf) ==
    /\ m_read_buf' = buf
    /\ line_status' = "OPEN"
    /\ odd' = IF m_read_idx < m_start_line + m_content_length
                THEN odd \cup {"split"} ELSE odd
    /\ UNCHANGED <<pc, m_string>>

\* Mutant: one symbol more than the body is waited for.
ParseContentGreedy(buf, checked) ==
    /\ m_start_line' = checked /\ m_checked_idx' = checked
    /\ IF m_read_idx > m_content_length + checked
         THEN TakeBody(buf) ELSE AwaitBody(buf)
    /\ UNCHANGED <<m_TRIGMode, interest, wire, m_read_idx, m_check_state,
                   cgi, m_linger, m_content_length, ret, fileVars, sendVars,
                   clients, asked, answered, orphans>>

ParseContent(buf, checked) ==
    /\ m_start_line' = checked /\ m_checked_idx' = checked
    /\ IF m_read_idx >= m_content_length + checked
         THEN TakeBody(buf) ELSE AwaitBody(buf)
    /\ UNCHANGED <<m_TRIGMode, interest, wire, m_read_idx, m_check_state,
                   cgi, m_linger, m_content_length, ret, fileVars, sendVars,
                   clients, asked, answered, orphans>>

\* The body begins where the headers ended.
Content ==
    /\ pc = "process_read"
    /\ m_check_state = "CONTENT" /\ line_status = "OK"
    /\ ParseContent(m_read_buf, m_checked_idx)

\* ... where a line end behind an incomplete body counts as one more piece.
ContentLine(i) ==
    /\ m_check_state = "CONTENT"
    /\ LineAt(i)
    /\ ParseContent(Terminated(i), CrOf(i) + 2)

-----------------------------------------------------------------------------
(* The response.                                                           *)

\* do_request: stat, open and mmap of the file that the URL stands for (which
\* one, and what login and registration make of it, is in Registration).  A
\* stat that fails leaves the last file's size.  Whether open and mmap succeed
\* is not looked at; an empty file cannot be mapped.  A mapping still in
\* m_file_address is lost.
Mmap(size) ==
    /\ \/ size # 0 /\ m_file_address' = "mapped" /\ mapped' = size
       \/ m_file_address' = "failed" /\ mapped' = 0
    /\ lost' = lost + mapped

DoRequest(code, size) ==
    /\ pc = "do_request"
    /\ code = "NO_RESOURCE" => size = st_size
    /\ ret' = code
    /\ pc' = "process_write"
    /\ st_size' = size
    /\ IF code = "FILE_REQUEST" THEN Mmap(size)
         ELSE UNCHANGED <<m_file_address, mapped, lost>>
    /\ UNCHANGED <<m_TRIGMode, interest, wire, readVars, sendVars, history,
                   strayed>>

\* process_write: a head with the file behind it, or a head alone (which
\* stands for the status line of an empty file, and for an error page too).
\* Then process() arms the descriptor for writing.
ProcessWrite ==
    /\ pc = "process_write" /\ ret # "NO_RESOURCE"
    /\ iov0' = [base |-> 0, len |-> HeadLen]
    /\ IF ret = "FILE_REQUEST" /\ st_size # 0
         THEN /\ iov1' = [base |-> 0, len |-> st_size]
              /\ m_iv_count' = 2
              /\ bytes_to_send' = HeadLen + st_size
         ELSE /\ UNCHANGED iov1
              /\ m_iv_count' = 1
              /\ bytes_to_send' = HeadLen
    /\ pc' = "wait" /\ interest' = "out"
    /\ writes' = 0 /\ intact' = TRUE
    /\ UNCHANGED <<m_TRIGMode, wire, readVars, ret, fileVars, bytes_have_send,
                   history>>

\* There is no answer for a missing file: process_write returns false and
\* process() closes the connection.
NoAnswer ==
    /\ pc = "process_write" /\ ret = "NO_RESOURCE"
    /\ pc' = "closed"
    /\ wire' = <<>>
    /\ UNCHANGED <<m_TRIGMode, interest, readVars, ret, fileVars, sendVars,
                   history>>

\* The socket takes data; write() is called.
BeginWrite ==
    /\ pc = "wait" /\ interest = "out"
    /\ pc' = "write"
    /\ UNCHANGED <<m_TRIGMode, interest, wire, readVars, ret, fileVars,
                   sendVars, history>>

\* Mutant: unmap() is forgotten.
UnmapNot == UNCHANGED <<m_file_address, mapped, lost, strayed>>

\* munmap gets the length of the latest file, which need not be the one that
\* is mapped.  It refuses a length of 0 and the address of a failed mmap.
Unmap ==
    /\ m_file_address' = "null"
    /\ mapped' = 0
    /\ lost' = lost + (mapped - Least(mapped, st_size))
    /\ strayed' = (strayed \/ (m_file_address = "mapped" /\ st_size > mapped))

\* Units of the response still in the vector.
Remaining == iov0.len + (IF m_iv_count = 2 THEN iov1.len ELSE 0)

\* Linux checks the addresses of the vector before it sends anything of it.
Readable == m_iv_count = 2 /\ iov1.len > 0 => m_file_address # "failed"

\* writev takes n units, as many as it can from the head.  The client gets
\* what it should if they are the next ones of the response.
InPlace(n) ==
    LET fromHead == Least(n, iov0.len) IN
    /\ fromHead > 0 => iov0.base = bytes_have_send
    /\ n > fromHead => /\ bytes_have_send + fromHead >= HeadLen
                       /\ iov1.base = bytes_have_send + fromHead - HeadLen

\* Mutant: the file is sent from its start again after every call.
AdvanceHeadOnly(have, left) ==
    /\ iov1' = IF have >= iov0.len THEN [base |-> 0, len |-> left] ELSE iov1
    /\ iov0' = IF have >= iov0.len THEN [iov0 EXCEPT !.len = 0]
                ELSE [base |-> have, len |-> iov0.len - have]

\* write(): how the vector is advanced when have units are out in all.
Advance(have, left) ==
    /\ iov1' = IF have >= iov0.len
                 THEN [base |-> have - HeadLen, len |-> left] ELSE iov1
    /\ iov0' = IF have >= iov0.len THEN [iov0 EXCEPT !.len = 0]
                ELSE [base |-> have, len |-> iov0.len - have]

\* A writev that sends n units but not the last: the loop goes on.
Writev(n) ==
    /\ pc = "write" /\ Readable
    /\ n \in 1..Remaining /\ n < bytes_to_send
    /\ bytes_have_send' = bytes_have_send + n
    /\ bytes_to_send' = bytes_to_send - n
    /\ Advance(bytes_have_send', bytes_to_send')
    /\ intact' = (intact /\ InPlace(n))
    /\ writes' = IF bytes_have_send < HeadLen THEN writes + 1 ELSE writes
    /\ odd' = IF writes' = 2 /\ bytes_have_send' < HeadLen
                THEN odd \cup {"torn"} ELSE odd
    /\ UNCHANGED <<m_TRIGMode, pc, interest, wire, readVars, ret, fileVars,
                   m_iv_count, clients, asked, answered, orphans>>

\* The writev that sends the last n units: the mapping goes, and a kept-alive
\* connection waits for its next request, armed before it is cleared, while
\* any other is closed by the caller.
WritevLast(n) ==
    /\ pc = "write" /\ Readable
    /\ n \in 1..Remaining /\ n >= bytes_to_send
    /\ Advance(bytes_have_send + n, bytes_to_send - n)
    /\ Unmap
    /\ answered' = answered + 1
    /\ intact' = (intact /\ InPlace(n))
    /\ interest' = "in"
    /\ IF m_linger
         THEN Fresh /\ pc' = "wait" /\ UNCHANGED wire
         ELSE /\ pc' = "closed" /\ wire' = <<>>
              /\ bytes_have_send' = bytes_have_send + n
              /\ bytes_to_send' = bytes_to_send - n
              /\ UNCHANGED <<m_read_idx, lineVars, factVars>>
    /\ UNCHANGED <<m_TRIGMode, line_status, ret, st_size, m_iv_count, writes,
                   clients, asked, odd, orphans>>

\* writev of an empty vector sends nothing, and the loop never ends.
WritevNothing ==
    /\ pc = "write" /\ Remaining = 0
    /\ UNCHANGED vars

\* Mutant: EAGAIN arms the descriptor for the wrong event.
WritevAgainReads ==
    /\ pc = "write" /\ Remaining > 0 /\ Readable
    /\ pc' = "wait" /\ interest' = "in"
    /\ UNCHANGED <<m_TRIGMode, wire, readVars, ret, fileVars, sendVars,
                   history>>

\* EAGAIN: the socket is full, wait until it takes more.
WritevAgain ==
    /\ pc = "write" /\ Remaining > 0 /\ Readable
    /\ pc' = "wait" /\ interest' = "out"
    /\ UNCHANGED <<m_TRIGMode, wire, readVars, ret, fileVars, sendVars,
                   history>>

\* Another error: write() returns false and the caller closes.
WritevFails ==
    /\ pc = "write" /\ Remaining > 0
    /\ Unmap
    /\ pc' = "closed"
    /\ wire' = <<>>
    /\ UNCHANGED <<m_TRIGMode, interest, readVars, ret, st_size, sendVars,
                   history>>

-----------------------------------------------------------------------------
Outcomes == {"NO_RESOURCE", "FORBIDDEN_REQUEST", "BAD_REQUEST", "FILE_REQUEST"}

Receives == \E k \in 1..Len(wire) : ReadOnce(k)

Processes ==
    \/ \E i \in 0..READ_BUFFER_SIZE :
            NoLine(i) \/ RequestLine(i) \/ Header(i) \/ ContentLine(i)
    \/ Content
    \/ \E code \in Outcomes, size \in FileLens : DoRequest(code, size)
    \/ ProcessWrite \/ NoAnswer

\* A vector that cannot be read fails whatever the socket is like.
WritevFaults == ~Readable /\ WritevFails

Sends ==
    \/ \E n \in 1..(HeadLen + MaxFileLen) : Writev(n) \/ WritevLast(n)
    \/ WritevFaults

Next ==
    \/ \E kind \in Kinds : Ask(kind)
    \/ CloseFromOutside \/ NewClient
    \/ Receives \/ Processes
    \/ BeginWrite \/ Sends
    \/ WritevNothing \/ WritevAgain \/ WritevFails

Safety == Init /\ [][Next]_vars

\* The thread that serves the connection runs, what was sent arrives, and a
\* client that reads makes room in the socket again and again.
Fairness ==
    /\ WF_vars(Receives) /\ WF_vars(Processes) /\ WF_vars(BeginWrite)
    /\ SF_vars(Sends)

Spec == Safety /\ Fairness

-----------------------------------------------------------------------------
(* Properties.                                                             *)

Codes == {"NO_REQUEST", "BAD_REQUEST", "NO_RESOURCE", "FORBIDDEN_REQUEST",
          "FILE_REQUEST"}

\* Every variable keeps its type, and the indices of the buffer their order:
\* nothing is read or terminated beyond the symbols received.
TypeOK ==
    /\ m_TRIGMode \in {0, 1}
    /\ pc \in {"wait", "process_read", "do_request", "process_write", "write",
               "closed"}
    /\ interest \in {"in", "out"}
    /\ m_read_buf \in [Positions -> Symbols]
    /\ m_read_idx \in 0..READ_BUFFER_SIZE
    /\ m_checked_idx \in 0..m_read_idx
    /\ m_start_line \in 0..m_checked_idx
    /\ m_string \in 0..READ_BUFFER_SIZE
    /\ m_check_state \in {"REQUESTLINE", "HEADER", "CONTENT"}
    /\ line_status \in {"OK", "OPEN"}
    /\ cgi \in {0, 1} /\ m_linger \in BOOLEAN
    /\ m_content_length \in {0, BodyLen}
    /\ ret \in Codes /\ {st_size, mapped} \subseteq FileLens
    /\ m_file_address \in {"null", "mapped", "failed"}
    /\ {lost, clients, answered, writes, orphans} \subseteq Nat
    /\ {iov0, iov1} \subseteq [base : Int, len : Nat]
    /\ m_iv_count \in {1, 2}
    /\ {bytes_to_send, bytes_have_send} \subseteq 0..(HeadLen + MaxFileLen)
    /\ wire \in Seq(Symbols) /\ asked \in Seq(Kinds)
    /\ odd \subseteq {"early", "split", "torn"}
    /\ intact \in BOOLEAN /\ strayed \in BOOLEAN

\* However the network cuts a request, do_request gets what the client sent,
\* all of it, its body included, and only a bad request line is called one;
\* provided that the client waits for each answer.
Current == asked[Len(asked)]
ParsedRight ==
    "early" \notin odd =>
        /\ pc = "do_request" =>
            /\ wire = <<>> /\ answered + 1 = Len(asked)
            /\ Current \in {"get", "keep", "post"}
            /\ cgi = 1 <=> Current = "post"
            /\ m_linger <=> Current = "keep"
            /\ cgi = 1 => \A k \in DOMAIN Body :
                              m_read_buf[m_string + k - 1] = Body[k]
        /\ pc = "process_write" /\ m_check_state = "REQUESTLINE" =>
            Current = "bad"

\* The server waits for more of a request it has received in full only if the
\* body came in pieces, or a line was ended wrongly: parse_line has then
\* walked over the first piece, or stays where the error is.
WaitsInVain == /\ pc = "wait" /\ interest = "in"
               /\ wire = <<>> /\ answered < Len(asked)
NoVainWait == WaitsInVain /\ "early" \notin odd =>
                "split" \in odd \/ Current = "bare"

\* Whatever writev takes, every unit of the response leaves in its place and
\* the vector holds exactly what is left to send, if the head went out in at
\* most two calls.  (After more, Advance has subtracted the first call's
\* units twice.)
ResponseIntact ==
    "torn" \notin odd =>
        /\ intact
        /\ pc = "write" \/ (pc = "wait" /\ interest = "out") =>
                Remaining = bytes_to_send /\ bytes_to_send > 0

\* A file that is being sent is mapped in full, if it could be mapped at all;
\* no page stays mapped after its response, and no munmap goes beyond the
\* mapping, unless somebody else closed a connection that was being sent a
\* file: what such closes left mapped is all that can leak.
Mappings ==
    /\ FileReply => mapped = st_size \/ m_file_address = "failed"
    /\ lost + (IF FileReply THEN 0 ELSE mapped) <= orphans
    /\ strayed => orphans > 0

\* A proper request of a client that waits for its answers is answered, or
\* the connection ends.
IsAnswered ==
    \A n \in 1..MaxRequests :
        Len(asked) = n /\ Current # "bare" ~>
            answered >= n \/ pc = "closed" \/ odd # {}
=============================================================================

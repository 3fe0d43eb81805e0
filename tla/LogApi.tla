-------------------------------- MODULE LogApi --------------------------------
(****************************************************************************)
(* Linux_2_FileIO: logModuleExecute opens a stream for the mode it is asked *)
(* for and calls the function of that mode; FileOperDataFree closes it.     *)
(* Nothing closes the stream of one call before the next one: what stdio    *)
(* still holds for it is written when the process exits.                    *)
(*                                                                          *)
(* A file is a sequence: the letter of characters, the other two of cards,  *)
(* a card being its sensitive_val.  Texts are shorter than stdio's buffer.  *)
(****************************************************************************)
EXTENDS Naturals, Sequences, SequencesExt, FiniteSetsExt

CONSTANTS Characters, (* what a text is made of                            *)
          Texts, Offsets, Girls, (* what a caller may ask to be written     *)
          Spares,   (* how many elements more than the file holds the       *)
                    (* buffer (or array) of a reading call may have         *)
          MaxCalls, (* bound: the calls of a run of the model               *)
          Absent    (* the contents of a file that does not exist           *)

VARIABLES file,     (* file[f]: contents, or Absent                         *)
          stream,   (* data->fileStream: [name, mode, kind, pend] or NULL   *)
          leaked,   (* streams that were overwritten while they held text   *)
          data,     (* the other fields of the caller's FileOperDataE       *)
          pc,       (* what the process does                                *)
          i,        (* writeChar's index, readString's position in the file *)
          at,       (* readString's buffPtr - buffer                        *)
          buffer,   (* the cells of data->buffer or data->girls written     *)
          calls,
          meant,    (* history: what was asked of the streams that opened   *)
          late      (* history: a buffered call's text was left behind      *)

vars == <<file, stream, leaked, data, pc, i, at, buffer, calls, meant, late>>

NUL == "0"
EOL == "n"

\* Texts are of characters, cards numbers.
ASSUME LogAssumption ==
    /\ Texts \subseteq Seq(Characters) /\ Girls \subseteq Seq(Nat) /\ NUL \in Characters
    /\ Offsets \subseteq Nat /\ Spares \subseteq Nat /\ MaxCalls \in Nat
    /\ Absent \notin Seq(Characters \cup Nat)

NULL == [kind |-> "NULL", name |-> "", mode |-> "", pend |-> <<>>]
Letter == "LoveLetter.txt"
Names == {Letter, "GirlsInfo.txt", "GirlsInfo.data"}

NameOf(mode) == CASE mode \in {"INPUT_FORMAT", "READ_FORMAT"} -> "GirlsInfo.txt"
                  [] mode \in {"INPUT_BINARY", "READ_BINARY"} -> "GirlsInfo.data"
                  [] OTHER -> Letter

\* The table of the modes, and the string each get...FilePtr hands to fopen.
fopenMode == [INPUT_CHAR   |-> "a",  READ_CHAR   |-> "r", COVER_WRITE  |-> "w",
              ALTER_WRITE  |-> "r+", INPUT_STRING |-> "a", READ_STRING |-> "r",
              INPUT_FORMAT |-> "a",  READ_FORMAT |-> "r", INPUT_BINARY |-> "w",
              READ_BINARY  |-> "r+"]

Reading  == {"READ_CHAR", "READ_STRING", "READ_FORMAT", "READ_BINARY"}
Buffered == {"INPUT_CHAR", "INPUT_BINARY"}   \* their last fflush is missing

Request(mode, content, offset, size) ==
    [mode |-> mode, content |-> content, offset |-> offset, size |-> size]

\* size: bufferSize or, of cards, girlNums.
Requests ==
         {Request(m, t, 0, 0) : m \in {"INPUT_CHAR", "COVER_WRITE", "INPUT_STRING"}, t \in Texts}
    \cup {Request("ALTER_WRITE", t, o, 0) : t \in Texts, o \in Offsets}
    \cup {Request(m, g, 0, Len(g)) : m \in {"INPUT_FORMAT", "INPUT_BINARY"}, g \in Girls}
    \cup {Request(m, <<>>, 0, s) : m \in Reading, s \in Spares}

Held(f) == IF file[f] = Absent THEN <<>> ELSE file[f]

\* t written over s from position p on; what is skipped becomes NULs.
Over(s, p, t) ==
    IF t = <<>> THEN s
    ELSE [k \in 1 .. Max({Len(s), p + Len(t)}) |->
             IF k > p /\ k <= p + Len(t) THEN t[k - p] ELSE IF k <= Len(s) THEN s[k] ELSE NUL]

\* The file of stream st once it holds t: appended, or written from st.pos on.
Flushed(st, t) == [file EXCEPT ![st.name] =
                      IF st.kind = "a" THEN Held(st.name) \o t ELSE Over(Held(st.name), st.pos, t)]

Init == /\ file = [f \in Names |-> Absent] /\ meant = [f \in Names |-> <<>>]
        /\ stream = NULL /\ leaked = <<>> /\ data = Request("", <<>>, 0, 0)
        /\ pc = "idle" /\ i = 0 /\ at = 0 /\ buffer = <<>> /\ calls = 0 /\ late = "no"

-----------------------------------------------------------------------------
(* logModuleExecute: the stream of the mode, and then its function.         *)

Seek(d) == IF d.mode = "ALTER_WRITE" THEN d.offset ELSE 0

\* What a file should hold after the call: "a" adds to it, "w" replaces it, and "r+"
\* writes over it where the offset says.
Meant(d, s) == CASE fopenMode[d.mode] = "a" -> s \o d.content
                 [] fopenMode[d.mode] = "w" -> d.content
                 [] d.mode = "ALTER_WRITE"  -> Over(s, d.offset, d.content)
                 [] OTHER -> s

LeftBehind == IF stream.pend = <<>> THEN <<>> ELSE <<stream>>

logModuleExecute ==
    \E d \in Requests :
        LET f == NameOf(d.mode)  kind == fopenMode[d.mode]
            fails == kind \in {"r", "r+"} /\ file[f] = Absent
        IN /\ pc = "idle" /\ calls < MaxCalls
           /\ calls' = calls + 1
           /\ data' = IF d.mode \in Reading THEN [d EXCEPT !.size = @ + Len(Held(f))] ELSE d
           /\ stream' = IF fails THEN NULL
                        ELSE [kind |-> kind, name |-> f, mode |-> d.mode, pos |-> Seek(d),
                              pend |-> <<>>]
           /\ leaked' = leaked \o LeftBehind
           /\ file' = [file EXCEPT ![f] = IF fails THEN Absent
                                          ELSE IF kind = "w" THEN <<>> ELSE Held(f)]
           /\ meant' = IF fails THEN meant
                       ELSE [meant EXCEPT ![f] = Meant(d, @)]
           /\ late' = LET l == IF LeftBehind # <<>> /\ stream.mode \in Buffered /\ late = "no"
                               THEN "tail" ELSE late
                      IN IF l = "tail" /\ d.mode \in {"COVER_WRITE", "ALTER_WRITE", "INPUT_BINARY"}
                         THEN "mixed" ELSE l
           /\ pc' = "run" /\ i' = 0 /\ at' = 0 /\ buffer' = <<>>

Running(mode) == pc = "run" /\ data.mode = mode /\ stream # NULL
Return == pc' = "idle"
callerVars == <<leaked, data, calls, meant, late>>

\* No stream, or (the guards of the reading and the card functions) no room.
EarlyReturn == /\ pc = "run"
               /\ stream = NULL \/ (data.size = 0 /\ data.mode \in Reading \cup {"INPUT_FORMAT",
                                                                              "INPUT_BINARY"})
               /\ Return
               /\ UNCHANGED <<file, stream, i, at, buffer, callerVars>>

-----------------------------------------------------------------------------
(* The functions that write.                                                *)

\* fputc, and fflush after every fourth: the last few stay in the stream.
writeCharInfoToFile ==
    /\ Running("INPUT_CHAR")
    /\ IF i = Len(data.content) THEN Return /\ UNCHANGED <<file, stream, i>>
       ELSE LET t == Append(stream.pend, data.content[i + 1]) IN
            /\ i' = i + 1
            /\ IF i % 4 = 0 THEN file' = Flushed(stream, t) /\ stream' = [stream EXCEPT !.pend = <<>>]
               ELSE UNCHANGED file /\ stream' = [stream EXCEPT !.pend = t]
            /\ UNCHANGED pc
    /\ UNCHANGED <<at, buffer, callerVars>>

\* Mutant: the text is not flushed.
writeNotFlushed ==
    /\ \E mode \in {"COVER_WRITE", "INPUT_STRING", "ALTER_WRITE", "INPUT_FORMAT"} : Running(mode)
    /\ stream' = [stream EXCEPT !.pend = data.content] /\ Return
    /\ UNCHANGED <<file, i, at, buffer, callerVars>>

\* writeStringInfoToFile, coverWriteStringInfoToFile, writeFormatStringInfoIntoFile.
writeFlushed ==
    /\ \E mode \in {"COVER_WRITE", "INPUT_STRING", "ALTER_WRITE", "INPUT_FORMAT"} : Running(mode)
    /\ file' = Flushed(stream, data.content) /\ Return
    /\ UNCHANGED <<stream, i, at, buffer, callerVars>>

writeBianryInfoIntoFile ==
    /\ Running("INPUT_BINARY") /\ data.size # 0
    /\ stream' = [stream EXCEPT !.pend = data.content] /\ Return
    /\ UNCHANGED <<file, i, at, buffer, callerVars>>

-----------------------------------------------------------------------------
(* The functions that read, from the start of what the disk has.            *)

text == Held(stream.name)
FirstOf(s, n) == SubSeq(s, 1, Min({Len(s), n}))

Read(mode, cells) == /\ Running(mode) /\ data.size # 0
                     /\ buffer' = cells /\ Return
                     /\ UNCHANGED <<file, stream, i, at, callerVars>>

\* Mutant: the last cell of the buffer, counted from 1.
EndOfBuffer == data.size

\* A text that fills the buffer is ended behind it; a longer one is read one
\* character too far before the test, and ended one cell further on.
EndOfText == IF Len(text) <= data.size THEN Len(text) ELSE data.size + 1
readCharInfoFromFile == Read("READ_CHAR", Over(FirstOf(text, data.size), EndOfText, <<NUL>>))

\* fscanf's %2d takes two digits; after a longer number no card matches any more.
Digits2(v) == IF v < 100 THEN v ELSE v \div 10
readFormatStringInfoFromFile ==
    Read("READ_FORMAT", [k \in 1 .. data.size |->
             IF k > Len(text) \/ \E j \in 1 .. Min({k - 1, Len(text)}) : text[j] > 99
             THEN 0 ELSE Digits2(text[k])])

\* girlNums elements of the size of girlNums cards are asked for.
readBinaryInfoFromFile == Read("READ_BINARY", FirstOf(text, data.size * data.size))

\* fgets(buffPtr, n): up to the end of a line, n - 1 characters at most.
Line(n) ==
    LET rest == SubSeq(text, i + 1, Len(text))
        ends == {k \in DOMAIN rest : rest[k] = EOL}
    IN FirstOf(rest, Min({n - 1, Len(rest)} \cup ends))

strlen(s) == Min({Len(s)} \cup {k - 1 : k \in {j \in DOMAIN s : s[j] = NUL}})

\* Mutant: buffPtr stays where it is.
readLineInPlace ==
    LET n == data.size - at  line == Line(n) IN
    /\ Running("READ_STRING") /\ data.size # 0
    /\ IF n > 1 /\ i = Len(text) THEN Return /\ UNCHANGED <<i, buffer>>
       ELSE buffer' = Over(buffer, at, Append(line, NUL)) /\ i' = i + Len(line) /\ UNCHANGED pc
    /\ UNCHANGED <<file, stream, at, callerVars>>

\* Mutant: a cell is kept for the terminator, which fgets already does.
readLineKeepsCell ==
    LET n == data.size - at - 1  line == Line(n) IN
    /\ Running("READ_STRING") /\ data.size # 0
    /\ IF n > 1 /\ i = Len(text) THEN Return /\ UNCHANGED <<i, at, buffer>>
       ELSE /\ buffer' = Over(buffer, at, Append(line, NUL))
            /\ i' = i + Len(line) /\ at' = at + strlen(line)
            /\ UNCHANGED pc
    /\ UNCHANGED <<file, stream, callerVars>>

\* A round of readStringInfoFromFile.  With one cell left fgets stores a NUL
\* and does not look at the file: it never returns NULL.
readStringInfoFromFile ==
    LET n == data.size - at  line == Line(n) IN
    /\ Running("READ_STRING") /\ data.size # 0
    /\ IF n > 1 /\ i = Len(text) THEN Return /\ UNCHANGED <<i, at, buffer>>
       ELSE /\ buffer' = Over(buffer, at, Append(line, NUL))
            /\ i' = i + Len(line) /\ at' = at + strlen(line)
            /\ UNCHANGED pc
    /\ UNCHANGED <<file, stream, callerVars>>

-----------------------------------------------------------------------------
(* The caller: FileOperDataFree, the end of main, another start.            *)

FileOperDataFree == /\ pc = "idle" /\ stream # NULL
                    /\ file' = Flushed(stream, stream.pend)
                    /\ stream' = NULL /\ buffer' = <<>>
                    /\ UNCHANGED <<leaked, data, pc, i, at, calls, meant, late>>

\* exit flushes what was left open, in an order of the library's.
Exit == /\ stream = NULL
        /\ \/ pc = "idle" /\ pc' = "exit" /\ UNCHANGED <<file, leaked>>
           \/ /\ pc = "exit" /\ UNCHANGED pc
              /\ \E k \in DOMAIN leaked : /\ file' = Flushed(leaked[k], leaked[k].pend)
                                          /\ leaked' = RemoveAt(leaked, k)
           \/ pc = "exit" /\ leaked = <<>> /\ pc' = "gone" /\ UNCHANGED <<file, leaked>>
        /\ UNCHANGED <<stream, data, i, at, buffer, calls, meant, late>>

StartAgain == /\ pc = "gone" /\ calls < MaxCalls
              /\ pc' = "idle" /\ buffer' = <<>>
              /\ UNCHANGED <<file, stream, leaked, data, i, at, calls, meant, late>>

Functions == \/ EarlyReturn \/ writeCharInfoToFile \/ writeFlushed \/ writeBianryInfoIntoFile
             \/ readCharInfoFromFile \/ readStringInfoFromFile
             \/ readFormatStringInfoFromFile \/ readBinaryInfoFromFile

Next == \/ logModuleExecute \/ Functions \/ FileOperDataFree \/ Exit \/ StartAgain
        \/ pc = "gone" /\ calls = MaxCalls /\ UNCHANGED vars
Spec == Init /\ [][Next]_vars

\* A function that was called goes on.
FairSpec == Spec /\ WF_vars(Functions)

-----------------------------------------------------------------------------
(* What is relied on.                                                       *)

\* No call writes a cell its caller has not given it, when the caller gives the
\* terminator its cell and asks for all the cards there are (lines 225-231, 259
\* and 361-362); a text written character by character is at most three characters
\* late (line 152).
CellsInv ==
    /\ pc \in {"idle", "run", "exit", "gone"} /\ late \in {"no", "tail", "mixed"}
    /\ pc = "idle" /\ data.mode \in Reading => Len(buffer) <= data.size
    /\ stream.mode \in Buffered \/ stream.pend = <<>>
    /\ stream.mode = "INPUT_CHAR" => Len(stream.pend) <= 3

\* The same characters, in any order.
Occurrences(s, c) == Cardinality({k \in DOMAIN s : s[k] = c})
SameCharacters(s, t) == /\ Len(s) = Len(t)
                        /\ \A k \in DOMAIN s : Occurrences(s, s[k]) = Occurrences(t, s[k])

\* The files hold what was asked to be written, in the order of the calls, as
\* long as FileOperDataFree is called after a mode that does not flush; when it
\* is not, what was left behind comes too late but, with texts only being
\* appended, comes (lines 114 and 152).  What ALTER_WRITE does not write over stays
\* (line 64), and it is the only mode that refuses a text: there must be a letter.
\* The comment of line 57 says otherwise: a missing file is created, and one that exists
\* is destroyed; see NothingAroundAGap.
Saved ==
    /\ pc = "idle" /\ late = "no" =>
           \A f \in Names : meant[f] = IF stream.name = f THEN Flushed(stream, stream.pend)[f]
                                       ELSE Held(f)
    /\ pc = "gone" /\ late = "tail" => SameCharacters(meant[Letter], Held(Letter))
    /\ pc = "run" /\ stream = NULL /\ data.content # <<>> =>
           data.mode = "ALTER_WRITE" /\ file[Letter] = Absent

\* The lines of a text up to its n-th element, each up to its NUL.
UpToNul(s)     == SubSeq(s, 1, strlen(s))
LineEnds(s)    == {k \in DOMAIN s : s[k] = EOL} \cup {Len(s)}
LineUpTo(s, e) == SubSeq(s, Max({b \in {0} \cup LineEnds(s) : b < e}) + 1, e)
LinesUpTo(s)   == LET lines[n \in 0 .. Len(s)] ==
                          IF n = 0 THEN <<>>
                          ELSE lines[n - 1] \o (IF n \in LineEnds(s) THEN UpToNul(LineUpTo(s, n))
                                                ELSE <<>>)
                  IN lines
AllLines(s)    == LinesUpTo(s)[Len(s)]

\* What a read leaves with the caller: the letter as it is, or line by line what
\* comes before a NUL of the line (lines 225-231 and 259-267); the cards of the file,
\* of those that were printed up to the first with three digits (lines 319-320).
\* No NUL ends the reading, although the comment of lines 182-183 says so: see
\* NothingAroundAGap.
ReadsBack ==
    pc = "idle" /\ stream # NULL /\ data.size # 0 =>
        CASE data.mode = "READ_CHAR"   -> UpToNul(buffer) = UpToNul(text) /\ buffer = Append(text, NUL)
          [] data.mode = "READ_STRING" -> text # <<>> => UpToNul(buffer) = AllLines(text)
          [] data.mode = "READ_BINARY" -> buffer = text
          [] data.mode = "READ_FORMAT" ->
               \A k \in DOMAIN text : (\A j \in 1 .. k : text[j] < 100) => buffer[k] = text[k]
          [] OTHER -> TRUE

-----------------------------------------------------------------------------
(* Reading line by line ends; what comments say, and the code does not do.  *)

ReadsLines == pc = "run" /\ data.mode = "READ_STRING"

\* With a cell for the terminator and one more, reading line by line ends, whatever
\* lines and NULs there are: at the end of the file fgets returns NULL (line 259).
ReadingEnds == (ReadsLines /\ stream # NULL /\ data.size > Len(text) + 1) ~> (pc = "idle")

\* The same with any buffer: when all is read NULL is returned, which the loop may
\* rely on (comment of line 238; with one cell left fgets never returns it).
NullIsReturned == ReadsLines ~> (pc = "idle")

\* A read never gives text from both sides of a gap: the comment of line 57 says that
\* what a file held is destroyed when it is opened to be altered, so that nothing is
\* left before the gap, and that of lines 182-183 that a read stops at the first NUL
\* and does not return what stands behind it.  ("r+" destroys nothing, line 64, and
\* fgetc does not stop at a NUL, line 225.)
NothingAroundAGap ==
    pc = "idle" /\ data.mode = "READ_CHAR" =>
        ~ \E j, k, l \in DOMAIN buffer : /\ j < k /\ k < l /\ buffer[k] = NUL
                                         /\ buffer[j] # NUL /\ buffer[l] # NUL
===============================================================================

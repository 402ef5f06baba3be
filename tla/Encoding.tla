------------------------------ MODULE Encoding ------------------------------
(***************************************************************************)
(* The encoding a log is shown with.  The worker thread of a LogData gives *)
(* every byte it indexes to an EncodingSpeculator, which lives as long as  *)
(* the thread, and stores its guess with the index; when an indexing ends  *)
(* CrawlerWidget::updateEncoding() chooses the codec of the views from the *)
(* guess, unless the user has chosen one in the menu.                      *)
(*                                                                         *)
(* The file is a sequence of bytes that grows and is truncated.  It is read *)
(* in blocks of one byte (sizeChunk): all that can happen between two      *)
(* blocks of the code happens here between two bytes.                      *)
(*                                                                         *)
(* decoder is not in the program: it is a decoder of UTF-8 as the Unicode  *)
(* standard defines it (table 3-7), fed with the bytes the speculator is.  *)
(***************************************************************************)
EXTENDS Integers, Sequences

CONSTANTS
  Bytes,        \* the bytes files are made of, in 0..255
  MaxSize,      \* bound: bytes of a file
  MaxChanges    \* bound: truncations, reloads and choices made

VARIABLES
  file,         \* what is on the disk
  operation,    \* the indexing under way, "none" when the worker waits
  indexed,      \* indexedSize_ of the IndexingData
  encoding,     \* encoding_ of the IndexingData
  s,            \* the EncodingSpeculator
  setting,      \* encodingSetting_ of the CrawlerWidget
  codec,        \* the encoding the LogData displays
  decoder,      \* the reference decoder
  grown,        \* the file has only grown, and not been reloaded
  fresh,        \* the file has only grown since it was last indexed in full
  changes       \* truncations, reloads and choices so far

vars == <<file, operation, indexed, encoding, s, setting, codec,
          decoder, grown, fresh, changes>>

States == {"Start", "ASCIIOnly", "OtherOrUnknown8Bit", "UTF8LeadingByteSeen",
           "ValidUTF8", "UTF16BELeadingBOMByteSeen",
           "UTF16LELeadingBOMByteSeen", "ValidUTF16LE", "ValidUTF16BE"}

Guesses == {"ASCII7", "ASCII8", "UTF8", "UTF16LE", "UTF16BE"}

Codecs == {"ISO_8859_1", "UTF8", "UTF16LE", "UTF16BE", "Other"}

Settings == {"AUTO"} \cup Codecs

-----------------------------------------------------------------------------
(* The speculator *)

In(state, t) == [state |-> state, code_point |-> t.code_point,
                 left |-> t.left, min |-> t.min]

Lead(code_point, left, min) ==
  [state |-> "UTF8LeadingByteSeen", code_point |-> code_point,
   left |-> left, min |-> min]

\* Bug: the smallest code point of three bytes is asked of two.
leadByte_SameMinimum(t, b) ==
  IF b \in 192..223 THEN Lead((b % 32) * 64, 1, 2048)
  ELSE IF b \in 224..239 THEN Lead((b % 16) * 4096, 2, 2048)
  ELSE IF b \in 240..247 THEN Lead((b % 8) * 262144, 3, 2048)
  ELSE In("OtherOrUnknown8Bit", t)

\* The shifts are by 6, 12 and 18 bits.
leadByte(t, b) ==
  IF b \in 192..223 THEN Lead((b % 32) * 64, 1, 128)
  ELSE IF b \in 224..239 THEN Lead((b % 16) * 4096, 2, 2048)
  ELSE IF b \in 240..247 THEN Lead((b % 8) * 262144, 3, 2048)
  ELSE In("OtherOrUnknown8Bit", t)

\* The value of a bit before the shift that the bytes left to come ask for
Weight(left) == IF left = 0 THEN 1 ELSE IF left = 1 THEN 64 ELSE 4096

\* The bits a continuation byte sets are clear in code_point: the bitwise or
\* of the code is a sum.
continuationByte(t, b) ==
  LET left == t.left - 1
      code_point == t.code_point + (b % 64) * Weight(left)
      end == IF left # 0 THEN t.state
             ELSE IF code_point >= t.min THEN "ValidUTF8"
             ELSE "OtherOrUnknown8Bit"
  IN  [state |-> end, code_point |-> code_point, left |-> left, min |-> t.min]

\* What a byte above 127 does in each state
inject8Bit(t, b) ==
  IF t.state = "Start" /\ b \in {254, 255}
    THEN In(IF b = 254 THEN "UTF16BELeadingBOMByteSeen"
            ELSE "UTF16LELeadingBOMByteSeen", t)
  ELSE IF t.state \in {"Start", "ASCIIOnly", "ValidUTF8"} THEN leadByte(t, b)
  ELSE IF t.state = "UTF8LeadingByteSeen" /\ b \in 128..191
    THEN continuationByte(t, b)
  ELSE IF t.state = "UTF16BELeadingBOMByteSeen" /\ b = 255
    THEN In("ValidUTF16BE", t)
  ELSE IF t.state = "UTF16LELeadingBOMByteSeen" /\ b = 254
    THEN In("ValidUTF16LE", t)
  ELSE IF t.state \in {"ValidUTF16LE", "ValidUTF16BE"} THEN t
  ELSE In("OtherOrUnknown8Bit", t)

\* A byte below 128 is all fine, wherever it comes.
inject_byte(t, b) ==
  IF b > 127 THEN inject8Bit(t, b)
  ELSE IF t.state = "Start" THEN In("ASCIIOnly", t)
  ELSE t

guess(t) ==
  CASE t.state \in {"Start", "ASCIIOnly"} -> "ASCII7"
    [] t.state = "ValidUTF8" -> "UTF8"
    [] t.state = "ValidUTF16LE" -> "UTF16LE"
    [] t.state = "ValidUTF16BE" -> "UTF16BE"
    [] OTHER -> "ASCII8"

-----------------------------------------------------------------------------
(* The reference decoder: text is what the bytes are the beginning of;     *)
(* left continuation bytes are expected, the first of them in low..high.   *)

StartDecoder == [text |-> "ASCII", left |-> 0, low |-> 128, high |-> 191]

Expect(left, low, high) ==
  [text |-> "UTF8", left |-> left, low |-> low, high |-> high]

Refuse(d) == [text |-> "Other", left |-> d.left, low |-> d.low, high |-> d.high]

Begin(d, b) ==
  IF b \in 0..127 THEN d
  ELSE IF b \in 194..223 THEN Expect(1, 128, 191)
  ELSE IF b = 224 THEN Expect(2, 160, 191)
  ELSE IF b = 237 THEN Expect(2, 128, 159)
  ELSE IF b \in 225..239 THEN Expect(2, 128, 191)
  ELSE IF b = 240 THEN Expect(3, 144, 191)
  ELSE IF b = 244 THEN Expect(3, 128, 143)
  ELSE IF b \in 241..243 THEN Expect(3, 128, 191)
  ELSE Refuse(d)

Decode(d, b) ==
  IF d.text = "Other" THEN d
  ELSE IF d.left = 0 THEN Begin(d, b)
  ELSE IF b \in d.low..d.high THEN Expect(d.left - 1, 128, 191)
  ELSE Refuse(d)

\* The decoder has read a text in UTF-8 that is not ASCII, to its end.
IsUtf8(d) == d.text = "UTF8" /\ d.left = 0

-----------------------------------------------------------------------------
\* LogData::attachFile() asked for a first indexing.
Init ==
  /\ file = <<>> /\ operation = "full" /\ indexed = 0 /\ encoding = "ASCII7"
  /\ s = [state |-> "Start", code_point |-> 0, left |-> 0, min |-> 0]
  /\ setting = "AUTO" /\ codec = "ISO_8859_1"
  /\ decoder = StartDecoder /\ grown = TRUE /\ fresh = TRUE
  /\ changes = 0

-----------------------------------------------------------------------------
(* The worker thread *)

\* FullIndexOperation::start() empties the index; the speculator stays as
\* it is.
indexAll ==
  /\ operation' = "full" /\ indexed' = 0 /\ encoding' = "ASCII7"
  /\ fresh' = TRUE
  /\ UNCHANGED <<s, setting, codec, decoder>>

indexAdditionalLines ==
  /\ operation' = "partial"
  /\ UNCHANGED <<indexed, encoding, s, setting, codec, decoder, fresh>>

\* Bug: the guess of the first block is kept.
doIndex_FirstGuess ==
  /\ operation # "none" /\ indexed < Len(file)
  /\ s' = inject_byte(s, file[indexed + 1])
  /\ decoder' = Decode(decoder, file[indexed + 1])
  /\ indexed' = indexed + 1
  /\ encoding' = IF indexed = 0 THEN guess(s') ELSE encoding
  /\ UNCHANGED <<file, operation, setting, codec, grown, fresh,
                 changes>>

\* A turn of the loop of doIndex(): a block is read, given to the
\* speculator and added to the index with the guess.
doIndex ==
  /\ operation # "none" /\ indexed < Len(file)
  /\ s' = inject_byte(s, file[indexed + 1])
  /\ decoder' = Decode(decoder, file[indexed + 1])
  /\ indexed' = indexed + 1
  /\ encoding' = guess(s')
  /\ UNCHANGED <<file, operation, setting, codec, grown, fresh,
                 changes>>

-----------------------------------------------------------------------------
(* The CrawlerWidget *)

\* CrawlerWidget::updateEncoding() and LogData::doSetDisplayEncoding()
updateEncoding(chosen, detected) ==
  codec' = CASE chosen # "AUTO" -> chosen
             [] chosen = "AUTO" /\ detected \in {"ASCII7", "ASCII8"}
                -> "ISO_8859_1"
             [] OTHER -> detected

\* The operation ended, at the end of the file or by an interruption; this
\* handler runs before another one is started.
loadingFinishedHandler ==
  /\ operation # "none" /\ operation' = "none"
  /\ updateEncoding(setting, encoding)
  /\ UNCHANGED <<file, indexed, encoding, s, setting, decoder, grown, fresh,
                 changes>>

\* MainWindow::encodingChanged()
setEncoding(chosen) ==
  /\ changes < MaxChanges /\ changes' = changes + 1
  /\ setting' = chosen /\ updateEncoding(chosen, encoding)
  /\ UNCHANGED <<file, operation, indexed, encoding, s, decoder, grown,
                 fresh>>

\* CrawlerWidget::reload().  An operation under way is interrupted first:
\* loadingFinishedHandler may come at any time.
reload ==
  /\ operation = "none"
  /\ changes < MaxChanges /\ changes' = changes + 1
  /\ indexAll /\ grown' = FALSE /\ UNCHANGED file

-----------------------------------------------------------------------------
(* The file, and LogData::fileChangedOnDisk() *)

append(b) ==
  /\ Len(file) < MaxSize
  /\ file' = Append(file, b)
  /\ UNCHANGED <<operation, indexed, encoding, s, setting, codec, decoder,
                 grown, fresh, changes>>

\* The file is emptied, to be written again.
truncate ==
  /\ changes < MaxChanges /\ changes' = changes + 1
  /\ file' = <<>> /\ grown' = FALSE /\ fresh' = FALSE
  /\ UNCHANGED <<operation, indexed, encoding, s, setting, codec, decoder>>

\* A file that became shorter than what is indexed is indexed again, any
\* other from where the index ends.
fileChangedOnDisk ==
  /\ operation = "none" /\ indexed # Len(file)
  /\ IF Len(file) < indexed THEN indexAll ELSE indexAdditionalLines
  /\ UNCHANGED <<file, grown, changes>>

-----------------------------------------------------------------------------
Next ==
  \/ doIndex
  \/ loadingFinishedHandler
  \/ fileChangedOnDisk
  \/ reload
  \/ \E chosen \in {"AUTO", "Other"} : setEncoding(chosen)
  \/ \E b \in Bytes : append(b)
  \/ truncate

Spec == Init /\ [][Next]_vars

-----------------------------------------------------------------------------
(* Properties *)

(* The values of the variables. *)
TypeOK ==
  /\ file \in Seq(Bytes) /\ operation \in {"none", "full", "partial"}
  /\ indexed \in Nat /\ encoding \in Guesses
  /\ s \in [state : States, code_point : Nat, left : 0..3, min : Nat]
  /\ setting \in Settings /\ codec \in Codecs
  /\ decoder \in [text : {"ASCII", "UTF8", "Other"}, left : 0..3,
                  low : 128..191, high : 128..191]
  /\ grown \in BOOLEAN /\ fresh \in BOOLEAN /\ changes \in Nat

\* A text in UTF-8 that is not ASCII is recognised whatever its characters:
\* no byte of a sequence, no smallest or largest code point of a length is
\* refused.
Utf8Recognised == IsUtf8(decoder) => guess(s) = "UTF8"

DecoderOf(text) ==
  LET After[n \in 0..Len(text)] ==
        IF n = 0 THEN StartDecoder ELSE Decode(After[n - 1], text[n])
  IN  After[Len(text)]

Read == /\ operation = "none" /\ indexed = Len(file)
        /\ setting = "AUTO" /\ IsUtf8(DecoderOf(file))

\* A file in UTF-8 that has only grown since it was opened is shown as such
\* once it is indexed, though a character be cut by the end of a block or of
\* an indexing, and an indexing be interrupted.
GrownFileIsRead == Read /\ grown => codec = "UTF8"

\* A file in UTF-8 is shown as such once it is indexed.  Not so: the
\* speculator keeps the state the former contents left it in.
FileIsRead == Read /\ fresh => codec = "UTF8"
=============================================================================

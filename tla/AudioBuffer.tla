------------------------------ MODULE AudioBuffer ------------------------------
(***************************************************************************)
(* The sample ring of audio/audio_buffer.c and audio_buffer.h: a storage,  *)
(* a read and a write index.  Two rings may be laid over one storage.      *)
(*                                                                         *)
(* Sizes, lengths and indices count periods.  In the code they count       *)
(* samples, always a multiple of the period; with a period that is a power *)
(* of two the mask wraps at the same places.                               *)
(***************************************************************************)
EXTENDS Integers

\* size_mask + 1: doubled for each time that the size can be halved.
Wrap(size) ==
  LET wrap[s \in 0..size] == IF s <= 1 THEN 1 ELSE 2 * wrap[s \div 2]
  IN  wrap[size]

WriteUpdate(buf, len) == [buf EXCEPT !.write = (@ + len) % Wrap(buf.size)]

ReadUpdate(buf, len) == [buf EXCEPT !.read = (@ + len) % Wrap(buf.size)]

\* audio_buf_write_head, where it leaves the index.
WriteHead(buf, len) == [buf EXCEPT !.read = (@ - len) % Wrap(buf.size)]

Avail(buf) ==
  IF buf.write < buf.read THEN buf.write + buf.size - buf.read
  ELSE buf.write - buf.read

\* Indices after audio_buf_reset, and after audio_buf_init: the silence is
\* written from index 0.
Reset(buf) == [buf EXCEPT !.read = 0, !.write = buf.silence % Wrap(buf.size)]

BufInit(base, size, silence, flags, shared_id) ==
  Reset([base |-> base, size |-> size, silence |-> silence, flags |-> flags,
         shared_id |-> shared_id, read |-> 0, write |-> 0])
=============================================================================

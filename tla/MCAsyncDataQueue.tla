------------------------- MODULE MCAsyncDataQueue -------------------------
(***************************************************************************)
(* Instances of AsyncDataQueue for TLC.  The sizes are given by the .cfg   *)
(* files; the sets of calls the threads make are named here.               *)
(***************************************************************************)
EXTENDS AsyncDataQueue

\* The calls of the threads of the application
AppWriterCalls == {"addDataPoints", "notifyStreamEnd"}
AppReaderCalls == {"popDataPoints", "discardRestOfStream"}
=============================================================================

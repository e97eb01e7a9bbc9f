---------------------------- MODULE MCTranscript ----------------------------
EXTENDS TranscriptProps

\* The third session, or the third message: not both.
Small == used + said <= 5
=============================================================================

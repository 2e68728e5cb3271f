-------------------------- MODULE MCStreamingWriter --------------------------
EXTENDS StreamingWriter
CONSTANTS a, b, c
MCTexts == {a, b, c}
MCRows == {<<b, a>>, <<b, c>>, <<a, Date>>, <<c, b, a>>}
=============================================================================

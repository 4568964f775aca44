----------------------------- MODULE MCParsers -----------------------------
EXTENDS Parsers

\* No body; one that looks like the next length; and two that take the length
\* of the packet over the border between one and two digits.
MCTexts == {<<>>, <<58, 50>>, <<50, 58, 49>>, [i \in 1..8 |-> 97],
            [i \in 1..9 |-> 49], [i \in 1..36 |-> 58]}
\* Bytes that are separators, types or digits.
MCBlobs == {<<>>, <<255, 1>>, <<0, 255, 58>>, [i \in 1..11 |-> 255]}
MCTypes == {2, 4}

MCNames == {<<"/", "a">>, <<"/", "a", "1">>}
MCIds == {-1, 0, 7, 12}
\* ["m",1] in short, "m", and Invalid namespace.
MCJson == {<<"[", ",", "1", "]">>, <<"quote", "/", ",">>}
MCPlain == {<<"I", "n", "v">>}

\* Both sides of each border between the forms of a length, in the code and
\* in the protocol; keys with zeros in them, and none but zeros.
MCLengths == {0, 1, 125, 126, 127, 255, 256, 65535, 65536, 16777216}
MCKeys == {<<0, 0, 0, 0>>, <<0, 0, 0, 1>>, <<255, 0, 126, 127>>}

\* ASCII and the borders between the forms of code points; the ends of both
\* kinds of surrogates.
MCUnits == {65, 127, 128, 2047, 2048, 55295, 55296, 56319, 56320, 57343, 57344, 65535}
\* First bytes of every form, forbidden ones, the ends of the second bytes.
MCOctets == {65, 143, 144, 159, 160, 193, 194, 224, 237, 240, 244, 248}

\* No arguments, two that are there at once, one that is to be read, and both.
MCShapes == {<<>>, <<"buffer", "buffer">>, <<"blob">>, <<"blob", "buffer", "blob">>}

\* No query, and keys and values with the characters that separate them, some
\* that need an escape, and one that looks like a parameter of the protocol.
MCQueries == {<<>>,
              << <<<<"a">>, <<"1", "&", "s", "i", "d", "=", "x">>>>,
                 <<<<"b", "=">>, <<" ", "%", "+", "/">>>> >>,
              << <<<<"T">>, <<>>>>, <<<<"&">>, <<"=", "_">>>> >>}
\* Whose base64 has all of its characters that a URL cannot have, or none.
MCRandoms == {[i \in 1..15 |-> IF i % 3 = 0 THEN 126 ELSE 65],
              [i \in 1..15 |-> IF i % 3 = 0 THEN 63 ELSE 107],
              [i \in 1..15 |-> 32 + 6 * i]}
\* Both sides of a border between lengths, in base 64.
MCTimes == {63, 64, 4096}
=============================================================================

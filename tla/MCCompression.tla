---------------------------- MODULE MCCompression ----------------------------
EXTENDS Compression
Of(name, bits) == {<<>>, <<Word(name)>>} \cup {<<Word(name), Number(n)>> : n \in bits}
Maybe(name) == {<<>>, <<Word(name)>>}
Permessage ==
  {<<Word(PERMESSAGE)>> \o a \o b \o c \o d :
     a \in Of("server_max_window_bits", {0, 3, 8, 10, 17}), b \in Of("client_max_window_bits", {3, 8, 12, 15, 17}),
     c \in Maybe("server_no_context_takeover"), d \in Maybe("client_no_context_takeover")}
Webkit ==
  {<<Word(WEBKIT)>> \o a \o b : a \in Of("max_window_bits", {3, 8, 10, 16}), b \in Maybe("no_context_takeover")}
SomeOffers ==
  Permessage \cup Webkit
    \cup {<<>>, <<Word("other"), Number(0), Word(PERMESSAGE)>>,
          <<Word("other"), Number(7), Word(PERMESSAGE), Word("client_max_window_bits"), Word("other"), Number(11),
            Word(PERMESSAGE), Word("server_max_window_bits"), Number(9)>>}
SomeConfigurations ==
  {c + d : c \in {0, SHARED_COMPRESSOR, DEDICATED_COMPRESSOR_3KB, DEDICATED_COMPRESSOR(9), DEDICATED_COMPRESSOR(12), DEDICATED_COMPRESSOR(15)},
           d \in {0, SHARED_DECOMPRESSOR, DEDICATED_DECOMPRESSOR(9), DEDICATED_DECOMPRESSOR(15)}}
=============================================================================

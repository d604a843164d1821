------------------------------ MODULE MCPs2Kbd ------------------------------
(* The driver with every key of its table. *)
EXTENDS Ps2Kbd

MCPlain ==
    {\h01, \h03, \h04, \h05, \h06, \h07, \h09, \h0A, \h0B, \h0C, \h0D, \h0E,
     \h11, \h12, \h14, \h15, \h16, \h1A, \h1B, \h1C, \h1D, \h1E,
     \h21, \h22, \h23, \h24, \h25, \h26, \h29, \h2A, \h2B, \h2C, \h2D, \h2E,
     \h31, \h32, \h33, \h34, \h35, \h36, \h3A, \h3B, \h3C, \h3D, \h3E,
     \h41, \h42, \h43, \h44, \h45, \h46, \h49, \h4A, \h4B, \h4C, \h4D, \h4E,
     \h52, \h54, \h55, \h58, \h59, \h5A, \h5B, \h5D, \h66, \h69, \h6B, \h6C,
     \h70, \h71, \h72, \h73, \h74, \h75, \h76, \h77, \h78, \h79, \h7A, \h7B,
     \h7C, \h7D, \h7E, \h83}

MCExtended ==
    {\h10, \h11, \h14, \h15, \h18, \h1F, \h20, \h21, \h23, \h27, \h28, \h2B, \h2F,
     \h30, \h32, \h34, \h37, \h38, \h3A, \h3B, \h3F, \h40, \h48, \h4A, \h4D,
     \h50, \h5A, \h5E, \h69, \h6B, \h6C, \h70, \h71, \h72, \h74, \h75, \h7A, \h7D}
=============================================================================

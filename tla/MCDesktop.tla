----------------------------- MODULE MCDesktop -----------------------------
EXTENDS Desktop
MCSessions == {<<{"button"}, 2, 2>>, <<{"agent"}, 3, 0>>, <<{"tray"}, 1, 0>>,
               <<{"agent", "button"}, 1, 1>>, <<{"agent", "button"}, 0, 2>>}
=============================================================================

SPECIFICATION MCSpec
CONSTANT Threads = {t1, t2, t3, t4}
SYMMETRY Symmetry
INVARIANT NewReadersRefused

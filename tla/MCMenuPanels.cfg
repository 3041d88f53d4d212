\* Three scrolls: one panel opened, closed and opened again while another waits.
SPECIFICATION FairSpec
CONSTANT MaxDue = 3
PROPERTIES LastOpenedWins ScrollMakesRoom OpeningScrolls
